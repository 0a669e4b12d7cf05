--------------------------- MODULE SettingsProofs ---------------------------
(***************************************************************************)
(* The agent with its settings implements the resolution of two hosts, so  *)
(* that what is proved of that (DnsProofs) holds whatever the ACS sets; a  *)
(* running agent is what its last start made of the settings.  A URL that  *)
(* can be relied on is taken apart into the parts it was made of, whatever *)
(* the texts in it, so that an agent with usable settings runs.            *)
(***************************************************************************)
EXTENDS Settings, DnsProofs, SequenceTheorems, WellFoundedInduction

\* A running agent was configured by the settings of its last start, all of
\* which evcpe_set accepted; one that does not run has none.
AsBooted ==
  IF phase = "running"
    THEN cpe = Configured(boot) /\ Outcome(boot) = "ok" /\ outcome = "ok"
    ELSE cpe = Empty

-----------------------------------------------------------------------------

\* Each step of the agent is a step of the resolution or none.
LEMMA StepRefines == [SettingsNext]_settingsVars => [Next]_vars
<1> SUFFICES ASSUME [SettingsNext]_settingsVars PROVE [Next]_vars
  OBVIOUS
<1>1. CASE Started
  BY <1>1 DEF Started, Next
<1>2. CASE NotStarted \/ SetSetting
  BY <1>2 DEF NotStarted, SetSetting
<1>3. CASE Resolve
  BY <1>3 DEF Resolve, Next
<1>4. CASE Stop \/ ConnectNowhere
  BY <1>4 DEF Stop, ConnectNowhere, Next
<1>5. CASE UNCHANGED settingsVars
  BY <1>5 DEF settingsVars
<1> QED
  BY <1>1, <1>2, <1>3, <1>4, <1>5 DEF SettingsNext

\* The agent with settings implements the resolution of names on its own.
THEOREM Refines == SettingsSpec => Spec
<1>1. SettingsInit => Init
  BY DEF SettingsInit
<1> QED
  BY <1>1, StepRefines, PTL DEF SettingsSpec, Spec

\* An entry is asked for or waits, not both, whatever the ACS sets.
THEOREM SettingsOneRound == SettingsSpec => []OneRound
BY Refines, AlwaysOneRound, PTL

\* The address of the session's host is kept, whatever the ACS sets.
THEOREM SettingsAddressKept == SettingsSpec => AddressKept
BY Refines, AlwaysAddressKept, PTL

-----------------------------------------------------------------------------

\* Only a start changes what a running agent was configured by; settings that
\* change afterwards do not.
LEMMA StepAsBooted == AsBooted /\ [SettingsNext]_settingsVars => AsBooted'
<1> SUFFICES ASSUME AsBooted, [SettingsNext]_settingsVars PROVE AsBooted'
  OBVIOUS
<1>1. CASE Started
  <2>1. cpe' = Configured(boot') /\ boot' = setting /\ outcome' = "ok"
    BY <1>1 DEF Started
  <2>2. Outcome(boot') = "ok" /\ phase' = "running"
    BY <1>1, <2>1 DEF Started, Start
  <2> QED
    BY <2>1, <2>2 DEF AsBooted
<1>2. CASE NotStarted
  BY <1>2 DEF NotStarted, AsBooted, vars
<1>3. CASE SetSetting
  BY <1>3 DEF SetSetting, AsBooted, vars
<1>4. CASE Resolve
  BY <1>4 DEF Resolve, TimerFires, Answered, Failed, AsBooted
<1>5. CASE Stop \/ ConnectNowhere
  BY <1>5 DEF Stop, ConnectNowhere, Die, AsBooted
<1>6. CASE UNCHANGED settingsVars
  BY <1>6 DEF settingsVars, vars, AsBooted
<1> QED
  BY <1>1, <1>2, <1>3, <1>4, <1>5, <1>6 DEF SettingsNext

\* Until it stops the agent is what the settings of its last start made of it:
\* the ACS cannot change its host, its timer or its port in between.
THEOREM AlwaysAsBooted == SettingsSpec => []AsBooted
<1>1. SettingsInit => AsBooted
  BY DEF SettingsInit, Init, AsBooted
<1> QED
  BY <1>1, StepAsBooted, PTL DEF SettingsSpec


-----------------------------------------------------------------------------
(***************************************************************************)
(* Texts.                                                                  *)
(***************************************************************************)

\* The marks are words.
LEMMA MarksAreWords ==
  ":" \in Word /\ "/" \in Word /\ "@" \in Word /\ "http" \in Word /\ "https" \in Word
BY UrlAssumption DEF Marks

\* The words that the agent looks for, and the texts of one or two words.
LEMMA ShortTexts ==
  /\ <<>> \in Text /\ <<":">> \in Text /\ <<"@">> \in Text
  /\ <<":", "/", "/">> \in Text /\ <<"http">> \in Text /\ <<"https">> \in Text
  /\ \A w \in Word : <<":", w>> \in Text
BY MarksAreWords DEF Text

\* A set of numbers that is not empty has a least one.
LEMMA HasLeast ==
  ASSUME NEW T \in SUBSET Nat, T # {}
  PROVE  \E i \in T : \A j \in T : i <= j
<1> DEFINE R == OpToRel(<, Nat)
<1>1. IsWellFoundedOn(R, Nat)
  BY NatLessThanWellFounded
<1>2. \A i, j \in Nat : j < i => <<j, i>> \in R
  BY DEF OpToRel
<1> HIDE DEF R
<1>3. PICK i \in T : \A j \in T : <<j, i>> \notin R
  BY <1>1, WFMin
<1>4. ASSUME NEW j \in T PROVE i <= j
  <2>1. i \in Nat /\ j \in Nat /\ ~(j < i)
    BY <1>2, <1>3
  <2> QED
    BY <2>1
<1> QED
  BY <1>4

\* Where strchr finds a mark, or that it finds none.
LEMMA FindFacts ==
  ASSUME NEW s \in Text, NEW m
  PROVE  /\ Find1(s, m) \in 0..Len(s) /\ Find1(s, m) \in Nat
         /\ Find1(s, m) = 0 <=> Without(s, {m})
         /\ Find1(s, m) # 0 =>
              s[Find1(s, m)] = m /\ \A j \in 1..(Find1(s, m) - 1) : s[j] # m
<1>1. Len(s) \in Nat /\ DOMAIN s = 1..Len(s)
  BY DEF Text
<1>2. CASE \A i \in 1..Len(s) : s[i] # m
  BY <1>1, <1>2 DEF Find1, Without, Text
<1>3. CASE \E i \in 1..Len(s) : s[i] = m
  <2> DEFINE P(i) == s[i] = m /\ \A j \in 1..(i - 1) : s[j] # m
  <2>1. \E i \in 1..Len(s) : P(i)
    <3> DEFINE T == {i \in 1..Len(s) : s[i] = m}
    <3>1. T \in SUBSET Nat /\ T # {}
      BY <1>1, <1>3
    <3>2. PICK k \in T : \A j \in T : k <= j
      BY <3>1, HasLeast
    <3>3. \A j \in 1..(k - 1) : s[j] # m
      BY <1>1, <3>2
    <3> QED
      BY <3>2, <3>3
  <2>2. Find1(s, m) = CHOOSE i \in 1..Len(s) : P(i)
    BY <1>1, <1>3 DEF Find1
  <2> HIDE DEF P
  <2>3. (CHOOSE i \in 1..Len(s) : P(i)) \in 1..Len(s) /\ P(CHOOSE i \in 1..Len(s) : P(i))
    BY <2>1
  <2>4. Find1(s, m) \in 1..Len(s) /\ P(Find1(s, m))
    BY <2>2, <2>3
  <2> QED
    BY <1>1, <1>3, <2>4 DEF P, Without
<1> QED
  BY <1>2, <1>3

\* A mark that stands first.
LEMMA FindFirst ==
  ASSUME NEW s \in Text, s # <<>>, NEW m, s[1] = m
  PROVE  Find1(s, m) = 1
<1>1. Len(s) \in Nat /\ 1 \in 1..Len(s)
  BY DEF Text
<1>2. ~Without(s, {m})
  BY <1>1 DEF Without
<1> QED
  BY <1>1, <1>2, FindFacts

\* A mark behind a text that has none.
LEMMA FindBeyond ==
  ASSUME NEW s \in Text, NEW t \in Text, NEW m, Without(s, {m})
  PROVE  Find1(s \o t, m) = IF Find1(t, m) = 0 THEN 0 ELSE Len(s) + Find1(t, m)
<1> DEFINE f == Find1(s \o t, m)
           g == Find1(t, m)
<1>1. /\ s \o t \in Text /\ Len(s) \in Nat /\ Len(t) \in Nat
      /\ Len(s \o t) = Len(s) + Len(t)
      /\ \A i \in 1..(Len(s) + Len(t)) :
           (s \o t)[i] = IF i <= Len(s) THEN s[i] ELSE t[i - Len(s)]
  BY ConcatProperties DEF Text
<1>2. /\ f \in 0..(Len(s) + Len(t))
      /\ f = 0 <=> Without(s \o t, {m})
      /\ f # 0 => (s \o t)[f] = m /\ \A j \in 1..(f - 1) : (s \o t)[j] # m
  BY <1>1, FindFacts
<1>3. /\ g \in 0..Len(t)
      /\ g = 0 <=> Without(t, {m})
      /\ g # 0 => t[g] = m /\ \A j \in 1..(g - 1) : t[j] # m
  BY FindFacts
<1>4. \A i \in 1..Len(s) : s[i] # m
  BY DEF Without
<1>5. /\ f = 0 <=> \A i \in 1..(Len(s) + Len(t)) : (s \o t)[i] # m
      /\ g = 0 <=> \A i \in 1..Len(t) : t[i] # m
  BY <1>1, <1>2, <1>3 DEF Without, Text
<1> HIDE DEF f, g
<1>6. CASE g = 0
  <2>1. ASSUME NEW i \in 1..(Len(s) + Len(t)) PROVE (s \o t)[i] # m
    <3>1. i <= Len(s) => (s \o t)[i] = s[i] /\ i \in 1..Len(s)
      BY <1>1
    <3>2. ~(i <= Len(s)) => (s \o t)[i] = t[i - Len(s)] /\ i - Len(s) \in 1..Len(t)
      BY <1>1
    <3> QED
      BY <1>4, <1>5, <1>6, <3>1, <3>2
  <2> QED
    BY <1>5, <1>6, <2>1 DEF f, g
<1>7. CASE g # 0
  <2>1. (s \o t)[Len(s) + g] = m /\ Len(s) + g \in 1..(Len(s) + Len(t))
    BY <1>1, <1>3, <1>7
  <2>2. f # 0 /\ f <= Len(s) + g
    <3>1. f # 0
      BY <1>5, <2>1
    <3>2. f > Len(s) + g => Len(s) + g \in 1..(f - 1)
      BY <1>1, <1>2, <2>1
    <3>3. ~(Len(s) + g \in 1..(f - 1))
      BY <1>2, <2>1, <3>1
    <3>4. f \in Nat /\ Len(s) + g \in Nat
      BY <1>1, <1>2, <2>1
    <3> QED
      BY <3>1, <3>2, <3>3, <3>4
  <2>3. f > Len(s) /\ t[f - Len(s)] = m /\ f - Len(s) \in 1..Len(t)
    BY <1>1, <1>2, <1>4, <2>2
  <2>4. g <= f - Len(s)
    BY <1>1, <1>2, <1>3, <1>7, <2>2, <2>3
  <2> QED
    BY <1>1, <1>2, <1>3, <1>7, <2>2, <2>4 DEF f, g
<1> QED
  BY <1>6, <1>7 DEF f, g

\* A mark that two texts do not have.
LEMMA WithoutConcat ==
  ASSUME NEW s \in Text, NEW t \in Text, NEW m, Without(s, {m}), Without(t, {m})
  PROVE  Without(s \o t, {m})
<1>1. s \o t \in Text
  BY ConcatProperties DEF Text
<1>2. Find1(t, m) = 0
  BY FindFacts
<1>3. Find1(s \o t, m) = 0
  BY <1>2, FindBeyond
<1> QED
  BY <1>1, <1>3, FindFacts

\* Two texts that were put together are taken apart again.
LEMMA TakenApart ==
  ASSUME NEW s \in Text, NEW t \in Text
  PROVE  /\ s \o t \in Text /\ Len(s \o t) = Len(s) + Len(t)
         /\ Len(s) \in Nat /\ Len(t) \in Nat
         /\ SubSeq(s \o t, 1, Len(s)) = s
         /\ SubSeq(s \o t, Len(s) + 1, Len(s \o t)) = t
<1>1. /\ s \o t \in Text /\ Len(s) \in Nat /\ Len(t) \in Nat
      /\ Len(s \o t) = Len(s) + Len(t)
  BY ConcatProperties DEF Text
<1>2. SubSeq(s \o t, 1, Len(s)) = s
  <2>1. CASE s = <<>>
    BY <1>1, <2>1, SubSeqEmpty
  <2>2. CASE s # <<>>
    <3>1. 1 \in 1..Len(s) /\ Len(s) \in 1..Len(s)
      BY <1>1, <2>2 DEF Text
    <3>2. SubSeq(s \o t, 1, Len(s)) = SubSeq(s, 1, Len(s))
      BY <3>1, SubSeqOfConcat1 DEF Text
    <3> QED
      BY <3>2, SubSeqFull DEF Text
  <2> QED
    BY <2>1, <2>2
<1>3. SubSeq(s \o t, Len(s) + 1, Len(s \o t)) = t
  <2>1. CASE t = <<>>
    BY <1>1, <2>1, SubSeqEmpty
  <2>2. CASE t # <<>>
    <3> DEFINE m == Len(s) + 1
               n == Len(s) + Len(t)
    <3>1. m \in (Len(s) + 1)..(Len(s) + Len(t)) /\ n \in (Len(s) + 1)..(Len(s) + Len(t))
      BY <1>1, <2>2 DEF Text
    <3>2. SubSeq(s \o t, m, n) = SubSeq(t, m - Len(s), n - Len(s))
      BY <3>1, SubSeqOfConcat2 DEF Text
    <3>3. m - Len(s) = 1 /\ n - Len(s) = Len(t)
      BY <1>1
    <3> QED
      BY <1>1, <3>2, <3>3, SubSeqFull DEF Text
  <2> QED
    BY <2>1, <2>2
<1> QED
  BY <1>1, <1>2, <1>3

\* It does not matter which of three texts are put together first.
LEMMA TextsAssociate ==
  ASSUME NEW s \in Text, NEW t \in Text, NEW u \in Text
  PROVE  (s \o t) \o u = s \o (t \o u)
BY ConcatAssociative DEF Text

\* What is put behind a text of one word leaves that word first.
LEMMA FirstStays ==
  ASSUME NEW s \in Text, NEW t \in Text, Len(s) = 1
  PROVE  (s \o t)[1] = s[1]
<1>1. Len(t) \in Nat
  BY DEF Text
<1>2. \A i \in 1..(Len(s) + Len(t)) :
        (s \o t)[i] = IF i <= Len(s) THEN s[i] ELSE t[i - Len(s)]
  BY ConcatProperties DEF Text
<1> QED
  BY <1>1, <1>2

\* A text that is one mark.
IsMark(c, m) == c \in Text /\ Len(c) = 1 /\ c[1] = m

\* The marks the agent looks for, as texts.
LEMMA MarksAreMarks == IsMark(<<":">>, ":") /\ IsMark(<<"@">>, "@")
BY ShortTexts DEF IsMark

\* A text, a mark that it has not, and two texts.
Parted(s, c, w, t, m) ==
  s \in Text /\ w \in Text /\ t \in Text /\ IsMark(c, m) /\ Without(s, {m})

\* What stands before a mark, and what stands behind it.
LEMMA Between ==
  ASSUME NEW s, NEW c, NEW w, NEW t, NEW m, Parted(s, c, w, t, m)
  PROVE  /\ s \o (c \o (w \o t)) \in Text
         /\ Len(s \o (c \o (w \o t))) = Len(s) + 1 + Len(w) + Len(t)
         /\ Find1(s \o (c \o (w \o t)), m) = Len(s) + 1
         /\ SubSeq(s \o (c \o (w \o t)), Len(s) + 2, Len(s) + 1 + Len(w)) = w
         /\ SubSeq(s \o (c \o (w \o t)), 1, Len(s)) = s
<1>0. /\ s \in Text /\ c \in Text /\ w \in Text /\ t \in Text /\ Without(s, {m})
      /\ Len(c) = 1 /\ c[1] = m
  BY DEF Parted, IsMark
<1>1. PICK r : r = w \o t
  OBVIOUS
<1>2. /\ r \in Text /\ Len(r) = Len(w) + Len(t) /\ Len(t) \in Nat /\ Len(w) \in Nat
      /\ SubSeq(r, 1, Len(w)) = w
  BY <1>0, <1>1, TakenApart
<1>3. PICK u : u = c \o r
  OBVIOUS
<1>4. u \in Text /\ Len(u) = Len(c) + Len(r) /\ Len(c) = 1
  BY <1>0, <1>2, <1>3, TakenApart
<1>5. Len(r) \in Nat
  BY <1>2
<1>6. Find1(u, m) = 1
  <2>1. (c \o r)[1] = c[1]
    <3>1. c \in Text /\ r \in Text /\ Len(c) = 1
      BY <1>0, <1>2
    <3> QED
      BY <3>1, FirstStays
  <2>2. Len(u) # 0
    BY <1>4, <1>5
  <2>3. u # <<>>
    BY <2>2
  <2>4. u[1] = m
    BY <1>0, <1>3, <2>1
  <2> QED
    BY <1>4, <2>3, <2>4, FindFirst
<1>7. Find1(s \o u, m) = Len(s) + 1
  <2>1. Find1(s \o u, m) = IF Find1(u, m) = 0 THEN 0 ELSE Len(s) + Find1(u, m)
    BY <1>0, <1>4, FindBeyond
  <2> QED
    BY <1>6, <2>1
<1>8. /\ SubSeq(s \o u, 1, Len(s)) = s /\ s \o u \in Text
      /\ Len(s \o u) = Len(s) + Len(u)
  BY <1>0, <1>4, TakenApart
<1>9. PICK h : h = s \o c
  OBVIOUS
<1>10. h \in Text /\ Len(h) = Len(s) + Len(c) /\ Len(s) \in Nat /\ Len(c) = 1
  BY <1>0, <1>9, TakenApart
<1>11. s \o u = h \o r
  BY <1>0, <1>2, <1>3, <1>9, TextsAssociate
<1>12. SubSeq(h \o r, Len(h) + 1, Len(h) + Len(w)) = w
  <2>1. Len(h) \in Nat
    BY <1>10
  <2>2. CASE Len(w) = 0
    <3>1. w = <<>>
      BY <1>0, <2>2 DEF Text
    <3>2. SubSeq(h \o r, Len(h) + 1, Len(h) + Len(w)) = <<>>
      BY <2>1, <2>2, SubSeqEmpty
    <3> QED
      BY <3>1, <3>2
  <2>3. CASE Len(w) # 0
    <3>1. PICK a, b : a = Len(h) + 1 /\ b = Len(h) + Len(w)
      OBVIOUS
    <3>2. a \in (Len(h) + 1)..(Len(h) + Len(r)) /\ b \in (Len(h) + 1)..(Len(h) + Len(r))
      BY <1>2, <2>1, <2>3, <3>1
    <3>3. SubSeq(h \o r, a, b) = SubSeq(r, a - Len(h), b - Len(h))
      BY <1>2, <1>10, <3>2, SubSeqOfConcat2 DEF Text
    <3>4. a - Len(h) = 1 /\ b - Len(h) = Len(w)
      BY <1>2, <2>1, <3>1
    <3> QED
      BY <1>2, <3>1, <3>3, <3>4
  <2> QED
    BY <2>2, <2>3
<1>13. Len(h) + 1 = Len(s) + 2 /\ Len(h) + Len(w) = Len(s) + 1 + Len(w)
  BY <1>2, <1>10
<1>14. s \o u = s \o (c \o (w \o t))
  BY <1>1, <1>3
<1>15. SubSeq(s \o u, Len(s) + 2, Len(s) + 1 + Len(w)) = w
  BY <1>11, <1>12, <1>13
<1>16. Len(s \o u) = Len(s) + 1 + Len(w) + Len(t)
  <2>1. Len(s \o u) = Len(s) + Len(u)
    BY <1>8
  <2>2. Len(u) = 1 + (Len(w) + Len(t))
    BY <1>2, <1>4
  <2> QED
    BY <1>2, <1>10, <2>1, <2>2
<1> QED
  BY <1>7, <1>8, <1>14, <1>15, <1>16

\* A user, an @ and the rest, which has no colon.
Alone(u, a, l) ==
  /\ u \in Text /\ l \in Text /\ IsMark(a, "@")
  /\ Without(u, {"@"}) /\ Without(u, {":"}) /\ Without(l, {":"})

\* A user without a password is all that stands before the @.
LEMMA UserAlone ==
  ASSUME NEW u, NEW a, NEW l, Alone(u, a, l)
  PROVE  LET rest == (u \o a) \o l
         IN  /\ rest \in Text /\ Len(rest) # 0
             /\ Find1(rest, "@") = Len(u) + 1 /\ Find1(rest, ":") = 0
             /\ SubSeq(rest, 1, Len(u)) = u
             /\ SubSeq(rest, Len(u) + 2, Len(rest)) = l
<1>0. /\ u \in Text /\ a \in Text /\ l \in Text /\ IsMark(a, "@")
      /\ Without(u, {"@"}) /\ Without(u, {":"}) /\ Without(l, {":"})
  BY DEF Alone, IsMark
<1>1. PICK e : e = <<>>
  OBVIOUS
<1>2. e \in Text /\ Len(e) = 0 /\ l \o e = l
  BY <1>0, <1>1, ShortTexts, ConcatEmptySeq DEF Text
<1>3. (u \o a) \o l = u \o (a \o (l \o e))
  BY <1>0, <1>2, TextsAssociate
<1> DEFINE rest == u \o (a \o (l \o e))
<1>4. /\ rest \in Text /\ Len(rest) = Len(u) + 1 + Len(l) + Len(e)
      /\ Find1(rest, "@") = Len(u) + 1
      /\ SubSeq(rest, Len(u) + 2, Len(u) + 1 + Len(l)) = l
      /\ SubSeq(rest, 1, Len(u)) = u
  <2>1. Parted(u, a, l, e, "@")
    BY <1>0, <1>2 DEF Parted
  <2> QED
    BY <2>1, Between
<1>5. Len(u) \in Nat /\ Len(l) \in Nat
  BY <1>0 DEF Text
<1>6. Without((u \o a) \o l, {":"})
  <2>1. Without(a, {":"})
    BY <1>0 DEF IsMark, Without
  <2>2. u \o a \in Text /\ Without(u \o a, {":"})
    BY <1>0, <2>1, WithoutConcat, TakenApart
  <2> QED
    BY <1>0, <2>2, WithoutConcat
<1> HIDE DEF rest
<1>7. Find1(rest, ":") = 0
  BY <1>3, <1>4, <1>6, FindFacts DEF rest
<1>8. Len(rest) = Len(u) + 1 + Len(l) /\ Len(rest) # 0
  BY <1>2, <1>4, <1>5
<1> QED
  BY <1>3, <1>4, <1>7, <1>8 DEF rest

\* A user, a colon, a password, an @ and the rest.
Both(u, c, w, a, l, rest) ==
  /\ rest = ((u \o (c \o w)) \o a) \o l
  /\ u \in Text /\ w \in Text /\ l \in Text /\ IsMark(c, ":") /\ IsMark(a, "@")
  /\ Without(u, {"@"}) /\ Without(u, {":"}) /\ Without(w, {"@"})

\* A user and a password are what stands before the @, on either side of the
\* first colon.
LEMMA UserAndPassword ==
  ASSUME NEW u, NEW c, NEW w, NEW a, NEW l, NEW rest, Both(u, c, w, a, l, rest)
  PROVE  /\ rest \in Text /\ Len(rest) # 0
         /\ Find1(rest, ":") = Len(u) + 1
         /\ Find1(rest, "@") = Len(u) + Len(w) + 2
         /\ SubSeq(rest, 1, Len(u)) = u
         /\ SubSeq(rest, Len(u) + 2, Len(u) + Len(w) + 1) = w
         /\ SubSeq(rest, Len(u) + Len(w) + 3, Len(rest)) = l
<1>0. /\ u \in Text /\ c \in Text /\ w \in Text /\ a \in Text /\ l \in Text
      /\ IsMark(c, ":") /\ IsMark(a, "@")
      /\ Without(u, {"@"}) /\ Without(u, {":"}) /\ Without(w, {"@"})
  BY DEF Both, IsMark
<1>1. PICK e : e = <<>>
  OBVIOUS
<1>2. e \in Text /\ Len(e) = 0 /\ l \o e = l
  BY <1>0, <1>1, ShortTexts, ConcatEmptySeq DEF Text
<1>3. PICK v, k : v = c \o w /\ k = u \o v
  OBVIOUS
<1>4. /\ v \in Text /\ Len(v) = 1 + Len(w) /\ k \in Text /\ Len(k) = Len(u) + Len(v)
      /\ Len(u) \in Nat /\ Len(w) \in Nat /\ Len(l) \in Nat
  <2>1. c \o w \in Text /\ Len(c \o w) = Len(c) + Len(w)
    BY <1>0, TakenApart
  <2>2. v \in Text /\ Len(v) = 1 + Len(w)
    BY <1>0, <1>3, <2>1 DEF IsMark
  <2>3. u \o v \in Text /\ Len(u \o v) = Len(u) + Len(v)
    BY <1>0, <2>2, TakenApart
  <2>4. Len(u) \in Nat /\ Len(w) \in Nat /\ Len(l) \in Nat
    BY <1>0 DEF Text
  <2> QED
    BY <1>3, <2>2, <2>3, <2>4
<1>5. Without(k, {"@"})
  <2>1. Without(c, {"@"})
    BY <1>0 DEF IsMark, Without
  <2>2. Without(c \o w, {"@"})
    BY <1>0, <2>1, WithoutConcat
  <2>3. Without(u \o v, {"@"})
    BY <1>0, <1>3, <1>4, <2>2, WithoutConcat
  <2> QED
    BY <1>3, <2>3
<1>6. PICK t : t = a \o l
  OBVIOUS
<1>7. t \in Text
  BY <1>0, <1>6, TakenApart
<1>8. (k \o a) \o l = k \o t
  <2>1. (k \o a) \o l = k \o (a \o l)
    <3>1. k \in Text /\ a \in Text /\ l \in Text
      BY <1>0, <1>4
    <3> QED
      BY <3>1, TextsAssociate
  <2> QED
    BY <1>6, <2>1
<1>9. k \o t = u \o (c \o (w \o t))
  <2>1. (u \o v) \o t = u \o (v \o t)
    <3>1. u \in Text /\ v \in Text /\ t \in Text
      BY <1>0, <1>4, <1>7
    <3> QED
      BY <3>1, TextsAssociate
  <2>2. (c \o w) \o t = c \o (w \o t)
    BY <1>0, <1>7, TextsAssociate
  <2> QED
    BY <1>3, <2>1, <2>2
<1>10. /\ k \o t \in Text /\ Len(k \o t) = Len(k) + 1 + Len(l) + Len(e)
       /\ Find1(k \o t, "@") = Len(k) + 1
       /\ SubSeq(k \o t, Len(k) + 2, Len(k) + 1 + Len(l)) = l
  <2>1. Parted(k, a, l, e, "@")
    BY <1>0, <1>2, <1>4, <1>5 DEF Parted
  <2>2. /\ k \o (a \o (l \o e)) \in Text
        /\ Len(k \o (a \o (l \o e))) = Len(k) + 1 + Len(l) + Len(e)
        /\ Find1(k \o (a \o (l \o e)), "@") = Len(k) + 1
        /\ SubSeq(k \o (a \o (l \o e)), Len(k) + 2, Len(k) + 1 + Len(l)) = l
    BY <2>1, Between
  <2>3. k \o (a \o (l \o e)) = k \o t
    BY <1>2, <1>6
  <2> QED
    BY <2>2, <2>3
<1>11. /\ Find1(k \o t, ":") = Len(u) + 1
       /\ SubSeq(k \o t, Len(u) + 2, Len(u) + 1 + Len(w)) = w
       /\ SubSeq(k \o t, 1, Len(u)) = u
  <2>1. Parted(u, c, w, t, ":")
    BY <1>0, <1>7 DEF Parted
  <2>2. /\ Find1(u \o (c \o (w \o t)), ":") = Len(u) + 1
        /\ SubSeq(u \o (c \o (w \o t)), Len(u) + 2, Len(u) + 1 + Len(w)) = w
        /\ SubSeq(u \o (c \o (w \o t)), 1, Len(u)) = u
    BY <2>1, Between
  <2> QED
    BY <1>9, <2>2
<1>12. /\ Len(k) + 1 = Len(u) + Len(w) + 2 /\ Len(k) + 2 = Len(u) + Len(w) + 3
       /\ Len(u) + 1 + Len(w) = Len(u) + Len(w) + 1
       /\ Len(k \o t) = Len(k) + 1 + Len(l) /\ Len(k \o t) # 0
  <2>1. Len(k) \in Nat /\ Len(k) = Len(u) + Len(w) + 1
    BY <1>4
  <2>2. Len(k \o t) = Len(k) + 1 + Len(l)
    BY <1>2, <1>4, <1>10, <2>1
  <2> QED
    BY <1>4, <2>1, <2>2
<1>13. rest = k \o t
  BY <1>3, <1>8 DEF Both
<1>14. /\ k \o t \in Text /\ Len(k \o t) # 0
       /\ Find1(k \o t, ":") = Len(u) + 1
       /\ Find1(k \o t, "@") = Len(u) + Len(w) + 2
       /\ SubSeq(k \o t, 1, Len(u)) = u
       /\ SubSeq(k \o t, Len(u) + 2, Len(u) + Len(w) + 1) = w
       /\ SubSeq(k \o t, Len(u) + Len(w) + 3, Len(k \o t)) = l
  BY <1>10, <1>11, <1>12
<1> QED
  BY <1>13, <1>14

-----------------------------------------------------------------------------

\* The fields of a URL that was taken apart.
Fields(protocol, username, password, host, port, uri) ==
  [rc |-> "ok", protocol |-> protocol, username |-> username,
   password |-> password, host |-> host, port |-> port, uri |-> uri]

\* What stands before the host, behind it and in the whole behind the protocol.
UserText(p) ==
  IF p.username = Null THEN <<>>
  ELSE p.username
         \o (IF p.password = Null THEN <<>> ELSE <<":">> \o p.password)
         \o <<"@">>
PortText(p) == IF p.port = Null THEN <<>> ELSE <<":", p.port>>
UriText(p) == IF p.uri = Null THEN <<>> ELSE p.uri
Location(p) == p.host \o PortText(p) \o UriText(p)

\* The parts of a URL are texts.
LEMMA PartsAreTexts ==
  ASSUME NEW p \in Parts
  PROVE  /\ p.protocol \in Text /\ p.host \in Text
         /\ p.username # Null => p.username \in Text
         /\ p.password # Null => p.password \in Text
         /\ UserText(p) \in Text /\ PortText(p) \in Text /\ UriText(p) \in Text
         /\ p.host \o PortText(p) \in Text /\ Location(p) \in Text
<1>0. WellFormed(p)
  BY PartsAssumption
<1>1. /\ p.protocol \in Text /\ p.host \in Text
      /\ p.username # Null => p.username \in Text
      /\ p.password # Null => p.password \in Text
  <2>1. p.protocol \in Text
    BY <1>0, ShortTexts DEF WellFormed
  <2>2. p.host \in Text
    BY <1>0 DEF WellFormed, Without
  <2>3. p.username # Null => p.username \in Text
    BY <1>0 DEF WellFormed, Without
  <2>4. p.password # Null => p.password \in Text
    BY <1>0 DEF WellFormed, Without
  <2> QED
    BY <2>1, <2>2, <2>3, <2>4
<1>2. <<>> \in Text /\ <<":">> \in Text /\ <<"@">> \in Text
  BY ShortTexts
<1>3. \A s, t \in Text : s \o t \in Text
  BY ConcatProperties DEF Text
<1>4. UserText(p) \in Text
  <2> DEFINE c == IF p.password = Null THEN <<>> ELSE <<":">> \o p.password
  <2>1. c \in Text
    BY <1>1, <1>2, <1>3
  <2> HIDE DEF c
  <2> QED
    BY <1>1, <1>2, <1>3, <2>1 DEF UserText, c
<1>5. PortText(p) \in Text
  <2>1. p.port # Null => p.port \in Word
    BY <1>0, PartsAssumption DEF WellFormed, ToldApart
  <2> QED
    BY <2>1, ShortTexts DEF PortText
<1>6. UriText(p) \in Text
  BY <1>0, <1>2 DEF UriText, WellFormed
<1> QED
  BY <1>1, <1>3, <1>4, <1>5, <1>6 DEF Location


\* What stands before the path of a URL.
Front(p) == p.host \o PortText(p)

\* It has no slash, and the host no colon.
LEMMA FrontFacts ==
  ASSUME NEW p \in Parts
  PROVE  /\ Front(p) \in Text /\ Location(p) \in Text
         /\ Location(p) = Front(p) \o UriText(p)
         /\ p.host \in Text /\ PortText(p) \in Text /\ UriText(p) \in Text
         /\ Without(Front(p), {"/"}) /\ Without(Front(p), {"@"})
         /\ Without(p.host, {":"})
         /\ Len(p.host) \in Nat \ {0} /\ Len(Front(p)) \in Nat
         /\ Len(Location(p)) = Len(Front(p)) + Len(UriText(p))
         /\ SubSeq(Location(p), 1, Len(Front(p))) = Front(p)
         /\ SubSeq(Location(p), Len(Front(p)) + 1, Len(Location(p))) = UriText(p)
         /\ Len(Front(p)) = Len(p.host) + Len(PortText(p))
         /\ SubSeq(Front(p), 1, Len(p.host)) = p.host
<1>0. WellFormed(p) /\ ToldApart
  BY PartsAssumption
<1>1. /\ p.host \in Text /\ PortText(p) \in Text /\ UriText(p) \in Text
      /\ Front(p) \in Text /\ Location(p) \in Text /\ Location(p) = Front(p) \o UriText(p)
  BY PartsAreTexts DEF Location, Front
<1>2. Len(p.host) \in Nat \ {0}
  BY <1>0, <1>1 DEF WellFormed, Text
<1>3. /\ Without(p.host, {"/"}) /\ Without(p.host, {"@"}) /\ Without(p.host, {":"})
  BY <1>0 DEF WellFormed, Without, Marks
<1>4. Without(PortText(p), {"/"}) /\ Without(PortText(p), {"@"})
  <2>1. CASE p.port = Null
    <3>1. PortText(p) = <<>>
      BY <2>1 DEF PortText
    <3>2. 1..Len(<<>>) = {}
      OBVIOUS
    <3> QED
      BY <1>1, <3>1, <3>2 DEF Without
  <2>2. CASE p.port # Null
    <3>1. p.port # "/" /\ p.port # "@" /\ PortText(p) = <<":", p.port>>
      BY <1>0, <2>2 DEF WellFormed, ToldApart, PortText, Marks
    <3> QED
      BY <1>1, <3>1 DEF Without
  <2> QED
    BY <2>1, <2>2
<1>5. Without(Front(p), {"/"}) /\ Without(Front(p), {"@"})
  BY <1>1, <1>3, <1>4, WithoutConcat DEF Front
<1>6. /\ Len(Front(p)) = Len(p.host) + Len(PortText(p))
      /\ SubSeq(Front(p), 1, Len(p.host)) = p.host
  BY <1>1, TakenApart DEF Front
<1>7. /\ Len(Front(p)) \in Nat
      /\ Len(Location(p)) = Len(Front(p)) + Len(UriText(p))
      /\ SubSeq(Location(p), 1, Len(Front(p))) = Front(p)
      /\ SubSeq(Location(p), Len(Front(p)) + 1, Len(Location(p))) = UriText(p)
  BY <1>1, TakenApart
<1> QED
  BY <1>1, <1>2, <1>3, <1>5, <1>6, <1>7

\* The first slash is that of the path.
LEMMA PathFound ==
  ASSUME NEW p \in Parts
  PROVE  LET slash == Find1(Location(p), "/")
         IN  /\ p.uri = Null => slash = 0 /\ Len(Location(p)) = Len(Front(p))
             /\ p.uri # Null => /\ slash = Len(Front(p)) + 1
                                /\ SubSeq(Location(p), slash, Len(Location(p))) = p.uri
<1>1. Find1(Location(p), "/") =
        IF Find1(UriText(p), "/") = 0 THEN 0 ELSE Len(Front(p)) + Find1(UriText(p), "/")
  <2>1. Find1(Front(p) \o UriText(p), "/") =
          IF Find1(UriText(p), "/") = 0 THEN 0
          ELSE Len(Front(p)) + Find1(UriText(p), "/")
    BY FrontFacts, FindBeyond
  <2> QED
    BY <2>1, FrontFacts
<1>2. CASE p.uri = Null
  <2>1. UriText(p) = <<>> /\ Len(<<>>) = 0 /\ 1..Len(<<>>) = {}
    BY <1>2 DEF UriText
  <2>2. Without(UriText(p), {"/"})
    BY <2>1, FrontFacts DEF Without
  <2>3. Find1(UriText(p), "/") = 0
    BY <2>2, FrontFacts, FindFacts
  <2> QED
    BY <1>1, <1>2, <2>1, <2>3, FrontFacts
<1>3. CASE p.uri # Null
  <2>1. UriText(p) = p.uri /\ p.uri # <<>> /\ p.uri[1] = "/" /\ p.uri \in Text
    BY <1>3, PartsAssumption DEF UriText, WellFormed
  <2>2. Find1(UriText(p), "/") = 1
    BY <2>1, FindFirst
  <2> QED
    BY <1>1, <1>3, <2>1, <2>2, FrontFacts
<1> QED
  BY <1>2, <1>3

\* The first colon is that of the port, if there is one.
LEMMA PortFound ==
  ASSUME NEW p \in Parts
  PROVE  LET colon == Find1(Location(p), ":")
         IN  /\ p.port = Null =>
                  /\ colon = 0 \/ colon > Len(Front(p)) + 1
                  /\ SubSeq(Location(p), 1, Len(Front(p))) = p.host
             /\ p.port # Null =>
                  /\ colon \in 1..Len(Front(p))
                  /\ SubSeq(Location(p), colon + 1, Len(Front(p))) = <<p.port>>
                  /\ SubSeq(Location(p), 1, colon - 1) = p.host
<1>0. WellFormed(p) /\ ToldApart
  BY PartsAssumption
<1>1. CASE p.port = Null
  <2>1. Front(p) = p.host
    BY <1>1, FrontFacts DEF Front, PortText, Text
  <2>2. Find1(Front(p) \o UriText(p), ":") =
          IF Find1(UriText(p), ":") = 0 THEN 0
          ELSE Len(Front(p)) + Find1(UriText(p), ":")
    BY <2>1, FrontFacts, FindBeyond
  <2>3. Find1(UriText(p), ":") \in Nat /\ Find1(UriText(p), ":") # 1
    <3>1. CASE p.uri = Null
      <4>1. Len(UriText(p)) = 0
        BY <3>1 DEF UriText
      <4>2. /\ Find1(UriText(p), ":") \in 0..Len(UriText(p))
            /\ Find1(UriText(p), ":") \in Nat
        BY FrontFacts, FindFacts
      <4> QED
        BY <4>1, <4>2
    <3>2. CASE p.uri # Null
      <4>1. UriText(p)[1] = "/"
        BY <1>0, <3>2 DEF UriText, WellFormed
      <4>2. Find1(UriText(p), ":") # 0 => UriText(p)[Find1(UriText(p), ":")] = ":"
        BY FrontFacts, FindFacts
      <4>3. Find1(UriText(p), ":") \in Nat
        BY FrontFacts, FindFacts DEF Text
      <4> QED
        BY <4>1, <4>2, <4>3
    <3> QED
      BY <3>1, <3>2
  <2>4. /\ Find1(Location(p), ":") = 0 \/ Find1(Location(p), ":") > Len(Front(p)) + 1
        /\ SubSeq(Location(p), 1, Len(Front(p))) = p.host
    <3>1. /\ Location(p) = Front(p) \o UriText(p) /\ Len(Front(p)) \in Nat
          /\ SubSeq(Location(p), 1, Len(Front(p))) = Front(p)
      BY FrontFacts
    <3> QED
      BY <2>1, <2>2, <2>3, <3>1
  <2> QED
    BY <1>1, <2>4
<1>2. CASE p.port # Null
  <2>1. /\ PortText(p) = <<":", p.port>> /\ p.port \in Word
        /\ <<p.port>> \in Text
    BY <1>0, <1>2 DEF PortText, WellFormed, ToldApart, Text
  <2>2. PortText(p) = <<":">> \o <<p.port>> /\ Len(<<":">>) = 1 /\ Len(<<p.port>>) = 1
    BY <2>1, ShortTexts DEF Text
  <2>3. Location(p) = p.host \o (<<":">> \o (<<p.port>> \o UriText(p)))
    <3>1. (p.host \o PortText(p)) \o UriText(p) = p.host \o (PortText(p) \o UriText(p))
      BY FrontFacts, TextsAssociate
    <3>2. (<<":">> \o <<p.port>>) \o UriText(p) = <<":">> \o (<<p.port>> \o UriText(p))
      BY <2>1, FrontFacts, ShortTexts, TextsAssociate
    <3> QED
      BY <2>2, <3>1, <3>2 DEF Location
  <2>4. Len(Front(p)) = Len(p.host) + 2
    <3>1. Len(PortText(p)) = 2
      BY <2>1
    <3> QED
      BY <3>1, FrontFacts
  <2>5. /\ Find1(Location(p), ":") = Len(p.host) + 1
        /\ SubSeq(Location(p), Len(p.host) + 2, Len(p.host) + 2) = <<p.port>>
        /\ SubSeq(Location(p), 1, Len(p.host)) = p.host
    <3>1. UriText(p) \in Text /\ p.host \in Text /\ Without(p.host, {":"})
      BY FrontFacts
    <3>2. PICK c : c = <<":">>
      OBVIOUS
    <3>3. c \in Text /\ IsMark(c, ":")
      BY <3>2, MarksAreMarks DEF IsMark
    <3>4. PICK w : w = <<p.port>>
      OBVIOUS
    <3>5. w \in Text /\ Len(w) = 1
      BY <2>1, <3>4
    <3>6. Location(p) = p.host \o (c \o (w \o UriText(p)))
      BY <2>3, <3>2, <3>4
    <3>7. PICK s, t : s = p.host /\ t = UriText(p)
      OBVIOUS
    <3>8. s \in Text /\ t \in Text /\ Without(s, {":"})
      BY <3>1, <3>7
    <3>9. Parted(s, c, w, t, ":")
      BY <3>3, <3>5, <3>8 DEF Parted
    <3>10. /\ Find1(s \o (c \o (w \o t)), ":") = Len(s) + 1
          /\ SubSeq(s \o (c \o (w \o t)), Len(s) + 2, Len(s) + 1 + Len(w)) = w
          /\ SubSeq(s \o (c \o (w \o t)), 1, Len(s)) = s
      BY <3>9, Between
    <3>11. Location(p) = s \o (c \o (w \o t))
      BY <3>6, <3>7
    <3>12. Len(s) + 1 + Len(w) = Len(s) + 2
      BY <3>5, <3>7, FrontFacts
    <3> QED
      BY <3>4, <3>7, <3>10, <3>11, <3>12
  <2>6. /\ Len(p.host) + 1 - 1 = Len(p.host) /\ Len(p.host) + 1 + 1 = Len(p.host) + 2
        /\ Len(p.host) + 1 \in 1..(Len(p.host) + 2)
    BY FrontFacts
  <2> QED
    BY <1>2, <2>4, <2>5, <2>6
<1> QED
  BY <1>1, <1>2

\* Behind the @ of a URL its host and port come first, then the path.
LEMMA HostTaken ==
  ASSUME NEW p \in Parts, NEW a, NEW b
  PROVE  WithHost(Fields(p.protocol, a, b, Null, 0, Null), Location(p)) =
           Fields(p.protocol, a, b, p.host, Meant(p).port, p.uri)
<1> DEFINE url == Fields(p.protocol, a, b, Null, 0, Null)
           text == Location(p)
           slash == Find1(text, "/")
           end == IF slash = 0 THEN Len(text) + 1 ELSE slash
           colon == Find1(text, ":")
           number == SubSeq(text, colon + 1, end - 1)
           located == IF slash = 0 THEN url
                      ELSE [url EXCEPT !.uri = SubSeq(text, slash, Len(text))]
           n == Len(Front(p))
<1>1. /\ n \in Nat \ {0}
      /\ end - 1 = n /\ slash # 1 /\ end = n + 1
      /\ located = Fields(p.protocol, a, b, Null, 0, p.uri)
  <2>1. n \in Nat \ {0}
    <3>1. /\ n = Len(p.host) + Len(PortText(p)) /\ Len(p.host) \in Nat \ {0}
          /\ n \in Nat /\ PortText(p) \in Text
      BY FrontFacts
    <3>2. Len(PortText(p)) \in Nat
      BY <3>1 DEF Text
    <3> QED
      BY <3>1, <3>2
  <2>2. CASE p.uri = Null
    <3>1. slash = 0 /\ Len(text) = n
      BY <2>2, PathFound
    <3>2. located = url
      BY <3>1
    <3> QED
      BY <2>1, <2>2, <3>1, <3>2
  <2>3. CASE p.uri # Null
    <3>1. slash = n + 1 /\ SubSeq(text, slash, Len(text)) = p.uri
      BY <2>3, PathFound
    <3>2. slash # 0
      BY <2>1, <3>1
    <3>3. located = [url EXCEPT !.uri = p.uri]
      BY <3>1, <3>2
    <3>4. [url EXCEPT !.uri = p.uri] = Fields(p.protocol, a, b, Null, 0, p.uri)
      BY DEF Fields
    <3> HIDE DEF url, text
    <3> QED
      BY <2>1, <3>1, <3>2, <3>3, <3>4
  <2> QED
    BY <2>2, <2>3
<1>2. url.protocol = p.protocol
  BY DEF Fields
<1>3. WithHost(url, text) =
        IF slash = 1 THEN located
        ELSE IF colon = 0 \/ colon > end
          THEN [located EXCEPT !.port = DefaultPort(url.protocol),
                               !.host = SubSeq(text, 1, end - 1)]
        ELSE IF /\ Len(number) = 1
                /\ number[1] \in DOMAIN Decimal
                /\ Decimal[number[1]] \in Ports
          THEN [located EXCEPT !.port = Decimal[number[1]],
                               !.host = SubSeq(text, 1, colon - 1)]
        ELSE Invalid
  BY DEF WithHost
<1>4. \A x, y : [located EXCEPT !.port = x, !.host = y] =
                  Fields(p.protocol, a, b, y, x, p.uri)
  <2> HIDE DEF located
  <2> TAKE x, y
  <2>1. [located EXCEPT !.port = x, !.host = y] =
          [[located EXCEPT !.port = x] EXCEPT !.host = y]
    OBVIOUS
  <2>2. [Fields(p.protocol, a, b, Null, 0, p.uri) EXCEPT !.port = x] =
          Fields(p.protocol, a, b, Null, x, p.uri)
    BY DEF Fields
  <2>3. [Fields(p.protocol, a, b, Null, x, p.uri) EXCEPT !.host = y] =
          Fields(p.protocol, a, b, y, x, p.uri)
    BY DEF Fields
  <2> QED
    BY <1>1, <2>1, <2>2, <2>3
<1>5. CASE p.port = Null
  <2>1. (colon = 0 \/ colon > n + 1) /\ SubSeq(text, 1, n) = p.host
    BY <1>5, PortFound
  <2>2. DefaultPort(p.protocol) = Meant(p).port
    <3>1. p.protocol \in {<<"http">>, <<"https">>}
      BY PartsAssumption DEF WellFormed
    <3>2. Meant(p).port = IF p.protocol = <<"https">> THEN 443 ELSE 80
      BY <1>5 DEF Meant
    <3> QED
      BY <3>1, <3>2 DEF DefaultPort
  <2> HIDE DEF url, text, slash, end, colon, number, located, n
  <2>3. WithHost(url, text) = [located EXCEPT !.port = DefaultPort(url.protocol),
                                              !.host = SubSeq(text, 1, end - 1)]
    BY <1>1, <1>3, <2>1
  <2>4. SubSeq(text, 1, end - 1) = p.host
    BY <1>1, <2>1
  <2>5. WithHost(url, text) = Fields(p.protocol, a, b, p.host, Meant(p).port, p.uri)
    BY <1>2, <1>4, <2>2, <2>3, <2>4
  <2> QED
    BY <2>5 DEF url, text
<1>6. CASE p.port # Null
  <2>1. /\ colon \in 1..n /\ SubSeq(text, colon + 1, n) = <<p.port>>
        /\ SubSeq(text, 1, colon - 1) = p.host
    BY <1>6, PortFound
  <2>2. /\ p.port \in DOMAIN Decimal /\ Decimal[p.port] \in Ports
        /\ Meant(p).port = Decimal[p.port]
    BY <1>6, PartsAssumption DEF WellFormed, Meant
  <2>3. number = <<p.port>>
    BY <1>1, <2>1
  <2> HIDE DEF url, text, slash, end, colon, number, located, n
  <2>4. Len(number) = 1 /\ number[1] = p.port
    BY <2>3
  <2>5. WithHost(url, text) = [located EXCEPT !.port = Decimal[number[1]],
                                              !.host = SubSeq(text, 1, colon - 1)]
    BY <1>1, <1>3, <2>1, <2>2, <2>4
  <2>6. WithHost(url, text) = [located EXCEPT !.port = Meant(p).port, !.host = p.host]
    BY <2>1, <2>2, <2>4, <2>5
  <2>7. WithHost(url, text) = Fields(p.protocol, a, b, p.host, Meant(p).port, p.uri)
    BY <1>4, <2>6
  <2> QED
    BY <2>7 DEF url, text
<1> QED
  BY <1>5, <1>6

\* What a URL is written as behind its protocol.
Rest(p) == UserText(p) \o Location(p)

\* The @ stands behind the user and the password, and nowhere else; the first
\* colon stands behind the user if there is a password, and is not before the @
\* if there is none.
LEMMA UserFound ==
  ASSUME NEW p \in Parts, Plain(p)
  PROVE  LET rest == Rest(p)
             at == Find1(rest, "@")
             colon == Find1(rest, ":")
         IN  /\ rest \in Text /\ rest # <<>>
             /\ SubSeq(rest, at + 1, Len(rest)) = Location(p)
             /\ p.username = Null => at = 0
             /\ p.username # Null => at # 0
             /\ p.username # Null /\ p.password = Null =>
                  colon = 0 /\ SubSeq(rest, 1, at - 1) = p.username
             /\ p.password # Null =>
                  /\ colon # 0 /\ colon < at
                  /\ SubSeq(rest, 1, colon - 1) = p.username
                  /\ SubSeq(rest, colon + 1, at - 1) = p.password
<1> DEFINE l == Location(p)
<1>0. WellFormed(p)
  BY PartsAssumption
<1>1. /\ UserText(p) \in Text /\ l \in Text /\ Len(l) \in Nat /\ Len(l) # 0
      /\ UriText(p) \in Text /\ Without(Front(p), {"@"}) /\ Front(p) \in Text
      /\ l = Front(p) \o UriText(p)
  <2>1. /\ UserText(p) \in Text /\ l \in Text
        /\ UriText(p) \in Text /\ Without(Front(p), {"@"}) /\ Front(p) \in Text
        /\ l = Front(p) \o UriText(p)
    BY PartsAreTexts, FrontFacts
  <2>2. /\ Len(l) = Len(Front(p)) + Len(UriText(p)) /\ Len(Front(p)) \in Nat
        /\ Len(Front(p)) = Len(p.host) + Len(PortText(p))
        /\ Len(p.host) \in Nat \ {0} /\ PortText(p) \in Text
    BY FrontFacts
  <2>3. Len(UriText(p)) \in Nat /\ Len(PortText(p)) \in Nat
    BY <2>1, <2>2 DEF Text
  <2> QED
    BY <2>1, <2>2, <2>3
<1>2. Without(l, {"@"})
  <2>1. Without(UriText(p), {"@"})
    <3>1. CASE p.uri = Null
      <4>1. UriText(p) = <<>> /\ 1..Len(<<>>) = {}
        BY <3>1 DEF UriText
      <4> QED
        BY <1>1, <4>1 DEF Without
    <3>2. CASE p.uri # Null
      BY <3>2 DEF UriText, Plain
    <3> QED
      BY <3>1, <3>2
  <2> QED
    BY <1>1, <2>1, WithoutConcat
<1> HIDE DEF l
<1>3. CASE p.username = Null
  <2>1. p.password = Null /\ UserText(p) = <<>>
    BY <1>0, <1>3 DEF WellFormed, UserText
  <2>2. Rest(p) = l
    BY <1>1, <2>1 DEF Rest, l, Text
  <2>3. Find1(l, "@") = 0
    BY <1>1, <1>2, FindFacts
  <2>4. SubSeq(l, 1, Len(l)) = l
    BY <1>1, SubSeqFull DEF Text
  <2>5. l # <<>>
    BY <1>1
  <2>6. SubSeq(l, 0 + 1, Len(l)) = l
    BY <2>4
  <2> QED
    BY <1>1, <1>3, <2>1, <2>2, <2>3, <2>5, <2>6 DEF l
<1>4. CASE p.username # Null
  <2>1. /\ p.username \in Text /\ Without(p.username, {":"})
        /\ Without(p.username, {"@"})
    BY <1>0, <1>4 DEF WellFormed, Without
  <2>2. PICK c, a : c = <<":">> /\ a = <<"@">>
    OBVIOUS
  <2>3. c \in Text /\ IsMark(c, ":") /\ a \in Text /\ IsMark(a, "@")
    BY <2>2, MarksAreMarks DEF IsMark
  <2>4. PICK u : u = p.username
    OBVIOUS
  <2>5. u \in Text /\ Len(u) \in Nat
    BY <2>1, <2>4 DEF Text
  <2>6. CASE p.password = Null
    <3>1. Rest(p) = (u \o a) \o l
      <4>1. u \o <<>> = u
        BY <2>5, ConcatEmptySeq DEF Text
      <4> QED
        BY <1>4, <2>2, <2>4, <2>6, <4>1 DEF UserText, Rest, l
    <3>2. Without(l, {":"})
      <4>1. p.port = Null /\ (p.uri # Null => Without(p.uri, {":"}))
        BY <1>4, <2>6 DEF Plain
      <4>2. Front(p) = p.host
        BY <4>1, FrontFacts, ConcatEmptySeq DEF Front, PortText, Text
      <4>3. Without(UriText(p), {":"})
        <5>1. CASE p.uri = Null
          <6>1. UriText(p) = <<>> /\ 1..Len(<<>>) = {}
            BY <5>1 DEF UriText
          <6> QED
            BY <1>1, <6>1 DEF Without
        <5>2. CASE p.uri # Null
          BY <4>1, <5>2 DEF UriText
        <5> QED
          BY <5>1, <5>2
      <4>4. Without(p.host, {":"})
        BY FrontFacts
      <4> QED
        BY <1>1, <4>2, <4>3, <4>4, WithoutConcat
    <3> DEFINE rest == (u \o a) \o l
    <3>3. /\ rest \in Text /\ Len(rest) # 0
          /\ Find1(rest, "@") = Len(u) + 1 /\ Find1(rest, ":") = 0
          /\ SubSeq(rest, 1, Len(u)) = u
          /\ SubSeq(rest, Len(u) + 2, Len(rest)) = l
      <4>1. Alone(u, a, l)
        BY <1>1, <2>1, <2>3, <2>4, <2>5, <3>2 DEF Alone
      <4> QED
        BY <4>1, UserAlone
    <3> HIDE DEF rest
    <3>4. Rest(p) = rest
      BY <3>1 DEF rest
    <3>5. Len(u) + 1 + 1 = Len(u) + 2 /\ Len(u) + 1 - 1 = Len(u) /\ Len(u) + 1 # 0
      BY <2>5
    <3>6. rest # <<>>
      BY <3>3
    <3>7. PICK at : at = Find1(rest, "@")
      OBVIOUS
    <3>8. at + 1 = Len(u) + 2 /\ at - 1 = Len(u) /\ at # 0
      BY <3>3, <3>5, <3>7
    <3>9. SubSeq(rest, at + 1, Len(rest)) = l /\ SubSeq(rest, 1, at - 1) = u
      BY <3>3, <3>8
    <3> QED
      BY <1>4, <2>4, <2>6, <3>3, <3>4, <3>6, <3>7, <3>8, <3>9 DEF l
  <2>7. CASE p.password # Null
    <3>1. p.password \in Text /\ Without(p.password, {"@"})
      BY <1>0, <2>7 DEF WellFormed, Without
    <3>2. PICK w : w = p.password
      OBVIOUS
    <3>3. w \in Text /\ Len(w) \in Nat /\ Without(w, {"@"})
      BY <3>1, <3>2 DEF Text
    <3>4. PICK rest : rest = ((u \o (c \o w)) \o a) \o l
      OBVIOUS
    <3>5. Rest(p) = ((u \o (c \o w)) \o a) \o l
      BY <1>4, <2>2, <2>4, <2>7, <3>2 DEF UserText, Rest, l
    <3>6. /\ rest \in Text /\ Len(rest) # 0
          /\ Find1(rest, ":") = Len(u) + 1
          /\ Find1(rest, "@") = Len(u) + Len(w) + 2
          /\ SubSeq(rest, 1, Len(u)) = u
          /\ SubSeq(rest, Len(u) + 2, Len(u) + Len(w) + 1) = w
          /\ SubSeq(rest, Len(u) + Len(w) + 3, Len(rest)) = l
      <4>1. Both(u, c, w, a, l, rest)
        BY <1>1, <2>1, <2>3, <2>4, <2>5, <3>3, <3>4 DEF Both
      <4> QED
        BY <4>1, UserAndPassword
    <3>7. /\ Len(u) + 1 + 1 = Len(u) + 2 /\ Len(u) + 1 - 1 = Len(u) /\ Len(u) + 1 # 0
          /\ Len(u) + Len(w) + 2 - 1 = Len(u) + Len(w) + 1
          /\ Len(u) + Len(w) + 2 + 1 = Len(u) + Len(w) + 3
          /\ Len(u) + Len(w) + 2 # 0 /\ Len(u) + 1 < Len(u) + Len(w) + 2
      BY <2>5, <3>3
    <3>8. rest # <<>>
      BY <3>6
    <3>9. Rest(p) = rest
      BY <3>4, <3>5
    <3>10. PICK at, colon : at = Find1(rest, "@") /\ colon = Find1(rest, ":")
      OBVIOUS
    <3>11. /\ at + 1 = Len(u) + Len(w) + 3 /\ at - 1 = Len(u) + Len(w) + 1
          /\ colon - 1 = Len(u) /\ colon + 1 = Len(u) + 2
          /\ at # 0 /\ colon # 0 /\ colon < at
      BY <3>6, <3>7, <3>10
    <3>12. /\ SubSeq(rest, at + 1, Len(rest)) = l /\ SubSeq(rest, 1, colon - 1) = u
           /\ SubSeq(rest, colon + 1, at - 1) = w
      BY <3>6, <3>11
    <3> QED
      BY <1>4, <2>4, <2>7, <3>2, <3>6, <3>8, <3>9, <3>10, <3>11, <3>12
         DEF l
  <2> QED
    BY <2>6, <2>7
<1> QED
  BY <1>3, <1>4

\* The user and the password are the ones that stand before the @.
LEMMA UserTaken ==
  ASSUME NEW p \in Parts, Plain(p)
  PROVE  WithUser(Fields(p.protocol, Null, Null, Null, 0, Null), Rest(p),
                  Find1(Rest(p), "@")) =
           Fields(p.protocol, p.username, p.password, Null, 0, Null)
<1> DEFINE url == Fields(p.protocol, Null, Null, Null, 0, Null)
           text == Rest(p)
           at == Find1(text, "@")
           colon == Find1(text, ":")
<1>1. WithUser(url, text, at) =
        IF at = 0 THEN url
        ELSE IF colon = 0 THEN [url EXCEPT !.username = SubSeq(text, 1, at - 1)]
        ELSE IF colon > at THEN Underflow
        ELSE [url EXCEPT !.username = SubSeq(text, 1, colon - 1),
                         !.password = SubSeq(text, colon + 1, at - 1)]
  BY DEF WithUser
<1>2. /\ p.username = Null => at = 0
      /\ p.username # Null => at # 0
      /\ p.username # Null /\ p.password = Null =>
           colon = 0 /\ SubSeq(text, 1, at - 1) = p.username
      /\ p.password # Null =>
           /\ colon # 0 /\ colon < at
           /\ SubSeq(text, 1, colon - 1) = p.username
           /\ SubSeq(text, colon + 1, at - 1) = p.password
  BY UserFound
<1>3. at \in Nat /\ colon \in Nat
  BY UserFound, FindFacts
<1>4. p.password # Null => p.username # Null
  BY PartsAssumption DEF WellFormed
<1>5. [url EXCEPT !.username = p.username] =
        Fields(p.protocol, p.username, Null, Null, 0, Null)
  BY DEF Fields
<1>6. [url EXCEPT !.username = p.username, !.password = p.password] =
        Fields(p.protocol, p.username, p.password, Null, 0, Null)
  <2>1. [url EXCEPT !.username = p.username, !.password = p.password] =
          [[url EXCEPT !.username = p.username] EXCEPT !.password = p.password]
    OBVIOUS
  <2>2. [Fields(p.protocol, p.username, Null, Null, 0, Null)
           EXCEPT !.password = p.password] =
          Fields(p.protocol, p.username, p.password, Null, 0, Null)
    BY DEF Fields
  <2> QED
    BY <1>5, <2>1, <2>2
<1>7. CASE p.username = Null
  BY <1>1, <1>2, <1>4, <1>7
<1> HIDE DEF url, text, at, colon
<1>8. CASE p.username # Null /\ p.password = Null
  <2>1. WithUser(url, text, at) = [url EXCEPT !.username = p.username]
    BY <1>1, <1>2, <1>8
  <2> QED
    BY <1>5, <1>8, <2>1 DEF url, text, at
<1>9. CASE p.password # Null
  <2>1. at # 0 /\ colon # 0 /\ ~(colon > at)
    BY <1>2, <1>3, <1>4, <1>9
  <2>2. WithUser(url, text, at) =
          [url EXCEPT !.username = p.username, !.password = p.password]
    BY <1>1, <1>2, <1>9, <2>1
  <2> QED
    BY <1>6, <2>2 DEF url, text, at
<1> QED
  BY <1>7, <1>8, <1>9

\* A URL that is written is its protocol, a colon, two slashes and the rest.
LEMMA WrittenInParts ==
  ASSUME NEW p \in Parts
  PROVE  Written(p) = p.protocol \o (<<":">> \o (<<"/", "/">> \o Rest(p)))
<1>1. /\ p.protocol \in Text /\ p.host \in Text
      /\ UserText(p) \in Text /\ PortText(p) \in Text /\ UriText(p) \in Text
  BY PartsAreTexts
<1>2. PICK a, u, h, n, i : /\ a = p.protocol /\ u = UserText(p) /\ h = p.host
                           /\ n = PortText(p) /\ i = UriText(p)
  OBVIOUS
<1>3. a \in Text /\ u \in Text /\ h \in Text /\ n \in Text /\ i \in Text
  BY <1>1, <1>2
<1>4. PICK c, s, b : c = <<":">> /\ s = <<"/", "/">> /\ b = <<":", "/", "/">>
  OBVIOUS
<1>5. c \in Text /\ s \in Text /\ b \in Text /\ b = c \o s
  BY <1>4, MarksAreWords DEF Text
<1>6. Written(p) = ((((a \o b) \o u) \o h) \o n) \o i
  BY <1>2, <1>4 DEF Written, UserText, PortText, UriText
<1>7. PICK r : r = u \o ((h \o n) \o i)
  OBVIOUS
<1>8. Rest(p) = r
  BY <1>2, <1>7 DEF Rest, Location
<1>9. /\ a \o b \in Text /\ (a \o b) \o u \in Text /\ h \o n \in Text
      /\ (h \o n) \o i \in Text /\ r \in Text /\ s \o r \in Text
  <2>1. a \o b \in Text /\ h \o n \in Text
    BY <1>3, <1>5, TakenApart
  <2>2. (a \o b) \o u \in Text /\ (h \o n) \o i \in Text
    BY <1>3, <2>1, TakenApart
  <2>3. r \in Text
    BY <1>3, <1>7, <2>2, TakenApart
  <2> QED
    BY <1>5, <2>1, <2>2, <2>3, TakenApart
<1>10. ((((a \o b) \o u) \o h) \o n) \o i = (a \o b) \o r
  <2>1. PICK f, g, k, l : /\ f = a \o b /\ g = f \o u
                          /\ k = h \o n /\ l = k \o i
    OBVIOUS
  <2>2. /\ f \in Text /\ g \in Text /\ k \in Text /\ l \in Text
        /\ h \in Text /\ n \in Text /\ i \in Text /\ u \in Text
    BY <1>3, <1>9, <2>1
  <2>3. (g \o h) \o n = g \o (h \o n)
    <3>1. g \in Text /\ h \in Text /\ n \in Text
      BY <2>2
    <3> QED
      BY <3>1, TextsAssociate
  <2>4. (g \o k) \o i = g \o (k \o i)
    <3>1. g \in Text /\ k \in Text /\ i \in Text
      BY <2>2
    <3> QED
      BY <3>1, TextsAssociate
  <2>5. (f \o u) \o l = f \o (u \o l)
    <3>1. f \in Text /\ u \in Text /\ l \in Text
      BY <2>2
    <3> QED
      BY <3>1, TextsAssociate
  <2> QED
    BY <1>7, <2>1, <2>3, <2>4, <2>5
<1>11. (a \o b) \o r = a \o (c \o (s \o r))
  <2>0. a \in Text /\ b \in Text /\ c \in Text /\ s \in Text /\ r \in Text
    BY <1>3, <1>5, <1>9
  <2>1. (a \o b) \o r = a \o (b \o r)
    BY <2>0, TextsAssociate
  <2>2. (c \o s) \o r = c \o (s \o r)
    BY <2>0, TextsAssociate
  <2> QED
    BY <1>5, <2>1, <2>2
<1> QED
  BY <1>2, <1>4, <1>6, <1>8, <1>10, <1>11

\* A URL that can be relied on is taken apart into the parts it was made of.
THEOREM UrlTaken ==
  ASSUME NEW p \in Parts, Plain(p)
  PROVE  FromStr(Written(p)) = Meant(p)
<1>1. PICK a, c, s, r, x : /\ a = p.protocol /\ c = <<":">> /\ s = <<"/", "/">>
                           /\ r = Rest(p) /\ x = Written(p)
  OBVIOUS
<1>2. /\ a \in Text /\ s \in Text /\ r \in Text /\ Len(s) = 2 /\ IsMark(c, ":")
      /\ c \in Text /\ Without(a, {":"})
  <2>1. a \in Text
    BY <1>1, PartsAreTexts
  <2>2. s \in Text /\ Len(s) = 2
    BY <1>1, MarksAreWords DEF Text
  <2>3. IsMark(c, ":")
    BY <1>1, MarksAreMarks
  <2>4. r \in Text
    BY <1>1, UserFound
  <2>5. Without(a, {":"})
    <3>1. a \in {<<"http">>, <<"https">>}
      BY <1>1, PartsAssumption DEF WellFormed
    <3> QED
      BY <2>1, <3>1 DEF Without
  <2> QED
    BY <2>1, <2>2, <2>3, <2>4, <2>5 DEF IsMark
<1>3. x = a \o (c \o (s \o r))
  BY <1>1, WrittenInParts
<1>4. /\ x \in Text /\ Len(x) = Len(a) + 1 + Len(s) + Len(r)
      /\ Find1(x, ":") = Len(a) + 1
      /\ SubSeq(x, Len(a) + 2, Len(a) + 1 + Len(s)) = s
      /\ SubSeq(x, 1, Len(a)) = a
  <2>1. Parted(a, c, s, r, ":")
    BY <1>2 DEF Parted
  <2>2. /\ a \o (c \o (s \o r)) \in Text
        /\ Len(a \o (c \o (s \o r))) = Len(a) + 1 + Len(s) + Len(r)
        /\ Find1(a \o (c \o (s \o r)), ":") = Len(a) + 1
        /\ SubSeq(a \o (c \o (s \o r)), Len(a) + 2, Len(a) + 1 + Len(s)) = s
        /\ SubSeq(a \o (c \o (s \o r)), 1, Len(a)) = a
    BY <2>1, Between
  <2> QED
    BY <1>3, <2>2
<1>5. Len(a) \in Nat /\ Len(r) \in Nat
  BY <1>2 DEF Text
<1>6. SubSeq(x, Len(a) + 4, Len(x)) = r
  <2>1. PICK h : h = a \o (c \o s)
    OBVIOUS
  <2>2. c \o s \in Text /\ Len(c \o s) = 3
    <3>1. c \in Text /\ s \in Text /\ Len(c) = 1 /\ Len(s) = 2
      BY <1>2 DEF IsMark
    <3>2. c \o s \in Text /\ Len(c \o s) = Len(c) + Len(s)
      BY <3>1, TakenApart
    <3> QED
      BY <3>1, <3>2
  <2>3. h \in Text /\ Len(h) = Len(a) + 3
    <3>1. PICK b : b = c \o s
      OBVIOUS
    <3>2. a \in Text /\ b \in Text /\ Len(b) = 3 /\ h = a \o b
      BY <1>2, <2>1, <2>2, <3>1
    <3>3. a \o b \in Text /\ Len(a \o b) = Len(a) + Len(b)
      BY <3>2, TakenApart
    <3> QED
      BY <3>2, <3>3
  <2>4. x = h \o r
    <3>1. (a \o (c \o s)) \o r = a \o ((c \o s) \o r)
      BY <1>2, <2>2, TextsAssociate
    <3>2. (c \o s) \o r = c \o (s \o r)
      BY <1>2, TextsAssociate
    <3> QED
      BY <1>3, <2>1, <3>1, <3>2
  <2>5. SubSeq(h \o r, Len(h) + 1, Len(h \o r)) = r
    BY <1>2, <2>3, TakenApart
  <2>6. Len(h) + 1 = Len(a) + 4
    BY <1>5, <2>3
  <2> QED
    BY <2>4, <2>5, <2>6
<1>7. PICK colon : colon = Find1(x, ":")
  OBVIOUS
<1>8. /\ colon # 0 /\ colon - 1 = Len(a) /\ colon + 3 = Len(a) + 4
      /\ colon + 1 = Len(a) + 2 /\ colon + 2 = Len(a) + 1 + Len(s)
  BY <1>2, <1>4, <1>5, <1>7
<1>9. /\ SubSeq(x, colon + 3, Len(x)) = r /\ SubSeq(x, colon + 1, colon + 2) = s
      /\ SubSeq(x, 1, colon - 1) = a
  BY <1>4, <1>6, <1>8
<1>10. PICK url, at, place : /\ url = Fields(a, p.username, p.password, Null, 0, Null)
                             /\ at = Find1(r, "@")
                             /\ place = SubSeq(r, at + 1, Len(r))
  OBVIOUS
<1>11. r # <<>> /\ place = Location(p)
  BY <1>1, <1>10, UserFound
<1>12. WithUser([NoUrl EXCEPT !.protocol = a], r, at) = url
  <2>1. [NoUrl EXCEPT !.protocol = a] = Fields(a, Null, Null, Null, 0, Null)
    BY DEF NoUrl, Fields
  <2> QED
    BY <1>1, <1>10, <2>1, UserTaken
<1>13. url.rc = "ok"
  BY <1>10 DEF Fields
<1>14. WithHost(url, place) =
         Fields(a, p.username, p.password, p.host, Meant(p).port, p.uri)
  BY <1>1, <1>10, <1>11, HostTaken
<1>15. FromStr(x) = WithHost(url, place)
  <2>1. FromStr(x) =
          LET rest == SubSeq(x, colon + 3, Len(x))
              v == WithUser([NoUrl EXCEPT !.protocol = SubSeq(x, 1, colon - 1)], rest,
                            Find1(rest, "@"))
          IN  IF colon = 0 \/ rest = <<>> \/ SubSeq(x, colon + 1, colon + 2) # <<"/", "/">>
                THEN Invalid
                ELSE IF v.rc # "ok" THEN v
                ELSE WithHost(v, SubSeq(rest, Find1(rest, "@") + 1, Len(rest)))
    BY <1>7 DEF FromStr
  <2>2. FromStr(x) =
          LET v == WithUser([NoUrl EXCEPT !.protocol = a], r, at)
          IN  IF v.rc # "ok" THEN v ELSE WithHost(v, place)
    BY <1>1, <1>8, <1>9, <1>10, <1>11, <2>1
  <2> QED
    BY <1>12, <1>13, <2>2
<1>16. Fields(a, p.username, p.password, p.host, Meant(p).port, p.uri) = Meant(p)
  BY <1>1 DEF Fields, Meant
<1> QED
  BY <1>1, <1>14, <1>15, <1>16

-----------------------------------------------------------------------------

\* A URL that is set is not NULL.
LEMMA WrittenIsSet ==
  ASSUME NEW p \in Parts
  PROVE  Written(p) # Null /\ p.host # Null
<1>1. PICK a, c, s, r : /\ a = p.protocol /\ c = <<":">> /\ s = <<"/", "/">>
                        /\ r = Rest(p)
  OBVIOUS
<1>2. a \in Text /\ c \in Text /\ s \in Text /\ r \in Text /\ p.host \in Text
  <2>1. s \in Text
    BY <1>1, MarksAreWords DEF Text
  <2>2. c \in Text
    BY <1>1, ShortTexts
  <2>3. /\ p.protocol \in Text /\ p.host \in Text
        /\ UserText(p) \in Text /\ Location(p) \in Text
    BY PartsAreTexts
  <2>4. UserText(p) \o Location(p) \in Text
    BY <2>3, TakenApart
  <2> QED
    BY <1>1, <2>1, <2>2, <2>3, <2>4 DEF Rest
<1>3. a \o (c \o (s \o r)) \in Text
  <2>1. s \o r \in Text
    BY <1>2, TakenApart
  <2>2. c \o (s \o r) \in Text
    BY <1>2, <2>1, TakenApart
  <2> QED
    BY <1>2, <2>2, TakenApart
<1>4. Written(p) = a \o (c \o (s \o r))
  BY <1>1, WrittenInParts
<1> QED
  BY <1>2, <1>3, <1>4, PartsAssumption DEF ToldApart

\* What is configured is what was meant.
LEMMA AsBootedTakenAsMeant == AsBooted => TakenAsMeant
<1> SUFFICES ASSUME AsBooted, phase = "running",
                    NEW u \in Urls, NEW p \in Parts, Plain(p), boot[u] = Written(p)
             PROVE  cpe.url[u] = Meant(p)
  BY DEF TakenAsMeant
<1>1. cpe = Configured(boot)
  BY DEF AsBooted
<1>2. cpe.url[u] = UrlOf(boot[u])
  BY <1>1 DEF Configured
<1>3. UrlOf(boot[u]) = FromStr(Written(p))
  BY WrittenIsSet DEF UrlOf
<1> QED
  BY <1>2, <1>3, UrlTaken

\* Each URL of a running agent is the one that was written, whatever the ACS
\* sets while it runs.
THEOREM AlwaysTakenAsMeant == SettingsSpec => []TakenAsMeant
BY AlwaysAsBooted, AsBootedTakenAsMeant, PTL

-----------------------------------------------------------------------------

\* A URL that can be relied on has a host, and passes where one is needed.
LEMMA PlainPasses ==
  ASSUME NEW text, NEW p \in Parts, Plain(p), text = Written(p), NEW resolved \in BOOLEAN
  PROVE  UrlOutcome(text, resolved) = "ok"
<1>1. FromStr(text) = Meant(p)
  BY UrlTaken
<1>2. Meant(p).rc = "ok" /\ Meant(p).host = p.host
  BY DEF Meant
<1> QED
  BY <1>1, <1>2, WrittenIsSet DEF UrlOutcome

\* evcpe_set accepts settings that can be relied on, and the URL of the ACS has
\* a path.
LEMMA UsableIsAccepted ==
  ASSUME NEW s, Usable(s)
  PROVE  Outcome(s) = "ok" /\ UrlOf(s["URL"]).uri # Null
<1>1. PICK p \in Parts : Plain(p) /\ s["URL"] = Written(p) /\ p.uri # Null
  BY DEF Usable
<1>2. s["URL"] # Null
  BY <1>1, WrittenIsSet
<1>3. UrlOutcome(s["URL"], TRUE) = "ok"
  BY <1>1, PlainPasses
<1>4. UrlOf(s["URL"]).uri # Null
  <2>1. UrlOf(s["URL"]) = Meant(p)
    BY <1>1, <1>2, UrlTaken DEF UrlOf
  <2>2. Meant(p).uri = p.uri
    BY DEF Meant
  <2> QED
    BY <1>1, <2>1, <2>2
<1>5. \A u \in Urls, b \in BOOLEAN : OptionalUrlOutcome(s[u], b) = "ok"
  <2> TAKE u \in Urls, b \in BOOLEAN
  <2>1. CASE s[u] = Null
    BY <2>1 DEF OptionalUrlOutcome
  <2>2. CASE s[u] # Null
    <3>1. PICK q \in Parts : Plain(q) /\ s[u] = Written(q)
      BY <2>2 DEF Usable
    <3>2. UrlOutcome(s[u], b) = "ok"
      BY <3>1, PlainPasses
    <3> QED
      BY <2>2, <3>2 DEF OptionalUrlOutcome
  <2> QED
    BY <2>1, <2>2
<1>6. \A n \in Numbers : NumberOutcome(s[n]) = "ok"
  BY DEF Usable, NumberOutcome
<1>7. AuthOutcome(s["Authentication"]) = "ok"
  BY DEF Usable, AuthOutcome
<1>8. s["PeriodicInformEnable"] = 1 => s["PeriodicInformInterval"] # Null
  BY DEF Usable
<1>9. Outcomes(s) = <<"ok", "ok", "ok", "ok", "ok", "ok", "ok">>
  <2>1. /\ OptionalUrlOutcome(s["ProxyURL"], TRUE) = "ok"
        /\ OptionalUrlOutcome(s["ConnectionRequestURL"], FALSE) = "ok"
    BY <1>5 DEF Urls
  <2>2. /\ NumberOutcome(s["Timeout"]) = "ok"
        /\ NumberOutcome(s["ConnectionRequestInterval"]) = "ok"
        /\ NumberOutcome(s["PeriodicInformInterval"]) = "ok"
    BY <1>6 DEF Numbers
  <2> QED
    BY <1>2, <1>3, <1>7, <1>8, <2>1, <2>2 DEF Outcomes
<1>10. \A i \in 1..7 : Outcomes(s)[i] = "ok"
  <2> TAKE i \in 1..7
  <2>1. i = 1 \/ i = 2 \/ i = 3 \/ i = 4 \/ i = 5 \/ i = 6 \/ i = 7
    OBVIOUS
  <2> QED
    BY <1>9, <2>1
<1>11. {i \in 1..7 : Outcomes(s)[i] # "ok"} = {}
  BY <1>10
<1>12. Outcome(s) = "ok"
  BY <1>11 DEF Outcome
<1> QED
  BY <1>4, <1>12

\* How the last start ended, or how the agent ended after it: a session that
\* has no path to ask for only happens with a URL that has none.
Ended ==
  \/ outcome \in {"none", "ok", "refused", Outcome(boot)}
  \/ outcome = "undefined" /\ UrlOf(boot["URL"]).uri = Null

\* Each step keeps how the start ended, or is the session that had no path.
LEMMA StepEnded ==
  AsBooted /\ Ended /\ [SettingsNext]_settingsVars => Ended'
<1> SUFFICES ASSUME AsBooted, Ended, [SettingsNext]_settingsVars PROVE Ended'
  OBVIOUS
<1>1. CASE Started
  BY <1>1 DEF Started, Ended
<1>2. CASE NotStarted
  BY <1>2 DEF NotStarted, Ended
<1>3. CASE SetSetting \/ Resolve \/ Stop \/ UNCHANGED settingsVars
  <2>1. outcome' = outcome /\ boot' = boot
    BY <1>3 DEF SetSetting, Resolve, Stop, settingsVars
  <2> QED
    BY <2>1 DEF Ended
<1>4. CASE ConnectNowhere
  <2>1. phase = "running"
    BY <1>4 DEF ConnectNowhere, Die
  <2>2. cpe.url["URL"] = UrlOf(boot["URL"])
    BY <2>1 DEF AsBooted, Configured, Urls
  <2>3. boot' = boot /\ outcome' = "undefined" /\ cpe.url["URL"].uri = Null
    BY <1>4 DEF ConnectNowhere
  <2> QED
    BY <2>2, <2>3 DEF Ended
<1> QED
  BY <1>1, <1>2, <1>3, <1>4 DEF SettingsNext

\* With usable settings neither evcpe_set nor the first session fails.
LEMMA EndedUsableRuns == Ended => UsableRuns
<1> SUFFICES ASSUME Ended, Usable(boot) PROVE outcome \in {"none", "ok", "refused"}
  BY DEF UsableRuns
<1>1. Outcome(boot) = "ok" /\ UrlOf(boot["URL"]).uri # Null
  BY UsableIsAccepted
<1> QED
  BY <1>1 DEF Ended

\* With usable settings the agent runs: whatever the texts in its URLs and
\* whatever the ACS sets while it runs.
THEOREM AlwaysUsableRuns == SettingsSpec => []UsableRuns
<1>1. SettingsInit => Ended
  BY DEF SettingsInit, Ended
<1> QED
  BY <1>1, AlwaysAsBooted, StepEnded, EndedUsableRuns, PTL DEF SettingsSpec

=============================================================================
