---------------------------- MODULE MCRepository -----------------------------
(***************************************************************************)
(* Repository for TLC: a device with one object of information, in it a    *)
(* label, a parameter of an extension, and files with a name and a hidden  *)
(* parameter.                                                              *)
(***************************************************************************)
EXTENDS Repository

Device == <<"Device">>
Info == <<"Device", "Info">>
Label == Append(Info, "Label")
Count == Append(Info, "Count")
File == Append(Info, "File")

Schemas ==
  Device :> "object" @@ Info :> "object" @@ Label :> "simple" @@
  Append(Info, "Secret") :> "simple" @@ Count :> "simple" @@
  File :> "multiple" @@ Append(File, "Name") :> "simple" @@
  Append(File, "Hidden") :> "simple"

Numerals == <<"1", "2", "3">>

Extensions == {Append(Info, "Secret"), Append(File, "Hidden")}

\* Each attribute and what does not exist, by its full name and by the one
\* that leaves out the root, with and without a dot at the end.
AllPaths ==
  LET heads == {Info, <<"", "Info">>}
      tails == {<<>>, <<"Label">>, <<"Secret">>, <<"Count">>, <<"Nothing">>,
                <<"File">>, <<"File", "1">>, <<"File", "2">>,
                <<"File", "1", "Name">>, <<"File", "2", "Name">>,
                <<"File", "2", "Hidden">>, <<"File", "1", "2">>, <<"1", "Label">>}
  IN  {<<"">>, <<"", "">>, <<"Device">>, <<"Device", "">>}
        \cup {h \o t \o e : h \in heads, t \in tails, e \in {<<>>, <<"">>}}

\* Lists of one and two parameters; two names of one parameter among them.
SomeSetLists ==
  LET items == [path : {Label, <<"", "Info", "Label">>, Count,
                        <<"", "Info", "File", "2", "Name">>},
                value : {1, 3}]
  IN  {<<r>> : r \in items} \cup {<<r, s>> : r, s \in items}

\* The data model is one of those that ListedLocates is proved for.
ASSUME FilesAreFlat == FlatList

=============================================================================
