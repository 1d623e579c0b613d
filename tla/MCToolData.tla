----------------------------- MODULE MCToolData -----------------------------
(***************************************************************************)
(* Constants for model-checking ToolData: the characters, settings files   *)
(* of other origin, and what the operator changes in the dialog.           *)
(***************************************************************************)
EXTENDS ToolData

Letters == <<"A", "B", "C", "D", "E", "F", "G", "H", "I", "J", "K", "L", "M",
             "N", "O", "P", "Q", "R", "S", "T", "U", "V", "W", "X", "Y", "Z">>
Ascii(c) ==
  CASE c = " " -> 32 [] c = "," -> 44 [] c = "_" -> 95
    [] c \in Range(Letters) -> 64 + (CHOOSE i \in 1 .. 26 : Letters[i] = c)
    [] OTHER -> 47 + (CHOOSE i \in 1 .. 10 : HexDigits[i] = c)
MCCode == [c \in Range(Letters) \cup Range(SubSeq(HexDigits, 1, 10)) \cup {" ", ",", "_"} |->
             Ascii(c)]

CONSTANTS m1, m2
MCMacs == {<<m1>>, <<m2>>}
Symmetry == Permutations({m1, m2})

\* Eight digits and nothing else; a file without some fields, a counter about to
\* outgrow its width, and a month that no combo box has; a file in which the
\* width is not a string.
OnlyDigits == [Defaults EXCEPT !.snPrefix = <<>>, !.use = [p \in Parts |-> FALSE]]
OtherPlant == [Defaults EXCEPT !.snStart = 9, !.snWidth = 1,
                               !.code["Plant"] = <<"D", "G">>, !.code["Month"] = <<"L">>]
OlderFile == JsonFile(OtherPlant, {<<"key", "snStart">>, <<"key", "snWidth">>,
                                   <<"code", "Plant">>, <<"code", "Month">>})
OtherTypes == JsonFile([Defaults EXCEPT !.snWidth = 0], {<<"key", "snPrefix">>})
MCInitialFiles ==
  <<[exe |-> NoFile, local |-> OtherTypes], [exe |-> OlderFile, local |-> Saved(OnlyDigits)]>>

MCEdits ==
  <<[field |-> "snPrefix", value |-> <<" ", "S", ",">>],
    [field |-> "snStart", value |-> 9],
    [field |-> "snTemplate", value |-> <<"0", "5", ",", "{SERIAL_HEX}">>],
    [field |-> "preventDuplicate", value |-> FALSE],
    [field |-> "use", part |-> "Year", value |-> FALSE],
    [field |-> "code", part |-> "Product", value |-> <<"0", "0", "5", "2">>]>>
=============================================================================
