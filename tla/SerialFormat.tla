---------------------------- MODULE SerialFormat ----------------------------
(***************************************************************************)
(* From the settings to the bytes that are sent: buildSerialString         *)
(* (src/src/ui/main_window.cpp), buildCmdFromTemplate                      *)
(* (src/src/service/serial_number_service.cpp) and parseHexString          *)
(* (src/src/core/race_command.cpp).  A text is a sequence of characters;   *)
(* a placeholder of a template and a word that no property takes apart     *)
(* count as one character.                                                 *)
(***************************************************************************)
EXTENDS Naturals, Sequences, SequencesExt

CONSTANT Code  \* the UTF-8 byte of each character that can be in a serial

HexDigits == <<"0", "1", "2", "3", "4", "5", "6", "7",
               "8", "9", "A", "B", "C", "D", "E", "F">>

\* The characters of the codes a combo box offers, and of the default prefix.
ASSUME CodeAssumption ==
  /\ Range(HexDigits) \cup {"G", "H", "I", "J", "K", "P", "S", "Z"} \subseteq DOMAIN Code
  /\ \A c \in DOMAIN Code : Code[c] \in 0 .. 255

NoText == <<>>

\* v without its last n decimal digits, for each n up to w.
Leading(v, w) ==
  LET leading[n \in 0 .. w] == IF n = 0 THEN v ELSE leading[n - 1] \div 10
  IN  leading

\* arg(v, w, 10, '0') is longer than w when v has more digits.
Fits(v, w) == Leading(v, w)[w] = 0
Digits(v, w) == [i \in 1 .. w |-> HexDigits[(Leading(v, w)[w - i] % 10) + 1]]

\* A text from the first of these places to the last.
Between(text, places) ==
  IF places = {} THEN NoText ELSE SubSeq(text, Min(places), Max(places))

\* QString::trimmed
Trimmed(text) == Between(text, {i \in DOMAIN text : text[i] # " "})

Part(s, p) == IF s.use[p] THEN s.code[p] ELSE NoText

\* buildSerialString: empty if the number has outgrown its width.
BuildSerialString(s, v) ==
  IF ~Fits(v, s.snWidth) THEN NoText
  ELSE Trimmed(s.snPrefix) \o Part(s, "Plant") \o Part(s, "Manufacturer") \o Part(s, "Product")
       \o Digits(v, s.snWidth) \o Part(s, "Month") \o Part(s, "Year")

-----------------------------------------------------------------------------
\* QString::replace of a placeholder.
Replace(text, placeholder, by) ==
  FlattenSeq([i \in DOMAIN text |-> IF text[i] = placeholder THEN by ELSE <<text[i]>>])

HexOf(byte) == <<HexDigits[(byte \div 16) + 1], HexDigits[(byte % 16) + 1]>>

\* A mutant: no space between the bytes.
HexTextJoined(serial) == FlattenSeq([i \in DOMAIN serial |-> HexOf(Code[serial[i]])])

\* toUtf8().toHex(' '), in capitals.
HexText(serial) ==
  [i \in 1 .. 3 * Len(serial) - 1 |->
     IF i % 3 = 0 THEN " " ELSE HexOf(Code[serial[(i \div 3) + 1]])[i % 3]]

Separators == {" ", ",", ";"}

\* The last of some texts with c at its end.
Extended(texts, c) == Append(Front(texts), Append(Last(texts), c))

\* QString::split at separators, which gives no empty parts: from the beginning on.
Tokens(text) ==
  LET tokens[i \in 0 .. Len(text)] ==
        IF i = 0 THEN <<>>
        ELSE LET before == tokens[i - 1]
             IN  IF text[i] \in Separators THEN before
                 ELSE IF i = 1 \/ text[i - 1] \in Separators THEN Append(before, <<text[i]>>)
                 ELSE Extended(before, text[i])
  IN  tokens[Len(text)]

ValueOf == [c \in Range(HexDigits) |-> (CHOOSE d \in DOMAIN HexDigits : HexDigits[d] = c) - 1]

\* toInt in base 16 of a token, with 256 for everything that is no byte.  The
\* forms with a sign or with 0x, which toInt takes too, are left out.
ByteOf(token) ==
  LET n == Len(token)
  IN  IF \E i \in 1 .. n : token[i] \notin DOMAIN ValueOf \/ (i < n - 1 /\ token[i] # "0")
      THEN 256
      ELSE ValueOf[token[n]] + (IF n = 1 THEN 0 ELSE 16 * ValueOf[token[n - 1]])

\* parseHexString: refused if the text is empty or a token is no byte.
ParseHexString(text) ==
  LET tokens == Tokens(text)
      bytes == [k \in DOMAIN tokens |-> ByteOf(tokens[k])]
      ok == Trimmed(text) # NoText /\ \A k \in DOMAIN bytes : bytes[k] <= 255
  IN  [ok |-> ok, bytes |-> IF ok THEN bytes ELSE <<>>]

BuildCmdFromTemplate(template, serial) ==
  ParseHexString(Replace(Replace(template, "{SERIAL_ASCII}", HexText(serial)),
                         "{SERIAL_HEX}", serial))
=============================================================================
