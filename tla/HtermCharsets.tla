---------------------------- MODULE HtermCharsets ----------------------------
(***************************************************************************)
(* The character sets of the terminal (hterm.VT.CharacterMap). They have   *)
(* an effect in the encoding ISO 2022 only, which a log may choose and     *)
(* which no reset takes back. A character of a text that is printed is     *)
(* then replaced by what the map invoked as GL has for it. Characters      *)
(* outside ASCII have the names of glyphs.                                 *)
(***************************************************************************)
EXTENDS Integers, Sequences, SequencesExt

\* A map from its keys, and the glyphs for them in the same order.
Glyphs(keys, glyphs) == [ch \in ToSet(keys) |-> glyphs[CHOOSE i \in DOMAIN keys : keys[i] = ch]]

Letters == <<"[", "\\", "]", "{", "|", "}", "~">>

Finnish ==
  Glyphs(<<"[", "\\", "]", "^", "GRAVE", "{", "|", "}", "~">>,
         <<"A umlaut", "O umlaut", "A ring", "U umlaut", "e acute",
           "a umlaut", "o umlaut", "a ring", "u umlaut">>)

Norwegian ==
  Glyphs(<<"@", "[", "\\", "]", "^", "GRAVE", "{", "|", "}", "~">>,
         <<"A umlaut", "AE", "O stroke", "A ring", "U umlaut", "a umlaut",
           "ae", "o stroke", "a ring", "u umlaut">>)

Swedish == ("@" :> "E acute") @@ Finnish

Graphic ==
  Glyphs(<<"GRAVE", "a", "b", "c", "d", "e", "f", "g", "h", "i", "j", "k", "l", "m", "n", "o",
           "p", "q", "r", "s", "t", "u", "v", "w", "x", "y", "z", "{", "|", "}", "~">>,
         <<"diamond", "grey box", "HT", "FF sign", "CR sign", "LF sign", "degree", "plus/minus",
           "NL", "VT sign", "bottom right", "top right", "top left", "bottom left", "cross",
           "scan 1", "scan 3", "scan 5", "scan 7", "scan 9", "left tee", "right tee",
           "bottom tee", "top tee", "vertical line", "less equal", "greater equal", "pi",
           "not equal", "pound", "dot">>)

British == "#" :> "pound"

Dutch ==
  Glyphs(<<"#", "@">> \o Letters,
         <<"pound", "3/4", "IJ", "1/2", "|", "two dots", "f", "1/4", "acute">>)

French ==
  Glyphs(<<"#", "@">> \o Letters,
         <<"pound", "a grave", "ring", "c cedilla", "section",
           "e acute", "u grave", "e grave", "umlaut">>)

FrenchCanadian ==
  Glyphs(<<"@", "^", "GRAVE">> \o Letters,
         <<"a grave", "i circumflex", "o circumflex", "a circumflex", "c cedilla",
           "e circumflex", "e acute", "u grave", "e grave", "u circumflex">>)

German ==
  Glyphs(<<"@">> \o Letters,
         <<"section", "A umlaut", "O umlaut", "U umlaut",
           "a umlaut", "o umlaut", "u umlaut", "eszett">>)

Italian ==
  Glyphs(<<"#", "@", "GRAVE">> \o Letters,
         <<"pound", "section", "u grave", "ring", "c cedilla", "e acute",
           "a grave", "o grave", "e grave", "i grave">>)

Spanish ==
  Glyphs(<<"#", "@", "[", "\\", "]", "{", "|", "}">>,
         <<"pound", "section", "! inverted", "N tilde", "? inverted",
           "ring", "n tilde", "c cedilla">>)

Swiss ==
  Glyphs(<<"#", "@", "[", "\\", "]", "^", "_", "GRAVE", "{", "|", "}", "~">>,
         <<"u grave", "a grave", "e acute", "c cedilla", "e circumflex",
           "i circumflex", "e grave", "o circumflex", "a umlaut", "o umlaut",
           "u umlaut", "u circumflex">>)

UsAscii == [ch \in {} |-> ch]

DefaultMaps ==
  ("0" :> Graphic) @@ ("A" :> British) @@ ("B" :> UsAscii) @@ ("4" :> Dutch)
    @@ ("C" :> Finnish) @@ ("5" :> Finnish) @@ ("R" :> French) @@ ("Q" :> FrenchCanadian)
    @@ ("K" :> German) @@ ("Y" :> Italian) @@ ("E" :> Norwegian) @@ ("6" :> Norwegian)
    @@ ("Z" :> Spanish) @@ ("7" :> Swedish) @@ ("H" :> Swedish) @@ ("=" :> Swiss)

\* GL and GR name one of the four sets, each of which is a map.
NewCharsets == [GL |-> "G0", GR |-> "G0", G0 |-> "B", G1 |-> "B", G2 |-> "B", G3 |-> "B"]

\* The set that ESC and one of these characters designates.
Designated ==
  ("(" :> "G0") @@ (")" :> "G1") @@ ("-" :> "G1") @@ ("*" :> "G2") @@ ("." :> "G2")
    @@ ("+" :> "G3") @@ ("/" :> "G3")

\* A name no map has changes nothing.
Designate(charsets, code, name) ==
  IF name \in DOMAIN DefaultMaps THEN [charsets EXCEPT ![Designated[code]] = name]
                                 ELSE charsets

\* The locking shifts: which set is GL, or GR, from now on.
ShiftGL == ("SO" :> "G1") @@ ("SI" :> "G0") @@ ("n" :> "G2") @@ ("o" :> "G3")
ShiftGR == ("|" :> "G3") @@ ("}" :> "G2") @@ ("~" :> "G1")

LockingShift(charsets, code) ==
  CASE code \in DOMAIN ShiftGL -> [charsets EXCEPT !.GL = ShiftGL[code]]
    [] code \in DOMAIN ShiftGR -> [charsets EXCEPT !.GR = ShiftGR[code]]

\* A function that is cancelled shifts G1 out, and no other set.
ShiftOut(charsets) ==
  IF charsets.GL = "G1" THEN [charsets EXCEPT !.GL = "G0"] ELSE charsets

\* What is printed for a text.
Translated(charsets, encoding, text) ==
  LET map == DefaultMaps[charsets[charsets.GL]]
  IN  IF encoding # "iso-2022" THEN text
      ELSE [i \in DOMAIN text |-> IF text[i] \in DOMAIN map THEN map[text[i]] ELSE text[i]]

\* ESC % and a character, or ESC % / and a character.
setEncoding(encoding, ch) ==
  CASE encoding # "utf-8-locked" /\ ch = "@" -> "iso-2022"
    [] encoding # "utf-8-locked" /\ ch = "G" -> "utf-8"
    [] OTHER -> encoding

LockEncoding(encoding, ch) == IF ch \in {"G", "H", "I"} THEN "utf-8-locked" ELSE encoding

=============================================================================
