----------------------------- MODULE HtermColors -----------------------------
(***************************************************************************)
(* The colours of the terminal. A cell only names a place in the palette,  *)
(* the foreground or the background; which colour that is stands in CSS    *)
(* variables of the page, which all rows share. Logs can change them.      *)
(*                                                                         *)
(* A colour is its red, green and blue part, 0 to 255; transparency,       *)
(* upper case digits and the names X11 has for colours are left out.       *)
(* t.colors is a record:                                                   *)
(*   css       - the CSS variables: foreground, background, cursor, and    *)
(*               palette, where it is not that of the style sheet          *)
(*   foregroundColor_, backgroundColor_                                    *)
(*   overrides - colorPaletteOverrides of the text attributes of each      *)
(*               screen: the places of the palette that were changed       *)
(***************************************************************************)
EXTENDS Integers, Sequences, SequencesExt

NoRgb == <<>>

----------------------------------------------------------------------------
\* The texts of colours.

HexDigits ==
  <<"0", "1", "2", "3", "4", "5", "6", "7", "8", "9", "a", "b", "c", "d", "e", "f">>

HexValue(ch) == (CHOOSE i \in 1 .. 16 : HexDigits[i] = ch) - 1

IsHex(text) == ToSet(text) \subseteq ToSet(HexDigits)

\* The number of some digits, in decimal or hexadecimal.
ParseDigits(digits, radix) ==
  LET number[n \in 0 .. Len(digits)] ==
        IF n = 0 THEN 0 ELSE radix * number[n - 1] + HexValue(digits[n])
  IN  number[Len(digits)]

ParseHex(digits) == ParseDigits(digits, 16)

\* The parts of a text between separators.
SplitNext(parts, ch, separator) ==
  IF ch = separator THEN Append(parts, <<>>)
                    ELSE Append(Front(parts), Append(Last(parts), ch))

Split(text, separator) ==
  LET parts[n \in 0 .. Len(text)] ==
        IF n = 0 THEN <<<<>>>> ELSE SplitNext(parts[n - 1], text[n], separator)
  IN  parts[Len(text)]

\* One part of "rgb:r/g/b", of one to four digits, as a number up to 255.
Scale(digits) ==
  CASE Len(digits) = 1 -> 17 * ParseHex(digits)
    [] Len(digits) = 2 -> ParseHex(digits)
    [] Len(digits) = 3 -> (2 * ParseHex(Append(digits, digits[3])) + 257) \div 514
    [] Len(digits) = 4 -> (2 * ParseHex(digits) + 257) \div 514

\* "#rgb" and longer ones. A single digit is the upper half of its byte.
x11HexToCSS(digits) ==
  LET size == Len(digits) \div 3
      Part(i) == ParseHex(SubSeq(digits, (i - 1) * size + 1, i * size))
  IN  IF Len(digits) \notin {3, 6, 9, 12} \/ ~IsHex(digits) THEN NoRgb
      ELSE [i \in 1 .. 3 |-> CASE size = 1 -> 16 * Part(i)
                               [] size = 2 -> Part(i)
                               [] size = 3 -> Part(i) \div 16
                               [] size = 4 -> Part(i) \div 256]

x11ToCSS(text) ==
  LET parts == Split(SubSeq(text, 5, Len(text)), "/")
      rgb   == /\ Len(text) > 4 /\ SubSeq(text, 1, 4) = <<"r", "g", "b", ":">>
               /\ Len(parts) = 3
               /\ \A i \in 1 .. 3 : Len(parts[i]) \in 1 .. 4 /\ IsHex(parts[i])
  IN  CASE rgb -> [i \in 1 .. 3 |-> Scale(parts[i])]
        [] ~rgb /\ text # <<>> /\ Head(text) = "#" -> x11HexToCSS(Tail(text))
        [] OTHER -> NoRgb

\* Each part twice, that is, in 16 bits.
rgbToX11(rgb) ==
  LET Byte(n) == <<HexDigits[(n \div 16) + 1], HexDigits[(n % 16) + 1]>>
      Word(n) == Byte(n) \o Byte(n)
  IN  <<"r", "g", "b", ":">> \o Word(rgb[1]) \o <<"/">> \o Word(rgb[2]) \o <<"/">> \o Word(rgb[3])

\* 16 chosen colours, a cube of 216, and 24 grays.
stockPalette ==
  LET system == <<<<0, 0, 0>>, <<204, 0, 0>>, <<78, 154, 6>>, <<196, 160, 0>>,
                  <<52, 101, 164>>, <<117, 80, 123>>, <<6, 152, 154>>, <<211, 215, 207>>,
                  <<85, 87, 83>>, <<239, 41, 41>>, <<0, 186, 19>>, <<252, 233, 79>>,
                  <<114, 159, 207>>, <<242, 0, 203>>, <<0, 181, 189>>, <<238, 238, 236>>>>
      step   == <<0, 95, 135, 175, 215, 255>>
      Cube(n) == <<step[(n \div 36) + 1], step[((n \div 6) % 6) + 1], step[(n % 6) + 1]>>
      Gray(n) == [part \in 1 .. 3 |-> 8 + 10 * n]
  IN  [i \in 0 .. 255 |-> CASE i < 16 -> system[i + 1]
                            [] i \in 16 .. 231 -> Cube(i - 16)
                            [] i > 231 -> Gray(i - 232)]

----------------------------------------------------------------------------
\* The palette, with the changes made on the screen that is shown.

NoColors == [i \in {} |-> NoRgb]

DefaultForeground == <<240, 240, 240>>
DefaultBackground == <<16, 16, 16>>
DefaultCursor == <<255, 0, 0>>

NewColors ==
  [css |-> [palette |-> NoColors, foreground |-> DefaultForeground,
            background |-> DefaultBackground, cursor |-> DefaultCursor],
   foregroundColor_ |-> DefaultForeground, backgroundColor_ |-> DefaultBackground,
   overrides |-> [primary |-> NoColors, alternate |-> NoColors]]

Overrides(t) == t.colors.overrides[t.current]

getColorPalette(t, i) == IF i \in DOMAIN Overrides(t) THEN Overrides(t)[i] ELSE stockPalette[i]

\* What the rows of the page have for a place.
ShownColor(t, i) ==
  IF i \in DOMAIN t.colors.css.palette THEN t.colors.css.palette[i] ELSE stockPalette[i]

\* Some places of a palette get other colours.
Recolored(palette, new) ==
  [i \in DOMAIN palette \cup DOMAIN new |-> IF i \in DOMAIN new THEN new[i] ELSE palette[i]]

setColorPalette(t, i, rgb) ==
  LET new == [place \in {i} |-> rgb]
  IN  IF i \in 0 .. 255
      THEN [t EXCEPT !.colors.css.palette = Recolored(@, new),
                     !.colors.overrides[t.current] = Recolored(@, new)]
      ELSE t

WithoutOverrides(t, places) ==
  [t EXCEPT !.colors.overrides[t.current] =
     [i \in DOMAIN @ \ places |-> @[i]]]

\* Places of the palette get back their colours.
resetColors(t, places) ==
  [WithoutOverrides(t, places) EXCEPT
     !.colors.css.palette = Recolored(@, [i \in places |-> stockPalette[i]])]

\* All that were changed on the screen that is shown.
resetColorPalette(t) == resetColors(t, DOMAIN Overrides(t))

\* Mutant: only the colours of the new screen are set, those of the old stay.
ShowPalette_KeepsOld(t, old) ==
  [t EXCEPT !.colors.css.palette = Recolored(@, Overrides(t))]

\* The colours of a screen that is shown now, after the other one.
ShowPalette(t, old) ==
  [t EXCEPT !.colors.css.palette =
     Recolored(@, [i \in DOMAIN old \cup DOMAIN Overrides(t) |-> getColorPalette(t, i)])]

----------------------------------------------------------------------------
\* The other colours.

setForegroundColor(t, rgb) ==
  [t EXCEPT !.colors.foregroundColor_ = rgb, !.colors.css.foreground = rgb]

setBackgroundColor(t, rgb) ==
  [t EXCEPT !.colors.backgroundColor_ = rgb, !.colors.css.background = rgb]

setCursorColor(t, rgb) == [t EXCEPT !.colors.css.cursor = rgb]

SwapColors(t, reverse) ==
  LET back == t.colors.backgroundColor_
      fore == t.colors.foregroundColor_
  IN  [t EXCEPT !.colors.css.foreground = IF reverse THEN back ELSE fore,
                !.colors.css.background = IF reverse THEN fore ELSE back]

=============================================================================
