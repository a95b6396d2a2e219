------------------------------ MODULE HtermVT ------------------------------
(***************************************************************************)
(* The parser between the logs the online page prints and the terminal     *)
(* (hterm.VT). A text goes in character by character; what is not part of  *)
(* a control function is printed. The parser keeps its state from one text *)
(* to the next, so that a function begun in one log may end in another.    *)
(*                                                                         *)
(* Control characters are named ("ESC", "CR"), all others stand for        *)
(* themselves. An argument "38:5:1" is the sequence <<38, 5, 1>> of its    *)
(* numbers, with Empty for one that is missing.                            *)
(*                                                                         *)
(* The parser record t.vt:                                                 *)
(*   func, buf          - the parse function and what is left of the text  *)
(*   args               - the arguments of a CSI or DCS function so far    *)
(*   leading, trailing  - leadingModifier_ and trailingModifier_           *)
(*   code               - the ESC code whose next character is awaited     *)
(*   started, string    - a string function and its text so far (args[0])  *)
(*   late               - more than oscTimeLimit_ since it started         *)
(*   mouseReport, mouseCoordinates - which mouse events are reported, how  *)
(*   dragged            - lastMouseDragResponse_                           *)
(*   modes              - which are on of applicationCursor, reportFocus,  *)
(*                        scrollWheelArrowKeys and defeatMouseReports      *)
(* 8-bit control characters, which are ignored, notifications (OSC 9 and    *)
(* 777), the clipboard (OSC 52), images (OSC 1337), the width of 132       *)
(* columns and the keyboard, which the page never installs, are left out.  *)
(***************************************************************************)
EXTENDS HtermTerminal

CONSTANT AnswerRounds   \* bound on parsing an answer, in rounds of four steps

ASSUME AnswerAssumption == AnswerRounds \in Nat

Empty == -1

NewParser ==
  [func |-> "unknown", buf |-> <<>>, args |-> <<>>, leading |-> <<>>, trailing |-> <<>>,
   code |-> "", started |-> FALSE, string |-> <<>>, late |-> FALSE,
   mouseReport |-> "disabled", mouseCoordinates |-> "X10",
   dragged |-> <<>>, modes |-> {}]

CC1Codes == {"NUL", "ENQ", "BEL", "BS", "TAB", "LF", "VT", "FF", "CR", "SO", "SI",
             "XON", "XOFF", "CAN", "SUB", "ESC", "DEL"}

\* From '@' to '~'.
FinalBytes ==
  {"@", "A", "B", "C", "D", "E", "F", "G", "H", "I", "J", "K", "L", "M", "N", "O", "P",
   "Q", "R", "S", "T", "U", "V", "W", "X", "Y", "Z", "[", "\\", "]", "^", "_", "GRAVE",
   "a", "b", "c", "d", "e", "f", "g", "h", "i", "j", "k", "l", "m", "n", "o", "p", "q",
   "r", "s", "t", "u", "v", "w", "x", "y", "z", "{", "|", "}", "~"}

Digits == <<"0", "1", "2", "3", "4", "5", "6", "7", "8", "9">>

\* From ' ' to '?', without digits, ':' and ';'.
Intermediates ==
  {" ", "!", "\"", "#", "$", "%", "&", "'", "(", ")", "*", "+", ",", "-", ".", "/",
   "<", "=", ">", "?"}

Decimal(n) ==
  LET decimal[m \in 0 .. n] ==
        IF m < 10 THEN <<Digits[m + 1]>> ELSE Append(decimal[m \div 10], Digits[(m % 10) + 1])
  IN  decimal[n]

----------------------------------------------------------------------------
\* The state of the parser (hterm.VT.ParseState).

resetParseFunction(t) == [t EXCEPT !.vt.func = "unknown", !.vt.code = ""]

resetBuf(t, buf) == [t EXCEPT !.vt.buf = buf]

resetArguments(t) ==
  [t EXCEPT !.vt.args = <<>>, !.vt.started = FALSE, !.vt.string = <<>>, !.vt.late = FALSE]

resetParseState(t, buf) == resetArguments(resetBuf(resetParseFunction(t), buf))

advance(t) == [t EXCEPT !.vt.buf = Tail(@)]

\* The number of an argument, from 0, or the default when it is missing,
\* empty or zero.
iarg(t, argnum, defaultValue) ==
  LET args == t.vt.args
  IN  IF argnum < Len(args) /\ args[argnum + 1][1] \notin {Empty, 0}
      THEN args[argnum + 1][1]
      ELSE defaultValue

\* args[0] compared with a number: an argument that is not there is none.
ArgIs(t, n) == t.vt.args # <<>> /\ t.vt.args[1][1] = n

\* The tests "!args[0] || args[0] == 0".
NoArg(t) == t.vt.args = <<>> \/ t.vt.args[1][1] \in {Empty, 0}

argHasSubargs(arg) == Len(arg) > 1

HasSubargs(t) == \E i \in DOMAIN t.vt.args : argHasSubargs(t.vt.args[i])

\* A digit goes to the last number of the last argument.
AddDigit(args, digit) ==
  LET first == IF args = <<>> THEN <<<<Empty>>>> ELSE args
      arg   == Last(first)
      old   == Last(arg)
  IN  Append(Front(first),
             Append(Front(arg), IF old = Empty THEN digit ELSE 10 * old + digit))

AddSubarg(args) ==
  IF args = <<>> THEN <<<<Empty, Empty>>>>
                 ELSE Append(Front(args), Append(Last(args), Empty))

AddArg(args) == Append(IF args = <<>> THEN <<<<Empty>>>> ELSE args, <<Empty>>)

----------------------------------------------------------------------------
\* Attributes (SGR).

NoColor == -2
Transparent == 256
PaletteSize == 256

Number(n) == IF n = Empty THEN 0 ELSE n

Rgb(r, g, b) == 1000 + 65536 * Number(r) + 256 * Number(g) + Number(b)

\* The colour after 38, 48 or 58, given in the same argument or in the ones
\* after it, and how many of those it took.
parseSgrExtendedColors(args, i) ==
  LET inside == argHasSubargs(args[i])
      ary    == IF inside THEN Tail(args[i])
                ELSE [j \in 1 .. Len(args) - i |-> args[i + j][1]]
      start  == IF inside /\ Len(ary) # 4 THEN 2 ELSE 1
      none   == [color |-> NoColor, skipCount |-> 0]
  IN  CASE \/ ary = <<>>
           \/ ~inside /\ i < Len(args) /\ argHasSubargs(args[i + 1]) -> none
        [] ary # <<>> /\ ary[1] = 1 /\ inside -> [color |-> Transparent, skipCount |-> 0]
        [] ary # <<>> /\ ary[1] = 2 /\ Len(ary) >= start + 3 ->
             [color |-> Rgb(ary[start + 1], ary[start + 2], ary[start + 3]),
              skipCount |-> IF inside THEN 0 ELSE 4]
        [] ary # <<>> /\ ary[1] = 5 /\ Len(ary) >= 2 ->
             [color |-> IF Number(ary[2]) < PaletteSize THEN Number(ary[2]) ELSE NoColor,
              skipCount |-> IF inside THEN 0 ELSE 2]
        [] OTHER -> none

FlagOn == (1 :> {"bold"}) @@ (2 :> {"faint"}) @@ (3 :> {"italic"}) @@ (5 :> {"blink"})
            @@ (7 :> {"inverse"}) @@ (8 :> {"invisible"}) @@ (9 :> {"strikethrough"})

FlagOff == (22 :> {"bold", "faint"}) @@ (23 :> {"italic"}) @@ (25 :> {"blink"})
            @@ (27 :> {"inverse"}) @@ (28 :> {"invisible"}) @@ (29 :> {"strikethrough"})

Underlines == <<"", "solid", "double", "wavy", "dotted", "dashed">>

\* 4:n chooses the kind of underlining, a kind unknown changes nothing.
UnderlineOf(arg, old) ==
  IF ~argHasSubargs(arg) THEN "solid"
  ELSE IF Number(arg[2]) \in 0 .. 5 THEN Underlines[Number(arg[2]) + 1] ELSE old

\* One argument below 30, but for 4.
SetFlags(attrs, n) ==
  CASE n \in DOMAIN FlagOn  -> [attrs EXCEPT !.flags = @ \cup FlagOn[n]]
    [] n \in DOMAIN FlagOff -> [attrs EXCEPT !.flags = @ \ FlagOff[n]]
    [] n = 21 -> [attrs EXCEPT !.underline = "double"]
    [] n = 24 -> [attrs EXCEPT !.underline = ""]
    [] n = 0  -> ResetAttributes(attrs)
    [] OTHER  -> attrs

\* One argument from 30 on.
SetColor(attrs, n, extended) ==
  LET Chosen(old) == IF extended.color = NoColor THEN old ELSE extended.color
  IN  CASE n \in 30 .. 37   -> [attrs EXCEPT !.foregroundSource = n - 30]
        [] n = 38           -> [attrs EXCEPT !.foregroundSource = Chosen(@)]
        [] n = 39           -> [attrs EXCEPT !.foregroundSource = SrcDefault]
        [] n \in 40 .. 47   -> [attrs EXCEPT !.backgroundSource = n - 40]
        [] n = 48           -> [attrs EXCEPT !.backgroundSource = Chosen(@)]
        [] n = 49           -> [attrs EXCEPT !.backgroundSource = SrcDefault]
        [] n = 58           -> [attrs EXCEPT !.underlineSource = Chosen(@)]
        [] n = 59           -> [attrs EXCEPT !.underlineSource = SrcDefault]
        [] n \in 90 .. 97   -> [attrs EXCEPT !.foregroundSource = n - 82]
        [] n \in 100 .. 107 -> [attrs EXCEPT !.backgroundSource = n - 92]
        [] OTHER            -> attrs

\* The argument at i, with those after it that belong to it.
SgrArgument(attrs, args, i) ==
  LET n        == Number(args[i][1])
      extended == IF n \in {38, 48, 58} THEN parseSgrExtendedColors(args, i)
                  ELSE [color |-> NoColor, skipCount |-> 0]
  IN  [attrs |-> CASE n = 4  -> [attrs EXCEPT !.underline = UnderlineOf(args[i], @)]
                   [] n < 30 /\ n # 4 -> SetFlags(attrs, n)
                   [] OTHER  -> SetColor(attrs, n, extended),
       i |-> i + 1 + extended.skipCount]

SgrNext(sgr, args) ==
  IF sgr.i > Len(args) THEN sgr ELSE SgrArgument(sgr.attrs, args, sgr.i)

Sgr(attrs, args) ==
  syncColors(Iterate(LAMBDA sgr, n : SgrNext(sgr, args), [attrs |-> attrs, i |-> 1],
                     Len(args)).attrs)

SetAttributes(t) ==
  [t EXCEPT !.screens[t.current].textAttributes =
     IF t.vt.args = <<>> THEN SetFlags(@, 0) ELSE Sgr(@, t.vt.args)]

----------------------------------------------------------------------------
\* CSI functions.

\* hterm.VT.prototype.reset, part of both resets of the terminal.
ResetParser(t) ==
  [t EXCEPT !.vt.mouseReport = "disabled", !.vt.mouseCoordinates = "X10",
            !.vt.dragged = <<>>, !.charsets = NewCharsets]

(***************************************************************************)
(* The page makes the terminal print what it would send to a host. The     *)
(* answer is interpreted in the middle of the text that asked for it, and  *)
(* what was left of that text is lost: the answer takes its place. That    *)
(* the function that asked ends after the answer has been interpreted, and *)
(* not before as here, makes no difference, because every answer begins    *)
(* with ESC, at which a function is given up, and is complete.             *)
(***************************************************************************)
sendString(t, answer) == resetBuf(t, answer)

CSI == <<"ESC", "[">>

DeviceAttributes == CSI \o <<"?", "1", ";", "2", "c">>

CursorReport(t) ==
  CSI \o Decimal(Row(t) + 1) \o <<";">> \o Decimal(Column(t) + 1) \o <<"R">>

\* Answers to CSI n and CSI ?n. The answer to CSI 5n lacks its '['.
StatusReport(t) ==
  CASE ArgIs(t, 5) -> sendString(t, <<"ESC", "0", "n">>)
    [] ArgIs(t, 6) -> sendString(t, CursorReport(t))
    [] OTHER -> t

PrivateStatus(n) ==
  CASE n = 15 -> <<"?", "1", "1", "n">>
    [] n = 25 -> <<"?", "2", "1", "n">>
    [] n = 26 -> <<"?", "1", "2", ";", "1", ";", "0", ";", "0", "n">>
    [] n = 53 -> <<"?", "5", "0", "n">>

PrivateStatusReport(t) ==
  CASE ArgIs(t, 6) -> sendString(t, CursorReport(t))
    [] \E n \in {15, 25, 26, 53} : ArgIs(t, n) ->
         sendString(t, CSI \o PrivateStatus(t.vt.args[1][1]))
    [] OTHER -> t

AttributesReport(t) == IF NoArg(t) THEN sendString(t, DeviceAttributes) ELSE t

SecondaryReport(t) ==
  sendString(t, CSI \o <<">", "0", ";", "2", "5", "6", ";", "0", "c">>)

EraseInDisplay(t) ==
  CASE NoArg(t)    -> eraseBelow(t)
    [] ArgIs(t, 1) -> eraseAbove(t)
    [] ArgIs(t, 2) -> clear(t)
    [] ArgIs(t, 3) -> clearScrollback(t)
    [] OTHER       -> t

EraseInLine(t) ==
  CASE NoArg(t)    -> eraseWholeRight(t)
    [] ArgIs(t, 1) -> eraseToLeft(t)
    [] ArgIs(t, 2) -> eraseLine(t)
    [] OTHER       -> t

\* At most as many tab stops as there are columns.
TabNext(t, forward) == IF forward THEN forwardTabStop(t) ELSE backwardTabStop(t)

Tabs(t, forward) ==
  Iterate(LAMBDA u, n : TabNext(u, forward), t, Clamp(1, iarg(t, 0, 1), t.width))

ClearTabStops(t) ==
  CASE NoArg(t)    -> clearTabStopAtCursor(t)
    [] ArgIs(t, 3) -> clearAllTabStops(t)
    [] OTHER       -> t

\* Rows top .. bottom, from 1; a region of a single row is refused, unless
\* it is the first one and the top is not given.
SetScrollRegion(t) ==
  LET args   == t.vt.args
      top    == IF args = <<>> THEN 0 ELSE Number(args[1][1])
      bottom == IF Len(args) < 2 \/ args[2][1] = Empty THEN t.height ELSE args[2][1]
  IN  IF bottom > t.height \/ bottom <= top THEN t
      ELSE setCursorPosition(
             setVTScrollRegion(t, IF top = 0 THEN Null ELSE top - 1, bottom - 1), 0, 0)

ANSIModes == (4 :> "insertMode") @@ (20 :> "autoCarriageReturn")

MouseModes == (9 :> "press") @@ (1000 :> "click") @@ (1002 :> "drag")
MouseCoordinates == (1005 :> "UTF8") @@ (1006 :> "SGR")
InputModes ==
  (1 :> "applicationCursor") @@ (1004 :> "reportFocus") @@ (1007 :> "scrollWheelArrowKeys")

setMode(t, mode, state) ==
  [t EXCEPT !.vt.modes = IF state THEN @ \cup {mode} ELSE @ \ {mode}]

\* Mode 1049 also clears the alternate screen, and keeps the primary's cursor.
AfterSwap(t, mode, state) ==
  CASE mode # 1049 -> t
    [] mode = 1049 /\ state -> clear(t)
    [] OTHER -> restoreCursorAndState(t)

AlternateScreen(t, mode, state) ==
  AfterSwap(
    setAlternateMode(IF mode = 1049 /\ state THEN saveCursorAndState(t) ELSE t, state),
    mode, state)

\* The DEC modes that bear on what is displayed or sent.
setDECMode(t, mode, state) ==
  CASE mode = 5  -> setReverseVideo(t, state)
    [] mode = 6  -> setOriginMode(t, state)
    [] mode = 7  -> setOption(t, "wraparound", state)
    [] mode = 25 -> setCursorVisible(t, state)
    [] mode = 45 -> setOption(t, "reverseWraparound", state)
    [] mode \in DOMAIN MouseModes ->
         [t EXCEPT !.vt.mouseReport = IF state THEN MouseModes[mode] ELSE "disabled"]
    [] mode \in DOMAIN MouseCoordinates ->
         [t EXCEPT !.vt.mouseCoordinates =
            IF state THEN MouseCoordinates[mode] ELSE "X10"]
    [] mode \in DOMAIN InputModes -> setMode(t, InputModes[mode], state)
    [] mode \in {47, 1047, 1049} -> AlternateScreen(t, mode, state)
    [] mode = 1048 -> IF state THEN saveCursorAndState(t) ELSE restoreCursorAndState(t)
    [] mode = 2004 -> setOption(t, "bracketedPaste", state)
    [] OTHER -> t

\* Every argument is a mode.
SetANSIModes(t, state) ==
  LET modes == {ANSIModes[Number(arg[1])] :
                  arg \in {a \in ToSet(t.vt.args) : Number(a[1]) \in DOMAIN ANSIModes}}
  IN  [t EXCEPT !.options = IF state THEN @ \cup modes ELSE @ \ modes]

SetDECModes(t, state) ==
  Iterate(LAMBDA u, n : setDECMode(u, Number(t.vt.args[n][1]), state), t, Len(t.vt.args))

\* A tile number makes the next characters pictures, until it is taken back.
SetTile(t) ==
  CASE ArgIs(t, 0) /\ Len(t.vt.args) > 1 ->
         [t EXCEPT !.screens[t.current].textAttributes.flags = @ \cup {"tile"}]
    [] ArgIs(t, 1) ->
         [t EXCEPT !.screens[t.current].textAttributes.flags = @ \ {"tile"}]
    [] OTHER -> t

\* CSI A to CSI H: the cursor moves. n is the first argument. ` is another name
\* of G, and f of H.
CursorCodes == {<<ch>> : ch \in {"A", "B", "C", "D", "E", "F", "G", "H", "GRAVE", "f"}}

MoveCursor(t, ch, n) ==
  CASE ch = "A" -> cursorUp(t, n)
    [] ch = "B" -> cursorDown(t, n)
    [] ch = "C" -> cursorRight(t, n)
    [] ch = "D" -> cursorLeft(t, n)
    [] ch = "E" -> setCursorColumn(cursorDown(t, n), 0)
    [] ch = "F" -> setCursorColumn(cursorUp(t, n), 0)
    [] ch \in {"G", "GRAVE"} -> setCursorColumn(t, n - 1)
    [] ch \in {"H", "f"} -> setCursorPosition(t, n - 1, iarg(t, 1, 1) - 1)

\* CSI a and d.
PlaceCodes == {<<"a">>, <<"d">>}

PlaceCursor(t, ch, n) ==
  IF ch = "a" THEN setCursorColumn(t, Column(t) + n) ELSE setAbsoluteCursorRow(t, n - 1)

\* CSI @, L, M, P, S, T, X: cells and lines are inserted, deleted, scrolled.
EditCodes == {<<ch>> : ch \in {"@", "L", "M", "P", "S", "T", "X"}}

Edit(t, ch, n) ==
  CASE ch = "@" -> insertSpace(t, n)
    [] ch = "L" -> insertLines(t, n)
    [] ch = "M" -> deleteLines(t, n)
    [] ch = "P" -> deleteChars(t, n)
    [] ch = "S" -> vtScrollUp(t, n)
    [] ch = "T" -> IF Len(t.vt.args) <= 1 THEN vtScrollDown(t, n) ELSE t
    [] ch = "X" -> eraseToRight(t, n)

\* CSI SP q: the shape of the cursor, which blinks for an odd number.
CursorShapes == <<"BLOCK", "BLOCK", "UNDERLINE", "UNDERLINE", "BEAM", "BEAM">>

SetCursorStyle(t) ==
  LET arg   == Number(t.vt.args[1][1])
      style == IF arg = 0 THEN 1 ELSE arg
  IN  IF t.vt.args = <<>> \/ style \notin DOMAIN CursorShapes THEN t
      ELSE setCursorBlink(setCursorShape(t, CursorShapes[style]), style % 2 = 1)

\* Codes the terminal knows but does not implement, from CSI '" q' on and in
\* between.
IgnoredCodes ==
  {<<">", "p">>, <<"$", "p">>, <<"?", "$", "p">>, <<"\"", "p">>, <<"q">>, <<"\"", "q">>,
   <<"?", "r">>, <<"$", "r">>, <<"?", "s">>, <<"t">>, <<"$", "t">>, <<">", "t">>, <<" ", "t">>,
   <<" ", "u">>, <<"$", "v">>, <<"'", "w">>, <<"x">>, <<"*", "x">>, <<"$", "x">>,
   <<"'", "z">>, <<"$", "z">>, <<"'", "{">>, <<"'", "|">>, <<"'", "}">>, <<"'", "~">>}

\* CSI with p and later letters.
HandleLaterCSI(t, code) ==
  CASE code = <<"!", "p">> -> softReset(ResetParser(t))
    [] code = <<" ", "q">> -> SetCursorStyle(t)
    [] code = <<"r">> -> SetScrollRegion(t)
    [] code = <<"s">> -> saveCursorAndState(t)
    [] code = <<"u">> -> restoreCursorAndState(t)
    [] code = <<"z">> -> SetTile(t)
    [] OTHER -> t

\* All handlers of CSI functions; a code that is not in the table is ignored.
HandleCSI(t, code) ==
  CASE code = <<"m">> -> SetAttributes(t)
    [] code \in CursorCodes -> MoveCursor(t, code[1], iarg(t, 0, 1))
    [] code \in PlaceCodes -> PlaceCursor(t, code[1], iarg(t, 0, 1))
    [] code \in EditCodes -> Edit(t, code[1], iarg(t, 0, 1))
    [] code \in {<<"J">>, <<"?", "J">>} -> EraseInDisplay(t)
    [] code \in {<<"K">>, <<"?", "K">>} -> EraseInLine(t)
    [] code \in {<<"I">>, <<"Z">>} -> Tabs(t, code[1] = "I")
    [] code = <<"g">> -> ClearTabStops(t)
    [] code \in {<<"h">>, <<"l">>} -> SetANSIModes(t, code[1] = "h")
    [] code \in {<<"?", "h">>, <<"?", "l">>} -> SetDECModes(t, code[2] = "h")
    [] code = <<"c">> -> AttributesReport(t)
    [] code = <<">", "c">> -> SecondaryReport(t)
    [] code = <<"n">> -> StatusReport(t)
    [] code = <<"?", "n">> -> PrivateStatusReport(t)
    [] code \in IgnoredCodes -> t
    [] OTHER -> HandleLaterCSI(t, code)

\* Only SGR takes arguments that have parts.
DispatchCSI(t, code) ==
  IF HasSubargs(t) /\ code # <<"m">> THEN t ELSE HandleCSI(t, code)

----------------------------------------------------------------------------
\* Single control characters (CC1) and ESC functions.

StartCSI(t) ==
  [resetArguments(t) EXCEPT !.vt.leading = <<>>, !.vt.trailing = <<>>, !.vt.func = "CSI"]

StartDCS(t) == [StartCSI(t) EXCEPT !.vt.func = "DCS"]

\* OSC, the title (ESC k), and the strings that are only skipped (ESC ^, _).
StartString(t, func) == [resetArguments(t) EXCEPT !.vt.func = func]

\* The next character is an argument of this one.
Await(t, ch) == [t EXCEPT !.vt.func = "next", !.vt.code = ch]

\* ESC and a digit, a sign or a lower case letter. The keypad, the lines and
\* columns of 6 and 9, F, l and m have no effect.
DispatchPrivateESC(t, ch) ==
  CASE ch = "7" -> saveCursorAndState(t)
    [] ch = "8" -> restoreCursorAndState(t)
    [] ch = "c" -> reset(ResetParser(t))
    [] ch \in {"n", "o", "|", "}", "~"} -> [t EXCEPT !.charsets = LockingShift(@, ch)]
    [] OTHER -> t

DispatchESC(t, ch) ==
  CASE ch = "D" -> lineFeed(t)
    [] ch = "E" -> cursorDown(setCursorColumn(t, 0), 1)
    [] ch = "H" -> setTabStop(t, Column(t))
    [] ch = "M" -> reverseLineFeed(t)
    [] ch = "P" -> StartDCS(t)
    [] ch = "Z" -> sendString(t, DeviceAttributes)
    [] ch = "[" -> StartCSI(t)
    [] ch = "]" -> StartString(t, "OSC")
    [] ch = "k" -> StartString(t, "title")
    [] ch \in {"^", "_"} -> StartString(t, "skip")
    [] ch \in {" ", "#", "%"} \cup DOMAIN Designated -> Await(t, ch)
    [] OTHER -> DispatchPrivateESC(t, ch)

\* CAN and SUB end the function being parsed. A shift to G1 ends with it.
Cancel(t) ==
  LET shifted == [t EXCEPT !.charsets = ShiftOut(@)]
  IN  print(resetParseFunction(shifted), <<"?">>)

\* In the middle of a function whose arguments have parts every control
\* character is ignored.
DispatchCC1(t, ch) ==
  CASE HasSubargs(t) -> t
    [] ~HasSubargs(t) /\ ch = "BS"  -> cursorLeft(t, 1)
    [] ~HasSubargs(t) /\ ch = "TAB" -> forwardTabStop(t)
    [] ~HasSubargs(t) /\ ch \in {"LF", "VT", "FF"} -> formFeed(t)
    [] ~HasSubargs(t) /\ ch = "CR"  -> setCursorColumn(t, 0)
    [] ~HasSubargs(t) /\ ch \in {"CAN", "SUB"} -> Cancel(t)
    [] ~HasSubargs(t) /\ ch \in {"SO", "SI"} -> [t EXCEPT !.charsets = LockingShift(@, ch)]
    [] ~HasSubargs(t) /\ ch = "ESC" -> [t EXCEPT !.vt.func = "ESC"]
    [] OTHER -> t

----------------------------------------------------------------------------
\* The parse functions. Each takes at least one character of the text.

\* Outside of any function: the text up to the next control character is
\* printed, in the character set that is invoked.
Printed(t, text) == print(t, Translated(t.charsets, t.encoding, text))

AfterText(t, rest) == IF rest = <<>> THEN resetParseState(t, <<>>) ELSE resetBuf(t, rest)

parseUnknown_(t) ==
  LET buf      == t.vt.buf
      controls == {i \in DOMAIN buf : buf[i] \in CC1Codes}
      length   == IF controls = {} THEN Len(buf) ELSE Min(controls) - 1
  IN  AfterText(Printed(t, SubSeq(buf, 1, length)), SubSeq(buf, length + 1, Len(buf)))

FinishCSI(t) == resetParseFunction(resetArguments(t))

\* A digit, ';' or ':' after a trailing modifier ends the function.
AddArgument(t, args) ==
  IF t.vt.trailing # <<>> THEN FinishCSI(t) ELSE [t EXCEPT !.vt.args = args]

AddModifier(t, ch) ==
  IF t.vt.args = <<>> THEN [t EXCEPT !.vt.leading = Append(@, ch)]
                      ELSE [t EXCEPT !.vt.trailing = Append(@, ch)]

\* The arguments and modifiers of a CSI or DCS function up to its final byte;
\* only those of CSI have parts.
ParseArgument(t, ch) ==
  CASE ch = ";" -> AddArgument(t, AddArg(t.vt.args))
    [] ch = ":" /\ t.vt.func = "CSI" -> AddArgument(t, AddSubarg(t.vt.args))
    [] ch \in ToSet(Digits) ->
         AddArgument(t, AddDigit(t.vt.args, (CHOOSE d \in 1 .. 10 : ch = Digits[d]) - 1))
    [] ch \in Intermediates \/ (ch = ":" /\ t.vt.func = "DCS") -> AddModifier(t, ch)
    [] OTHER -> FinishCSI(t)

parseCSI_(t, ch) == FinishCSI(DispatchCSI(t, t.vt.leading \o t.vt.trailing \o <<ch>>))

\* No DCS function is known: after the final byte a string follows, which is
\* skipped. It starts with the first argument, and a second argument is taken
\* for the time it started, long ago.
parseDCS_(t) ==
  LET args == t.vt.args
  IN  [t EXCEPT !.vt.func = "skip", !.vt.args = <<>>,
                !.vt.started = args # <<>>,
                !.vt.string = IF args = <<>> \/ args[1][1] = Empty THEN <<>>
                              ELSE Decimal(args[1][1]),
                !.vt.late = Len(args) > 1]

ParseFunction(t, ch) ==
  CASE ch \notin FinalBytes -> ParseArgument(t, ch)
    [] ch \in FinalBytes /\ t.vt.func = "CSI" -> parseCSI_(t, ch)
    [] OTHER -> parseDCS_(t)

(***************************************************************************)
(* A string ends at BEL or ESC \. Any other ESC in it, or the end of a text *)
(* more than 20 seconds after the string began, means that it was none:    *)
(* all of it is parsed again as ordinary text. An ESC at the end of a text *)
(* waits for the next one.                                                 *)
(***************************************************************************)
parseUntilStringTerminator_(t) ==
  LET string   == t.vt.string
      pending  == string # <<>> /\ Last(string) = "ESC"
      before   == IF pending THEN Front(string) ELSE string
      buf      == IF pending THEN <<"ESC">> \o t.vt.buf ELSE t.vt.buf
      ends     == {i \in DOMAIN buf : buf[i] \in {"ESC", "BEL"}}
      first    == Min(ends)
      escape   == ends # {} /\ buf[first] = "ESC"
      closed   == escape /\ first < Len(buf) /\ buf[first + 1] = "\\"
      found    == ends # {} /\ (escape => closed)
      embedded == escape /\ first < Len(buf)
      next     == IF escape THEN first + 2 ELSE first + 1
  IN  CASE found ->
             [resetParseFunction(t) EXCEPT
                !.vt.string = before \o SubSeq(buf, 1, first - 1),
                !.vt.buf = SubSeq(buf, next, Len(buf))]
        [] ~found /\ (embedded \/ t.vt.late) -> resetParseState(t, before \o buf)
        [] OTHER -> [t EXCEPT !.vt.string = before \o buf, !.vt.started = TRUE,
                              !.vt.buf = <<>>]

\* The digits in front of a text, and their number: -1 when there are none.
DigitsOf(text) ==
  LET others == {i \in DOMAIN text : text[i] \notin ToSet(Digits)}
  IN  IF others = {} THEN text ELSE SubSeq(text, 1, Min(others) - 1)

ParseInt(text) == IF DigitsOf(text) = <<>> THEN -1 ELSE ParseDigits(DigitsOf(text), 10)

(***************************************************************************)
(* OSC 4: places of the palette with the colours to give them. A '?'       *)
(* instead of a colour asks for it; the answer, printed like all others,   *)
(* sets the place to the colour it has. A question about something that is *)
(* no number is an exception, which drops the rest of the text.            *)
(***************************************************************************)
PalettePairs(text) ==
  LET args == Split(text, ";")
  IN  [i \in 1 .. Len(args) \div 2 |-> <<ParseInt(args[2 * i - 1]), args[2 * i]>>]

SetPair(acc, n, rgb) ==
  IF rgb = NoRgb THEN acc ELSE [acc EXCEPT !.t = setColorPalette(@, n, rgb)]

ColorAnswer(t, n) == <<";">> \o Decimal(n) \o <<";">> \o rgbToX11(getColorPalette(t, n))

NextPair(acc, pair) ==
  CASE acc.failed \/ pair[1] >= PaletteSize -> acc
    [] ~acc.failed /\ pair[1] < PaletteSize /\ pair[2] # <<"?">> ->
         SetPair(acc, pair[1], x11ToCSS(pair[2]))
    [] OTHER ->
         IF pair[1] \notin DOMAIN stockPalette THEN [acc EXCEPT !.failed = TRUE]
         ELSE [acc EXCEPT !.answers = @ \o ColorAnswer(acc.t, pair[1])]

AnswerPairs(acc) ==
  CASE acc.failed -> resetBuf(acc.t, <<>>)
    [] ~acc.failed /\ acc.answers # <<>> ->
         sendString(acc.t, <<"ESC", "]", "4">> \o acc.answers \o <<"BEL">>)
    [] OTHER -> acc.t

SetPalette(t, text) ==
  LET pairs == PalettePairs(text)
  IN  AnswerPairs(Iterate(LAMBDA acc, n : NextPair(acc, pairs[n]),
                          [t |-> t, answers |-> <<>>, failed |-> FALSE], Len(pairs)))

\* OSC 8 starts a link, or ends it when there is no address.
Hyperlink(t, text) ==
  LET args   == Split(text, ";")
      starts == Len(args) = 2 /\ args[2] # <<>>
  IN  [t EXCEPT !.screens[t.current].textAttributes.flags =
         IF starts THEN @ \cup {"uri"} ELSE @ \ {"uri"}]

\* OSC 10, 11 and 12: the colours that follow the first one are for the next
\* of these codes.
SetColor10(t, code, rgb) ==
  CASE rgb = NoRgb -> t
    [] rgb # NoRgb /\ code = 10 -> setForegroundColor(t, rgb)
    [] rgb # NoRgb /\ code = 11 -> setBackgroundColor(t, rgb)
    [] rgb # NoRgb /\ code = 12 -> setCursorColor(t, rgb)

SetColors(t, first, text) ==
  LET args      == Split(text, ";")
      Given(code) == IF code - first + 1 \in DOMAIN args THEN x11ToCSS(args[code - first + 1])
                                                         ELSE NoRgb
  IN  SetColor10(SetColor10(SetColor10(t, 10, Given(10)), 11, Given(11)), 12, Given(12))

\* OSC 50, CursorShape=n: the shapes for '1' and '2', all others are a block.
ShapeName == <<"C", "u", "r", "s", "o", "r", "S", "h", "a", "p", "e", "=">>

SetShape(t, text) ==
  LET size  == Len(ShapeName)
      found == {i \in 1 .. Len(text) - size : SubSeq(text, i, i + size - 1) = ShapeName}
      shape == text[Min(found) + size]
  IN  IF found = {} THEN t
      ELSE setCursorShape(t, CASE shape = "1" -> "BEAM"
                               [] shape = "2" -> "UNDERLINE"
                               [] OTHER -> "BLOCK")

\* OSC 104: the whole palette, or the places that are named.
ResetPalette(t, text) ==
  LET Named(arg) == IF arg = <<>> \/ Decimal(Max({ParseInt(arg), 0})) # arg THEN -1
                    ELSE ParseInt(arg)
      places == {Named(arg) : arg \in ToSet(Split(text, ";"))} \cap (0 .. 255)
  IN  IF text = <<>> THEN resetColorPalette(t) ELSE resetColors(t, places)

\* All OSC codes but those left out, which change nothing that is modelled.
DispatchOSC(t, code, text) ==
  CASE code \in {<<"0">>, <<"2">>} -> setWindowTitle(t, text)
    [] code = <<"4">> -> SetPalette(t, text)
    [] code = <<"8">> -> Hyperlink(t, text)
    [] code = <<"1", "0">> -> SetColors(t, 10, text)
    [] code = <<"1", "1">> -> SetColors(t, 11, text)
    [] code = <<"1", "2">> -> SetColors(t, 12, text)
    [] code = <<"5", "0">> -> SetShape(t, text)
    [] code = <<"1", "0", "4">> -> ResetPalette(t, text)
    [] code = <<"1", "1", "0">> -> setForegroundColor(t, DefaultForeground)
    [] code = <<"1", "1", "1">> -> setBackgroundColor(t, DefaultBackground)
    [] code = <<"1", "1", "2">> -> setCursorColor(t, DefaultCursor)
    [] OTHER -> t

\* A complete OSC is a code, perhaps ';', and a text without a line break.
\* A string that has ended is a number and a text, with or without a semicolon.
EndOSC(t, string, code) ==
  LET rest == SubSeq(string, Len(code) + 1, Len(string))
      text == IF rest # <<>> /\ Head(rest) = ";" THEN Tail(rest) ELSE rest
  IN  CASE t.vt.func = "OSC" -> t
        [] t.vt.func # "OSC" /\ code # <<>> /\ ToSet(text) \cap {"CR", "LF"} = {} ->
             resetArguments(DispatchOSC(t, code, text))
        [] OTHER -> resetArguments(t)

ReadOSC(t) == EndOSC(t, t.vt.string, DigitsOf(t.vt.string))

parseOSC(t) == ReadOSC(parseUntilStringTerminator_(t))

EndTitle(t) == IF t.vt.func = "title" THEN t ELSE resetArguments(t)

parseTitle(t) == EndTitle(parseUntilStringTerminator_(t))

\* ESC itself is skipped, so that ESC ESC [ is ESC [.
EndESC(t) == IF t.vt.func = "ESC" THEN resetParseFunction(t) ELSE t

parseESC(t) ==
  LET ch == Head(t.vt.buf)
  IN  IF ch = "ESC" THEN advance(t) ELSE EndESC(DispatchESC(advance(t), ch))

(***************************************************************************)
(* The character after ESC and one of ' ', '#', '%' or a character set.    *)
(* ESC % / takes one more. ESC where the name of a character set should be *)
(* calls a function without its argument: the exception drops the rest of  *)
(* the text.                                                               *)
(***************************************************************************)
parseNext(t) ==
  LET ch   == Head(t.vt.buf)
      rest == resetParseFunction(advance(t))
  IN  CASE t.vt.code = "#" /\ ch = "8" -> fill(setCursorPosition(rest, 0, 0), "E")
        [] t.vt.code = "%" /\ ch = "/" /\ rest.vt.buf # <<>> ->
             [advance(rest) EXCEPT !.encoding = LockEncoding(@, Head(rest.vt.buf))]
        [] t.vt.code = "%" /\ ch # "/" -> [rest EXCEPT !.encoding = setEncoding(@, ch)]
        [] t.vt.code \in DOMAIN Designated /\ ch = "ESC" -> resetBuf(rest, <<>>)
        [] t.vt.code \in DOMAIN Designated /\ ch # "ESC" ->
             [rest EXCEPT !.charsets = Designate(@, t.vt.code, ch)]
        [] OTHER -> rest

\* Outside of strings a control character is executed at once, in the middle of
\* a CSI or DCS function too.
AtControl(t) ==
  Head(t.vt.buf) \in CC1Codes /\ t.vt.func \in {"unknown", "CSI", "DCS"}

ParseStep(t) ==
  CASE AtControl(t) -> DispatchCC1(advance(t), Head(t.vt.buf))
    [] ~AtControl(t) /\ t.vt.func = "unknown" -> parseUnknown_(t)
    [] t.vt.func = "ESC"     -> parseESC(t)
    [] t.vt.func = "next"    -> parseNext(t)
    [] ~AtControl(t) /\ t.vt.func \in {"CSI", "DCS"} -> ParseFunction(advance(t), Head(t.vt.buf))
    [] t.vt.func = "OSC"     -> parseOSC(t)
    [] t.vt.func = "title"   -> parseTitle(t)
    [] t.vt.func = "skip"    -> parseUntilStringTerminator_(t)

(***************************************************************************)
(* The loop of interpret: until nothing is left of the text. A step takes  *)
(* a character, or turns a string that was none into a text. Only the      *)
(* answer to CSI > c, which is that question itself, would be parsed for   *)
(* ever; in the browser the stack overflows and the rest is lost.          *)
(***************************************************************************)
ParseNext(t) == IF t.vt.buf = <<>> THEN t ELSE ParseStep(t)

\* Four steps at once, so that a function of a few rounds does for a long text.
FourTimes(Step(_), t) == Step(Step(Step(Step(t))))

ParseRound(t) == IF t.vt.buf = <<>> THEN t ELSE FourTimes(ParseNext, t)

\* At most two steps for every character, a string begun earlier included.
Rounds(t) == (Len(t.vt.string) + Len(t.vt.buf)) \div 2 + 1 + AnswerRounds

Parse(t) == resetBuf(Iterate(LAMBDA u, n : ParseRound(u), t, Rounds(t)), <<>>)

\* Mutant: a function that the text before left unfinished is given up.
interpret_StartsAnew(t, str) == Parse(resetParseState(t, str))

interpret(t, str) == Parse(resetBuf(t, str))

----------------------------------------------------------------------------
\* What the user does is sent to the host, that is, to the terminal itself.

ButtonX10 ==
  [wheel |-> "GRAVE", mousedown |-> " ", mouseup |-> "#", mousemove |-> "@"]
ButtonSGR == [wheel |-> 64, mousedown |-> 0, mouseup |-> 0, mousemove |-> 32]

\* A report of the left button, or the wheel, on the first cell. In the
\* coordinates of X10 it is CSI M, which deletes a line, and three characters.
MouseReport(t, type) ==
  IF t.vt.mouseCoordinates = "SGR"
  THEN CSI \o <<"<">> \o Decimal(ButtonSGR[type]) \o <<";", "1", ";", "1">>
           \o <<IF type = "mouseup" THEN "m" ELSE "M">>
  ELSE CSI \o <<"M", ButtonX10[type], "!", "!">>

(***************************************************************************)
(* Moves are reported with a button down in one of the modes only, and     *)
(* once for each cell; the first of the modes reports no release. Nothing  *)
(* is sent otherwise.                                                      *)
(***************************************************************************)
onTerminalMouse_(t, type) ==
  IF \/ t.vt.mouseReport = "disabled"
     \/ type = "mousemove" /\ t.vt.mouseReport # "drag"
     \/ type = "mousemove" /\ t.vt.dragged = MouseReport(t, type)
     \/ type = "mouseup" /\ t.vt.mouseReport = "press"
  THEN <<>> ELSE MouseReport(t, type)

\* The wheel sends arrow keys when the alternate screen is shown and both modes
\* for it are on.
WheelArrows(t, type) ==
  IF /\ {"scrollWheelArrowKeys", "applicationCursor"} \subseteq t.vt.modes
     /\ t.current = "alternate" /\ type = "wheel"
  THEN <<"ESC", "O", "A">> ELSE <<>>

\* The last move that was reported is remembered.
SendReport(t, type, report) ==
  interpret(IF type = "mousemove" /\ report # <<>> THEN [t EXCEPT !.vt.dragged = report] ELSE t,
            report)

\* Reports that a selection stopped go on when it is empty at its end.
Released(t, type, isCollapsed) ==
  IF type = "mouseup" /\ isCollapsed THEN setMode(t, "defeatMouseReports", FALSE) ELSE t

(***************************************************************************)
(* A mouse event. A button pressed with Alt, or while nothing is reported, *)
(* starts a selection: reports stop until it is released with nothing      *)
(* selected.                                                               *)
(***************************************************************************)
onMouse_(t, type, altKey, isCollapsed) ==
  LET reports == "defeatMouseReports" \notin t.vt.modes /\ t.vt.mouseReport # "disabled"
      pressed == IF type = "mousedown"
                 THEN setMode(t, "defeatMouseReports", altKey \/ ~reports) ELSE t
      report  == IF reports THEN onTerminalMouse_(t, type) ELSE WheelArrows(t, type)
  IN  Released(SendReport(pressed, type, report), type, isCollapsed)

\* A text from the clipboard is sent with CR for LF. In bracketed paste mode
\* it loses its control functions and is put between CSI 200~ and CSI 201~.
Unfiltered == {"BS", "TAB", "CR", "DEL"}

KeepNext(kept, ch) == IF ch \in CC1Codes \ Unfiltered THEN kept ELSE Append(kept, ch)

Filtered(data) ==
  Iterate(LAMBDA kept, n : KeepNext(kept, data[n]), <<>>, Len(data))

onPasteData_(t, text) ==
  LET data == [i \in DOMAIN text |-> IF text[i] = "LF" THEN "CR" ELSE text[i]]
  IN  interpret(t,
        IF "bracketedPaste" \in t.options
        THEN CSI \o <<"2", "0", "0", "~">> \o Filtered(data)
                 \o CSI \o <<"2", "0", "1", "~">>
        ELSE data)

onFocusChange_(t, focused) ==
  IF "reportFocus" \in t.vt.modes
  THEN interpret(t, CSI \o <<IF focused THEN "I" ELSE "O">>)
  ELSE t

=============================================================================
