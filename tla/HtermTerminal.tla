--------------------------- MODULE HtermTerminal ---------------------------
(***************************************************************************)
(* The terminal of the online page (hterm.Terminal): the primary and the   *)
(* alternate screen, the rows scrolled off them, the scroll region, the    *)
(* tab stops and the modes. Every method that changes what is displayed is *)
(* an operator from a terminal to a terminal.                              *)
(*                                                                         *)
(* A terminal is a record:                                                 *)
(*   screens, current - the two screens and which of them is shown         *)
(*   scrollback       - scrollbackRows_, shared by both screens            *)
(*   width, height    - screenSize                                         *)
(*   top, bottom      - vtScrollTop_ and vtScrollBottom_, or Null          *)
(*   tabStops, defaultTabStops, options                                    *)
(*   charsets, encoding - see HtermCharsets                                *)
(*   colors           - see HtermColors                                    *)
(*   title, cursorShape                                                    *)
(*   vt               - the parser, which only HtermVT looks into          *)
(* Sounds, notifications, images, the clipboard, the find bar and the      *)
(* accessibility reader are left out.                                      *)
(***************************************************************************)
EXTENDS HtermScreen, HtermColors

CONSTANT TabWidth    \* tabWidth, 8 in the code

ASSUME TabWidthAssumption == TabWidth \in Nat \ {0}

Null == -1

\* The modes that are on, of wraparound, reverseWraparound, originMode,
\* autoCarriageReturn, insertMode, cursorVisible, cursorBlink, reverseVideo
\* and bracketedPaste. The page never asks for the cursor, which is not shown
\* until a log asks for it or resets the terminal.
DefaultOptions == {"wraparound"}

Screen(t) == t.screens[t.current]

OnScreen(t, screen) == [t EXCEPT !.screens[t.current] = screen]

Row(t) == Screen(t).row
Column(t) == Screen(t).column

getRowCount(t) == Len(t.scrollback) + Height(Screen(t))

----------------------------------------------------------------------------
\* The cursor.

saveCursor(t) ==
  [row |-> Row(t), column |-> Column(t), overflow |-> Screen(t).overflow]

clearCursorOverflow(t) == [t EXCEPT !.screens[t.current].overflow = FALSE]

setAbsoluteCursorPosition(t, row, column) ==
  OnScreen(t, ScreenSetCursorPosition(Screen(t), Clamp(0, row, t.height - 1),
                                      Clamp(0, column, t.width - 1)))

\* A cursor to the right of the last column overflows.
restoreCursor(t, cursor) ==
  [setAbsoluteCursorPosition(t, cursor.row, cursor.column) EXCEPT
     !.screens[t.current].overflow =
        cursor.column > t.width - 1 \/ cursor.overflow]

setCursorColumn(t, column) == setAbsoluteCursorPosition(t, Row(t), column)

setAbsoluteCursorRow(t, row) == setAbsoluteCursorPosition(t, row, Column(t))

\* The scroll region. A region that ends on the last row has no bottom, and
\* no top either when it is the whole screen.
getVTScrollTop(t) == IF t.top = Null THEN 0 ELSE t.top
getVTScrollBottom(t) == IF t.bottom = Null THEN t.height - 1 ELSE t.bottom

setVTScrollRegion(t, scrollTop, scrollBottom) ==
  LET toEnd == scrollBottom = t.height - 1
  IN  [t EXCEPT !.top = IF toEnd /\ scrollTop = 0 THEN Null ELSE scrollTop,
                !.bottom = IF toEnd THEN Null ELSE scrollBottom]

setRelativeCursorPosition(t, row, column) ==
  LET top == getVTScrollTop(t)
  IN  OnScreen(t, ScreenSetCursorPosition(Screen(t),
                    Clamp(top, row + top, getVTScrollBottom(t)),
                    Clamp(0, column, t.width - 1)))

setCursorPosition(t, row, column) ==
  IF "originMode" \in t.options THEN setRelativeCursorPosition(t, row, column)
                                ELSE setAbsoluteCursorPosition(t, row, column)

\* Down so many rows, or up when the count is negative, inside the region in
\* origin mode.
cursorDown(t, count) ==
  LET inRegion == "originMode" \in t.options
  IN  setAbsoluteCursorRow(t,
        Clamp(IF inRegion THEN getVTScrollTop(t) ELSE 0,
              Row(t) + count,
              IF inRegion THEN getVTScrollBottom(t) ELSE t.height - 1))

cursorUp(t, count) == cursorDown(t, -count)

\* The remainder of a division the way JavaScript has it: with the sign of
\* the dividend.
JsMod(n, d) == IF n >= 0 THEN n % d ELSE -((-n) % d)

\* Left with reverseWraparound, from the pending wrap first, then through the
\* right margin of the rows above and from the top to the bottom.
cursorLeftAround(t, count) ==
  LET left      == IF Screen(t).overflow THEN count - 1 ELSE count
      cleared   == clearCursorOverflow(t)
      newColumn == Column(t) - left
      up        == Row(t) - left \div t.width - 1
      newRow    == IF newColumn >= 0 THEN Row(t)
                   ELSE IF up < 0 THEN t.height + JsMod(up, t.height) ELSE up
  IN  IF left = 0 THEN cleared
      ELSE setCursorPosition(cleared, Max({newRow, 0}),
             IF newColumn < 0 THEN t.width + JsMod(newColumn, t.width) ELSE newColumn)

cursorLeft(t, count) ==
  IF "reverseWraparound" \in t.options
  THEN cursorLeftAround(t, count)
  ELSE setCursorColumn(t, Max({Column(t) - count, 0}))

cursorRight(t, count) ==
  setCursorColumn(t, Clamp(0, Column(t) + count, t.width - 1))

----------------------------------------------------------------------------
\* Tab stops.

setTabStop(t, column) == [t EXCEPT !.tabStops = @ \cup {column}]

clearTabStopAtCursor(t) == [t EXCEPT !.tabStops = @ \ {Column(t)}]

clearAllTabStops(t) == [t EXCEPT !.tabStops = {}, !.defaultTabStops = FALSE]

\* A stop at every multiple of the tab width from start on, but for column 0.
setDefaultTabStops(t, start) ==
  [t EXCEPT
     !.tabStops = @ \cup {column \in start .. t.width - 1 :
                            column > 0 /\ column % TabWidth = 0},
     !.defaultTabStops = TRUE]

forwardTabStop(t) ==
  LET further == {stop \in t.tabStops : stop > Column(t)}
  IN  IF further # {} THEN setCursorColumn(t, Min(further))
      ELSE [setCursorColumn(t, t.width - 1)
              EXCEPT !.screens[t.current].overflow = Screen(t).overflow]

\* Without a stop to the left the cursor goes to column 1, the second one.
backwardTabStop(t) ==
  LET before == {stop \in t.tabStops : stop < Column(t)}
  IN  setCursorColumn(t, IF before # {} THEN Max(before) ELSE 1)

----------------------------------------------------------------------------
\* Rows.

\* The rows from start up to end, not included, are numbered by their place
\* below the scrollback.
RenumberedScreen(screen, start, end, offset) ==
  [screen EXCEPT !.rowsArray =
     [i \in DOMAIN @ |-> IF i - 1 \in start .. end - 1
                         THEN [@[i] EXCEPT !.rowIndex = offset + i - 1]
                         ELSE @[i]]]

renumberRows_(t, start, end) ==
  OnScreen(t, RenumberedScreen(Screen(t), start, end, Len(t.scrollback)))

\* Rows at the top of the screen go to the end of the scrollback.
scrollOff(t, count) ==
  [t EXCEPT !.scrollback = @ \o SubSeq(Screen(t).rowsArray, 1, count),
            !.screens[t.current] = shiftRows(@, count)]

\* Mutant: the new rows are numbered on the screen, not below the scrollback.
appendRows__NumbersScreen(t, count) ==
  LET height  == Height(Screen(t))
      grown   == OnScreen(t, [Screen(t) EXCEPT !.rowsArray =
                   @ \o [i \in 1 .. count |-> NewRow(height + i - 1)]])
      extra   == Max({height + count - t.height, 0})
  IN  setAbsoluteCursorPosition(scrollOff(grown, extra),
        Min({height, height + count - extra - 1}), 0)

\* Empty rows are added at the bottom; rows too many go to the scrollback.
appendRows_(t, count) ==
  LET height  == Height(Screen(t))
      grown   == OnScreen(t, [Screen(t) EXCEPT !.rowsArray =
                   @ \o [i \in 1 .. count |-> NewRow(getRowCount(t) + i - 1)]])
      extra   == Max({height + count - t.height, 0})
  IN  setAbsoluteCursorPosition(scrollOff(grown, extra),
        Min({height, height + count - extra - 1}), 0)

\* An empty row is inserted above the end of a region that starts at the top:
\* the first row of the screen goes to the scrollback.
insertRow_(t) ==
  LET off      == scrollOff(t, 1)
      inserted == OnScreen(off, insertRow(Screen(off), Row(t), NewRow(0)))
  IN  setAbsoluteCursorPosition(
        renumberRows_(inserted, Row(t), Height(Screen(inserted))), Row(t), 0)

\* Rows are taken out and put back elsewhere. The place of the cursor's row
\* follows it.
moveRows_(t, fromIndex, count, toIndex) ==
  LET screen == Screen(t)
      rows   == screen.rowsArray
      moved  == SubSeq(rows, fromIndex + 1, fromIndex + count)
      others == SubSeq(rows, 1, fromIndex) \o SubSeq(rows, fromIndex + count + 1, Len(rows))
      Place(i) == CASE i = 0 -> 0
                    [] i \in fromIndex + 1 .. fromIndex + count -> i - fromIndex + toIndex
                    [] OTHER -> LET rest == IF i <= fromIndex THEN i ELSE i - count
                                IN  IF rest <= toIndex THEN rest ELSE rest + count
  IN  renumberRows_(
        OnScreen(t, [screen EXCEPT
          !.rowsArray = SubSeq(others, 1, toIndex) \o moved
                          \o SubSeq(others, toIndex + 1, Len(others)),
          !.rowNode = Place(@)]),
        Min({fromIndex, toIndex}), Max({fromIndex, toIndex}) + count)

ClearCursorRow(t) == OnScreen(t, clearCursorRow(Screen(t)))

ClearRows(t, rows, last) == OnScreen(t, ClearedRows(Screen(t), rows, last))

\* Lines inserted at the cursor push the last ones of the region out. At
\* least one row moves, even when the cursor is below the region.
insertLines(t, count) ==
  LET row    == Row(t)
      lines  == Min({count, getVTScrollBottom(t) - row})
      stay   == getVTScrollBottom(t) - row - lines + 1
  IN  ClearRows(moveRows_(t, row, stay, row + lines), row .. row + lines - 1, row)

\* Lines deleted at the cursor leave empty ones at the end of the region.
deleteLines(t, count) ==
  LET cursor == saveCursor(t)
      bottom == getVTScrollBottom(t)
      most   == bottom - cursor.row + 1
      lines  == Min({count, most})
      start  == bottom - lines + 1
      moved  == IF lines = most THEN t ELSE moveRows_(t, cursor.row, lines, start)
  IN  clearCursorOverflow(
        restoreCursor(ClearRows(moved, start .. bottom, bottom), cursor))

vtScrollUp(t, count) ==
  restoreCursor(deleteLines(setAbsoluteCursorRow(t, getVTScrollTop(t)), count),
                saveCursor(t))

vtScrollDown(t, count) ==
  restoreCursor(insertLines(setAbsoluteCursorPosition(t, getVTScrollTop(t), 0), count),
                saveCursor(t))

----------------------------------------------------------------------------
\* New lines and printing.

(***************************************************************************)
(* To the start of the next row. At the end of the screen a row is added   *)
(* and the top one scrolls off; at the end of a region that does not start *)
(* at the top the region scrolls, and its first line is lost.              *)
(***************************************************************************)
newLine(t) ==
  LET endOfScreen == Row(t) = Height(Screen(t)) - 1
      endOfRegion == Row(t) = getVTScrollBottom(t)
  IN  CASE t.top # Null /\ endOfRegion ->
             setAbsoluteCursorPosition(vtScrollUp(t, 1), Row(t), 0)
        [] ~(t.top # Null /\ endOfRegion) /\ endOfScreen -> appendRows_(t, 1)
        [] t.top = Null /\ ~endOfScreen /\ endOfRegion -> insertRow_(t)
        [] OTHER -> setAbsoluteCursorPosition(t, Row(t) + 1, 0)

lineFeed(t) == setCursorColumn(newLine(t), Column(t))

\* A new line, which ends in column 0, or a line feed.
formFeed(t) ==
  setCursorColumn(newLine(t), IF "autoCarriageReturn" \in t.options THEN 0 ELSE Column(t))

reverseLineFeed(t) ==
  IF Row(t) = getVTScrollTop(t) THEN insertLines(t, 1)
                                ELSE setAbsoluteCursorRow(t, Row(t) - 1)

\* The pieces of a text are written one after another, at the cursor.
Write(screen, str, inserts) ==
  IF inserts THEN insertString(screen, str) ELSE overwriteString(screen, str)

WriteAll(t, pieces) ==
  OnScreen(t, Iterate(LAMBDA screen, n : Write(screen, pieces[n], "insertMode" \in t.options),
                      Screen(t), Len(pieces)))

\* Mutant: a wrapped row is not marked as going on in the next one.
wrapLine_NotCommitted(t) ==
  IF "wraparound" \in t.options /\ Screen(t).overflow THEN newLine(t) ELSE t

\* A character that wraps starts a row, and the row before goes on in it.
wrapLine(t) ==
  IF "wraparound" \in t.options /\ Screen(t).overflow
  THEN newLine(OnScreen(t, commitLineOverflow(Screen(t))))
  ELSE t

Clipped(t) == OnScreen(t, maybeClipCurrentRow(Screen(t)))

(***************************************************************************)
(* print: as much of the text as reaches the last column is written, the   *)
(* row is clipped, and so on in the next row. Without wraparound the last  *)
(* character ends up in the last column and those that do not fit are      *)
(* dropped. A part takes at least one column of the text.                  *)
(***************************************************************************)
PrintPart(t, str, startOffset) ==
  LET left  == strWidth(str) - startOffset
      space == t.width - Column(t)
      full  == left >= space
      count == IF full THEN space ELSE left
      drops == full /\ "wraparound" \notin t.options
      part  == IF drops
               THEN substr(str, startOffset, count - 1) \o Remainder(str, strWidth(str) - 1)
               ELSE substr(str, startOffset, count)
  IN  [t |-> Clipped(WriteAll(t, splitWidecharString(part))),
       startOffset |-> IF drops THEN strWidth(str) + startOffset ELSE startOffset + count]

PrintNext(printed, str) ==
  IF printed.startOffset >= strWidth(str) THEN printed
  ELSE PrintPart(wrapLine(printed.t), str, printed.startOffset)

print(t, str) ==
  Iterate(LAMBDA printed, n : PrintNext(printed, str), [t |-> t, startOffset |-> 0],
          strWidth(str)).t

----------------------------------------------------------------------------
\* Erasing.

Overwrite(t, str) == OnScreen(t, overwriteString(Screen(t), str))

eraseToLeft(t) ==
  restoreCursor(Overwrite(setCursorColumn(t, 0), Blanks(Column(t) + 1)), saveCursor(t))

\* To the right nothing is written when the rest of the row can simply be
\* deleted: the background is the default one and the row ends there.
eraseToRight(t, columns) ==
  LET count   == Min({columns, t.width - Column(t)})
      screen  == Screen(t)
      deletes == /\ ~SetsBackground(screen.textAttributes)
                 /\ RowWidth(screen.rowsArray[Row(t) + 1]) <= Column(t) + count
  IN  CASE screen.overflow -> t
        [] ~screen.overflow /\ deletes ->
             clearCursorOverflow(OnScreen(t, ScreenDeleteChars(screen, count)))
        [] OTHER ->
             clearCursorOverflow(restoreCursor(Overwrite(t, Blanks(count)), saveCursor(t)))

eraseWholeRight(t) == eraseToRight(t, t.width)

eraseLine(t) ==
  clearCursorOverflow(restoreCursor(ClearCursorRow(t), saveCursor(t)))

eraseAbove(t) ==
  clearCursorOverflow(restoreCursor(
    ClearRows(eraseToLeft(t), 0 .. Row(t) - 1, Row(t) - 1), saveCursor(t)))

eraseBelow(t) ==
  clearCursorOverflow(restoreCursor(
    ClearRows(eraseWholeRight(t), Row(t) + 1 .. t.height - 1, t.height - 1),
    saveCursor(t)))

\* Every cell of the screen gets the same character.
FillCell(screen, row, column, ch) ==
  overwriteString(ScreenSetCursorPosition(screen, row, column), <<ch>>)

fill(t, ch) ==
  LET filled == Iterate(
        LAMBDA screen, n : FillCell(screen, (n - 1) \div t.width, (n - 1) % t.width, ch),
        Screen(t), t.width * t.height)
  IN  restoreCursor(OnScreen(t, filled), saveCursor(t))

clear(t) ==
  OnScreen(t, ScreenSetCursorPosition(clearHome(Screen(t)), Row(t), Column(t)))

\* The scrollback is dropped and both screens are numbered from 0.
clearScrollback(t) ==
  [t EXCEPT !.scrollback = <<>>,
            !.screens = [name \in DOMAIN @ |->
               RenumberedScreen(@[name], 0, Height(@[name]), 0)]]

Insert(t, str) == OnScreen(t, insertString(Screen(t), str))

insertSpace(t, count) ==
  clearCursorOverflow(restoreCursor(
    Clipped(Insert(t, Blanks(count))), saveCursor(t)))

\* What is deleted in a style comes back as blanks at the end of the row.
BlanksForDeleted(t, number) ==
  IF number = 0 \/ isDefault(Screen(t).textAttributes) THEN t
  ELSE restoreCursor(Insert(setCursorColumn(t, t.width - number), Blanks(number)), saveCursor(t))

deleteChars(t, count) ==
  clearCursorOverflow(BlanksForDeleted(
    OnScreen(t, ScreenDeleteChars(Screen(t), count)), DeletedCount(Screen(t), count)))

----------------------------------------------------------------------------
\* Modes, sizes, saved cursors and resets.

setOption(t, option, state) ==
  [t EXCEPT !.options = IF state THEN @ \cup {option} ELSE @ \ {option}]

\* Origin mode moves the cursor home, in the region or on the screen.
setOriginMode(t, state) == setCursorPosition(setOption(t, "originMode", state), 0, 0)

\* A screen saves the cursor of the screen that is shown, with its own text
\* attributes.
SaveInScreen(t, name) ==
  [t EXCEPT !.screens[name].saved =
     [row |-> Row(t), column |-> Column(t), overflow |-> Screen(t).overflow,
      textAttributes |-> t.screens[name].textAttributes, charsets |-> t.charsets]]

saveCursorAndState(t) == SaveInScreen(t, t.current)

\* The changes of the palette are no part of the state that was saved.
RestoreState(t, saved) ==
  [restoreCursor(t, [row |-> saved.row, column |-> saved.column,
                     overflow |-> saved.overflow])
     EXCEPT !.screens[t.current].textAttributes = syncColors(saved.textAttributes),
            !.charsets = saved.charsets]

restoreCursorAndState(t) == RestoreState(t, Screen(t).saved)

\* A new width cuts nothing: rows keep their text until they are written to.
realizeWidth_(t, columnCount) ==
  LET old   == Screen(t).columnCount
      wider == OnScreen([t EXCEPT !.width = columnCount],
                        setColumnCount(Screen(t), columnCount))
  IN  CASE columnCount = old -> t
        [] columnCount > old ->
             IF t.defaultTabStops THEN setDefaultTabStops(wider, old) ELSE wider
        [] OTHER -> [wider EXCEPT !.tabStops = {stop \in @ : stop < columnCount}]

\* Mutant: rows below the cursor are dropped, empty or not.
EmptyBelow_AnyRow(t, most) == Max({n \in 0 .. most : Height(Screen(t)) - n > Row(t)})

\* How many rows at the bottom a lower screen can do without: empty rows
\* below the cursor.
EmptyBelow(t, most) ==
  LET rows == Screen(t).rowsArray
  IN  Max({n \in 0 .. most :
             \A i \in Len(rows) - n + 1 .. Len(rows) :
               i - 1 # Row(t) /\ RowText(rows[i]) = <<>>})

\* Mutant: the scroll region of the old height stays.
Settle_KeepsRegion(t, cursor, row) == restoreCursor(t, [cursor EXCEPT !.row = row])

\* A new height ends the scroll region and moves the cursor with its row.
Settle(t, cursor, row) ==
  restoreCursor(setVTScrollRegion(t, Null, Null), [cursor EXCEPT !.row = row])

(***************************************************************************)
(* A lower screen drops its empty rows at the bottom and scrolls the rest  *)
(* off at the top. A higher one takes rows back from the scrollback, but   *)
(* only when that has as many as it needs, else it gets empty ones. This   *)
(* is also what fills the alternate screen when it is first shown.         *)
(***************************************************************************)
realizeHeight_(t, rowCount) ==
  LET old     == Height(Screen(t))
      cursor  == saveCursor(t)
      sized   == [t EXCEPT !.height = rowCount]
      empty   == EmptyBelow(t, old - rowCount)
      off     == old - rowCount - empty
      lower   == scrollOff(OnScreen(sized, popRows(Screen(sized), empty)), off)
      missing == rowCount - old
      kept    == Len(t.scrollback) - missing
      back    == [sized EXCEPT
                    !.scrollback = SubSeq(@, 1, kept),
                    !.screens[t.current] =
                       unshiftRows(@, SubSeq(t.scrollback, kept + 1, Len(t.scrollback)))]
  IN  CASE rowCount = old -> t
        [] rowCount < old -> Settle(lower, cursor, Max({cursor.row - off, 0}))
        [] rowCount > old /\ kept >= 0 -> Settle(back, cursor, cursor.row + missing)
        [] OTHER -> Settle(appendRows_(sized, missing), cursor, cursor.row)

realizeSize_(t, columnCount, rowCount) ==
  LET wide == IF columnCount # t.width THEN realizeWidth_(t, columnCount) ELSE t
  IN  IF rowCount # t.height THEN realizeHeight_(wide, rowCount) ELSE wide

(***************************************************************************)
(* The other screen is shown, with the cursor where it was on this one.    *)
(* Its colours are shown, its rows are numbered anew when the scrollback   *)
(* has changed meanwhile, and it gets the size of the terminal.            *)
(***************************************************************************)
setAlternateMode(t, state) ==
  LET other    == IF state THEN "alternate" ELSE "primary"
      swapped  == ShowPalette([t EXCEPT !.current = other], Overrides(t))
      rows     == t.screens[other].rowsArray
      stale    == rows # <<>> /\ rows[1].rowIndex # Len(t.scrollback)
      numbered == IF stale THEN renumberRows_(swapped, 0, Len(rows)) ELSE swapped
      sized    == realizeHeight_(realizeWidth_(numbered, t.width), t.height)
  IN  IF t.current = other THEN t ELSE restoreCursor(sized, saveCursor(t))

\* Reverse video swaps the foreground with the background.
setReverseVideo(t, state) == SwapColors(setOption(t, "reverseVideo", state), state)

setCursorShape(t, shape) == [t EXCEPT !.cursorShape = shape]

setCursorBlink(t, state) == setOption(t, "cursorBlink", state)

setCursorVisible(t, state) == setOption(t, "cursorVisible", state)

setWindowTitle(t, title) == [t EXCEPT !.title = title]

\* What both resets do to the terminal as a whole. The colours of the screen
\* that is shown are taken back; the other one's are not in the page. Neither
\* the encoding, the title, the shape of the cursor, which screen is shown nor
\* the foreground and background change.
ResetTerminal(t, options) ==
  [resetColorPalette(t) EXCEPT
     !.charsets = NewCharsets, !.options = options \cup {"cursorVisible"},
     !.colors.overrides = [primary |-> NoColors, alternate |-> NoColors]]

\* A soft reset keeps a cursor blinking that does.
SoftResetScreen(t, name) ==
  SaveInScreen([t EXCEPT !.screens[name].textAttributes = ResetAttributes(@)], name)

softReset(t) ==
  LET blinking == {"cursorBlink", "cursorVisible"} \subseteq t.options
      options  == DefaultOptions \cup IF blinking THEN {"cursorBlink"} ELSE {}
      first    == SoftResetScreen(ResetTerminal(t, options), "primary")
  IN  setVTScrollRegion(SoftResetScreen(first, "alternate"), Null, Null)

\* What a full reset does to one screen, and to the terminal as a whole.
ResetScreen(t, name) ==
  LET screen == t.screens[name]
      attrs  == ResetAttributes(screen.textAttributes)
  IN  SaveInScreen(
        [t EXCEPT !.screens[name] = clearHome([screen EXCEPT !.textAttributes = attrs])], name)

ResetStops(t) ==
  ResetTerminal(setDefaultTabStops(clearAllTabStops(t), 0), DefaultOptions)

\* Mutant: only the screen that is shown is cleared.
reset_OneScreen(t) ==
  setVTScrollRegion(ResetScreen(ResetStops(t), t.current), Null, Null)

\* A full reset clears both screens, whichever is shown.
reset(t) ==
  setVTScrollRegion(
    ResetScreen(ResetScreen(ResetStops(t), "primary"), "alternate"), Null, Null)

\* The constructor: both screens empty, then the size is realized.
NewTerminal(columnCount, rowCount, parser) ==
  setDefaultTabStops(
    realizeSize_(
      [screens |-> [primary |-> NewScreen, alternate |-> NewScreen], current |-> "primary",
       scrollback |-> <<>>, width |-> 0, height |-> 0, top |-> Null, bottom |-> Null,
       tabStops |-> {}, defaultTabStops |-> TRUE, options |-> DefaultOptions,
       charsets |-> NewCharsets, encoding |-> "utf-8", colors |-> NewColors,
       title |-> <<>>, cursorShape |-> "BLOCK", vt |-> parser],
      columnCount, rowCount), 0)

\* The text of all rows, scrolled off or shown.
AllRows(t) == t.scrollback \o Screen(t).rowsArray

=============================================================================
