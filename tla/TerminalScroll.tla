---------------------------- MODULE TerminalScroll ----------------------------
(***************************************************************************)
(* Which rows of the terminal the online page shows. New logs add rows at  *)
(* the end and the view follows them, unless the user has scrolled back;   *)
(* the user selects text; the window changes its size. All of it is drawn  *)
(* later, by timers and events of the browser, in whatever order they      *)
(* come, from the state that the terminal has then.                        *)
(*                                                                         *)
(* The texts of the rows are left out (HtermTerminal has them): a row is   *)
(* a number, and a log moves the cursor, adds rows, moves them, clears the *)
(* scrollback or shows the other screen.                                   *)
(***************************************************************************)
EXTENDS HtermScrollPort

CONSTANTS
  Heights,      \* how many rows the window has room for
  MaxRows,      \* bound on the rows that exist at a time
  MaxEvents,    \* bound on logs and on what the user does
  Limited       \* logs, user and window keep to the limits stated above Log

ASSUME HeightsAssumption == MaxRows \in Nat /\ Heights \subseteq 1 .. MaxRows
ASSUME LimitedAssumption == Limited \in BOOLEAN

VARIABLES
  term,         \* the terminal: scrollback, screens, current, height, cursor
  rowIndex,     \* the property of every row
  port,
  timers,       \* callbacks of setTimeout without a delay, in their order
  scrollDown,   \* timeouts_.scrollDown: 0, or how many callbacks come before it, and 1
  resizing,     \* the browser has yet to send a resize event
  cursorAt,     \* the row of the view the cursor is shown in, or Null
  events

vars == <<term, rowIndex, port, timers, scrollDown, resizing, cursorAt, events>>

Ids == 1 .. MaxRows

ScreenRows(t) == t.screens[t.current]

AllRows(t) == t.scrollback \o ScreenRows(t)

RowCount(t) == Len(AllRows(t))

\* A row number that nothing refers to any more is used again.
Used(t, p) ==
  UNION {ToSet(t.scrollback), ToSet(t.screens.primary), ToSet(t.screens.alternate),
         ToSet(p.dom), {p.anchor, p.focus, p.startRow, p.endRow},
         {p.cache[i] : i \in DOMAIN p.cache}}

FreeRows == Ids \ Used(term, port)

\* So many rows that are not used yet.
Fresh(count) == SubSeq(SetToSeq(FreeRows), 1, count)

\* rowIndex where the rows of a list are numbered from a place on.
Numbered(index, rows, offset) ==
  [row \in DOMAIN index |->
     IF row \in ToSet(rows) THEN offset + (CHOOSE i \in DOMAIN rows : rows[i] = row) - 1
                            ELSE index[row]]

\* A timer that is set already is not set again.
Schedule(queue, timer) ==
  IF timer \in ToSet(queue) THEN queue ELSE Append(queue, timer)

\* In 10 ms the view goes to the end: after the callbacks that wait already.
ScrollDownAfter(queue) == IF scrollDown = 0 THEN Len(queue) + 1 ELSE scrollDown

Bounded == events < MaxEvents /\ ~port.failed

Counted == Bounded /\ events' = events + 1

----------------------------------------------------------------------------
\* Logs. Every one asks for the cursor to be placed before it is interpreted.

WithCursor == Schedule(timers, "syncCursor")

MoveCursor(row) ==
  /\ Counted
  /\ row # term.cursor
  /\ term' = [term EXCEPT !.cursor = row]
  /\ timers' = WithCursor
  /\ UNCHANGED <<rowIndex, port, scrollDown, resizing, cursorAt>>

\* appendRows_: count rows are added and those too many scroll off.
Appended(t, new) ==
  LET rows  == ScreenRows(t) \o new
      extra == Max({Len(rows) - t.height, 0})
  IN  [t EXCEPT !.scrollback = @ \o SubSeq(rows, 1, extra),
                !.screens[t.current] = SubSeq(rows, extra + 1, Len(rows)),
                !.cursor = Min({Len(ScreenRows(t)), Len(rows) - extra - 1})]

\* Mutant: the view does not follow.
AppendRow_NotFollowed ==
  /\ Counted
  /\ term.cursor = term.height - 1
  /\ FreeRows # {}
  /\ term' = Appended(term, Fresh(1))
  /\ rowIndex' = Numbered(rowIndex, Fresh(1), RowCount(term))
  /\ timers' = WithCursor
  /\ UNCHANGED <<port, scrollDown, resizing, cursorAt>>

\* A new line at the end of the screen.
AppendRow ==
  /\ Counted
  /\ term.cursor = term.height - 1
  /\ FreeRows # {}
  /\ term' = Appended(term, Fresh(1))
  /\ rowIndex' = Numbered(rowIndex, Fresh(1), RowCount(term))
  /\ scrollDown' = IF port.isScrolledEnd THEN ScrollDownAfter(WithCursor) ELSE scrollDown
  /\ timers' = WithCursor
  /\ UNCHANGED <<port, resizing, cursorAt>>

\* A new line at the end of a scroll region that starts at the top.
InsertRow ==
  LET rows == InsertAt(Tail(ScreenRows(term)), term.cursor + 1, Fresh(1)[1])
  IN  /\ Counted
      /\ term.cursor < term.height - 1
      /\ FreeRows # {}
      /\ term' = [term EXCEPT !.scrollback = Append(@, Head(ScreenRows(term))),
                              !.screens[term.current] = rows]
      /\ rowIndex' = Numbered(rowIndex, rows, Len(term.scrollback) + 1)
      /\ scrollDown' = IF port.isScrolledEnd THEN ScrollDownAfter(WithCursor) ELSE scrollDown
      /\ timers' = WithCursor
      /\ UNCHANGED <<port, resizing, cursorAt>>

\* Lines inserted, deleted or scrolled in a region: rows change places.
MoveRows(from, count, to) ==
  LET rows   == ScreenRows(term)
      moved  == SubSeq(rows, from + 1, from + count)
      others == SubSeq(rows, 1, from) \o SubSeq(rows, from + count + 1, Len(rows))
      placed == SubSeq(others, 1, to) \o moved \o SubSeq(others, to + 1, Len(others))
  IN  /\ Counted
      /\ from # to /\ from + count <= term.height /\ to + count <= term.height
      /\ term' = [term EXCEPT !.screens[term.current] = placed]
      /\ rowIndex' = Numbered(rowIndex, placed, Len(term.scrollback))
      /\ timers' = Schedule(WithCursor, "invalidate")
      /\ UNCHANGED <<port, scrollDown, resizing, cursorAt>>

\* Where the cursor is shown, given the terminal and the port.
CursorRow(t) == Len(t.scrollback) + t.cursor

CursorInView(t, p) == CursorRow(t) <= p.scrollTop + p.visibleRowCount - 1

\* The caret goes with the cursor while nothing is selected, if the row of
\* the cursor is in the document.
CaretAtCursor(t, p) ==
  LET row == ScreenRows(t)[t.cursor + 1]
  IN  IF CursorInView(t, p) /\ p.collapsed /\ row \in ToSet(p.dom)
      THEN [p EXCEPT !.anchor = row, !.focus = row] ELSE p

CursorPlace(t, p) ==
  IF CursorInView(t, p) THEN CursorRow(t) - p.scrollTop ELSE Null

\* Erasing the scrollback: the view goes to the end first.
ClearScrollback ==
  LET ended    == scrollRowToBottom(port, AllRows(term), RowCount(term))
      cleared  == [term EXCEPT !.scrollback = <<>>]
      index    == Numbered(Numbered(rowIndex, term.screens.primary, 0),
                           term.screens.alternate, 0)
      caret    == CaretAtCursor(cleared, resetCache(ended))
      redraws  == Redraws(port, AllRows(term), RowCount(term) - port.visibleRowCount)
  IN  /\ Counted
      /\ term' = cleared
      /\ rowIndex' = index
      /\ cursorAt' = CursorPlace(cleared, caret)
      /\ port' = invalidate(caret, AllRows(cleared), index)
      /\ timers' = IF redraws THEN Schedule(WithCursor, "redraw") ELSE WithCursor
      /\ UNCHANGED <<scrollDown, resizing>>

(***************************************************************************)
(* realizeHeight_ of the screen that is shown: rows that are empty are     *)
(* dropped at the bottom, the rest scrolls off at the top; rows are taken  *)
(* back from the scrollback when it has enough, else new ones are added.   *)
(***************************************************************************)
Realized(t, height, empty) ==
  LET rows    == ScreenRows(t)
      off     == Len(rows) - height - empty
      missing == height - Len(rows)
      kept    == Len(t.scrollback) - missing
      sized   == [t EXCEPT !.height = height]
  IN  CASE missing = 0 -> t
        [] missing < 0 ->
             [sized EXCEPT !.scrollback = @ \o SubSeq(rows, 1, off),
                           !.screens[t.current] = SubSeq(rows, off + 1, off + height),
                           !.cursor = Min({Max({@ - off, 0}), height - 1})]
        [] missing > 0 /\ kept >= 0 ->
             [sized EXCEPT !.scrollback = SubSeq(@, 1, kept),
                           !.screens[t.current] = SubSeq(t.scrollback, kept + 1, kept + missing) \o @,
                           !.cursor = @ + missing]
        [] OTHER -> [Appended(sized, Fresh(missing)) EXCEPT !.cursor = t.cursor]

NewRows(t, height) ==
  IF height - Len(ScreenRows(t)) > Len(t.scrollback)
  THEN height - Len(ScreenRows(t)) ELSE 0

\* How many rows at the bottom can be empty: those below the cursor.
EmptyRows(t, height) == 0 .. Max({0, Min({Len(ScreenRows(t)) - height, Len(ScreenRows(t)) - 1 - t.cursor})})

\* Rows that are new are numbered when they are appended.
RealizedIndex(t, height, index) ==
  Numbered(index, Fresh(NewRows(t, height)), RowCount(t))

\* ScrollPort.resize: the terminal hears of it later, then comes a redraw.
Resized(p, rows) == syncRowNodesDimensions_(syncScrollHeight(p, rows))

(***************************************************************************)
(* The other screen is shown, with the cursor where it was.                *)
(***************************************************************************)
SetAlternateMode(empty) ==
  LET other   == IF term.current = "primary" THEN "alternate" ELSE "primary"
      swapped == [term EXCEPT !.current = other]
      offset  == Len(term.scrollback)
      shown   == Numbered(rowIndex, ScreenRows(swapped), offset)
      t       == [Realized(swapped, term.height, empty) EXCEPT !.cursor = term.cursor]
      index   == RealizedIndex(swapped, term.height, shown)
      drawn   == invalidate(syncScrollHeight(port, AllRows(t)), AllRows(t), index)
  IN  /\ Counted
      /\ empty \in EmptyRows(swapped, term.height)
      /\ Cardinality(FreeRows) >= NewRows(swapped, term.height)
      /\ term' = t
      /\ rowIndex' = index
      /\ port' = Resized(drawn, AllRows(t))
      /\ timers' = Append(WithCursor, "onResize")
      /\ UNCHANGED <<scrollDown, resizing, cursorAt>>

----------------------------------------------------------------------------
\* The user.

\* The wheel, a finger or the scroll bar: the browser reports it later.
UserScroll(top) ==
  /\ Counted
  /\ top \in 0 .. port.lastRowCount - port.window
  /\ top # port.scrollTop
  /\ port' = ScrollTo(port, top)
  /\ UNCHANGED <<term, rowIndex, timers, scrollDown, resizing, cursorAt>>

\* The mouse selects from a row, or from where the selection begins, to a row.
Select(anchor, focus, collapsed) ==
  /\ Counted
  /\ anchor \in ToSet(Shown(port)) \cup ({port.anchor} \ {Null})
  /\ focus \in ToSet(Shown(port)) \cup {TopFold, BottomFold}
  /\ collapsed => anchor = focus
  /\ port' = [port EXCEPT !.anchor = anchor, !.focus = focus, !.collapsed = collapsed]
  /\ UNCHANGED <<term, rowIndex, timers, scrollDown, resizing, cursorAt>>

\* With the mouse beyond the view while the button is down, the view moves.
AutoScroll(delta) ==
  LET top == port.scrollTop + delta
  IN  /\ Counted
      /\ ~port.collapsed
      /\ port' = scrollRowToTop(port, AllRows(term), top)
      /\ timers' = IF Redraws(port, AllRows(term), top)
                   THEN Schedule(timers, "redraw") ELSE timers
      /\ UNCHANGED <<term, rowIndex, scrollDown, resizing, cursorAt>>

\* The browser resizes the window and tells the scroll port later.
WindowResized(height) ==
  /\ Counted
  /\ height # port.window
  /\ LET sized == [port EXCEPT !.window = height]
     IN  port' = ScrollTo(sized, sized.scrollTop)
  /\ resizing' = TRUE
  /\ UNCHANGED <<term, rowIndex, timers, scrollDown, cursorAt>>

----------------------------------------------------------------------------
\* Events and timers.

\* The resize event.
onResize_ ==
  /\ ~port.failed /\ resizing
  /\ port' = Resized(port, AllRows(term))
  /\ timers' = Append(timers, "onResize")
  /\ resizing' = FALSE
  /\ UNCHANGED <<term, rowIndex, scrollDown, cursorAt, events>>

onSelectionChange ==
  /\ ~port.failed
  /\ port' = sync(port, rowIndex)
  /\ port' # port
  /\ UNCHANGED <<term, rowIndex, timers, scrollDown, resizing, cursorAt, events>>

\* The scroll event. It may be the first to tell of a new size.
onScroll_ ==
  LET arrived == [port EXCEPT !.scrolled = FALSE]
      isNew   == port.window # port.visibleRowCount
  IN  /\ ~port.failed /\ port.scrolled
      /\ port' = IF isNew THEN Resized(arrived, AllRows(term))
                          ELSE redraw_(arrived, AllRows(term), rowIndex)
      /\ timers' = Append(timers, IF isNew THEN "onResize" ELSE "onScroll")
      /\ UNCHANGED <<term, rowIndex, scrollDown, resizing, cursorAt, events>>

Sooner == IF scrollDown > 1 THEN scrollDown - 1 ELSE scrollDown

Fires(timer) ==
  /\ ~port.failed
  /\ timers # <<>> /\ Head(timers) = timer

RedrawTimer ==
  /\ Fires("redraw")
  /\ timers' = Tail(timers)
  /\ port' = redraw_(port, AllRows(term), rowIndex)
  /\ UNCHANGED <<term, rowIndex, resizing, cursorAt, events>>
  /\ scrollDown' = Sooner

InvalidateTimer ==
  /\ Fires("invalidate")
  /\ timers' = Tail(timers)
  /\ port' = invalidate(port, AllRows(term), rowIndex)
  /\ UNCHANGED <<term, rowIndex, resizing, cursorAt, events>>
  /\ scrollDown' = Sooner

syncCursorPosition_ ==
  /\ Fires("syncCursor")
  /\ timers' = Tail(timers)
  /\ cursorAt' = CursorPlace(term, port)
  /\ port' = CaretAtCursor(term, port)
  /\ UNCHANGED <<term, rowIndex, resizing, events>>
  /\ scrollDown' = Sooner

\* The terminal hears of scrolling.
TerminalOnScroll ==
  /\ Fires("onScroll")
  /\ timers' = Schedule(Tail(timers), "syncCursor")
  /\ UNCHANGED <<term, rowIndex, port, resizing, cursorAt, events>>
  /\ scrollDown' = Sooner

(***************************************************************************)
(* The terminal hears of a new size. It takes it over, and stays at the    *)
(* end of the rows if it was there. Then the scroll port is redrawn.       *)
(***************************************************************************)
TerminalOnResize(empty) ==
  LET t       == Realized(term, port.window, empty)
      index   == RealizedIndex(term, port.window, rowIndex)
      down    == NewRows(term, port.window) > 0 /\ Len(t.scrollback) > Len(term.scrollback)
      placed  == Schedule(Append(Tail(timers), "resized"), "syncCursor")
      redraws == Redraws(port, AllRows(t), RowCount(t) - port.visibleRowCount)
  IN  /\ Fires("onResize")
      /\ empty \in EmptyRows(term, port.window)
      /\ Cardinality(FreeRows) >= NewRows(term, port.window)
      /\ term' = t
      /\ rowIndex' = index
      /\ port' = IF port.isScrolledEnd THEN scrollRowToBottom(port, AllRows(t), RowCount(t))
                                       ELSE port
      /\ timers' = IF port.isScrolledEnd /\ redraws THEN Schedule(placed, "redraw") ELSE placed
      /\ scrollDown' = IF down /\ port.isScrolledEnd THEN Max({Sooner, Len(timers)}) ELSE Sooner
      /\ UNCHANGED <<resizing, cursorAt, events>>

ResizedTimer ==
  /\ Fires("resized")
  /\ timers' = Schedule(Tail(timers), "redraw")
  /\ UNCHANGED <<term, rowIndex, port, resizing, cursorAt, events>>
  /\ scrollDown' = Sooner

ScrollDownTimer ==
  LET top == RowCount(term) - port.visibleRowCount
  IN  /\ ~port.failed /\ scrollDown = 1
      /\ scrollDown' = 0
      /\ port' = scrollRowToBottom(port, AllRows(term), RowCount(term))
      /\ timers' = IF Redraws(port, AllRows(term), top)
                   THEN Schedule(timers, "redraw") ELSE timers
      /\ UNCHANGED <<term, rowIndex, resizing, cursorAt, events>>

----------------------------------------------------------------------------
Init ==
  /\ \E height \in Heights :
       LET rows == [i \in 1 .. height |-> i]
       IN  /\ term = [scrollback |-> <<>>, screens |-> [primary |-> rows, alternate |-> <<>>],
                      current |-> "primary", height |-> height, cursor |-> 0]
           /\ rowIndex = [row \in Ids |-> IF row <= height THEN row - 1 ELSE 0]
           /\ port = NewPort(rows, height)
  /\ timers = <<"syncCursor", "redraw">>
  /\ scrollDown = 0
  /\ resizing = FALSE
  /\ cursorAt = Null
  /\ events = 0

\* The page at rest: nothing is due.
Settled ==
  timers = <<>> /\ scrollDown = 0 /\ ~resizing /\ ~port.scrolled

(***************************************************************************)
(* The limits that Limited puts on the logs, the user and the window. The  *)
(* code does not enforce them, and the properties below are shown within   *)
(* them only (README, The terminal, says what TLC finds outside of them):  *)
(*  - the user does nothing while a redraw or a new size is due;           *)
(*  - a row that realizeHeight_ dropped has left the document before a row *)
(*    is appended, or the window gets a new size;                          *)
(*  - rows get other numbers only while nothing is due and the view is at  *)
(*    the end, and, but for a row that is inserted, nothing is selected;   *)
(*  - the rows that the last redraw fetched keep their numbers when a row  *)
(*    is inserted;                                                         *)
(*  - the scrollback is erased only while it is empty.                     *)
(***************************************************************************)
Resizing == resizing \/ ToSet(timers) \cap {"onResize", "resized", "redraw", "invalidate"} # {}

NoneDropped == ToSet(port.dom) \subseteq ToSet(AllRows(term)) \cup {TopFold, BottomFold}

AtRest == Settled /\ port.isScrolledEnd /\ NoneDropped

CacheTrue(index) == \A i \in DOMAIN port.cache : index[port.cache[i]] = i

\* Control functions after which all rows are drawn anew.
DrawAnew ==
  \/ \E from, to \in 0 .. term.height - 1, count \in 1 .. term.height : MoveRows(from, count, to)
  \/ (Limited => term.scrollback = <<>>) /\ ClearScrollback
  \/ \E empty \in 0 .. MaxRows : SetAlternateMode(empty)

Log ==
  \/ \E row \in 0 .. term.height - 1 : MoveCursor(row)
  \/ (Limited => NoneDropped) /\ AppendRow
  \/ (Limited => AtRest) /\ InsertRow /\ (Limited => CacheTrue(rowIndex'))
  \/ (Limited => AtRest /\ port.collapsed) /\ DrawAnew

User ==
  /\ Limited => ~Resizing
  /\ \/ \E top \in 0 .. MaxRows : UserScroll(top)
     \/ \E anchor \in Ids, focus \in Ids \cup {TopFold, BottomFold}, collapsed \in BOOLEAN :
          Select(anchor, focus, collapsed)
     \/ \E delta \in {-2, -1, 1, 2} : AutoScroll(delta)
     \/ (Limited => NoneDropped) /\ \E height \in Heights : WindowResized(height)

Browser ==
  \/ onResize_ \/ onSelectionChange \/ onScroll_
  \/ RedrawTimer \/ InvalidateTimer \/ syncCursorPosition_ \/ TerminalOnScroll
  \/ \E empty \in 0 .. MaxRows : TerminalOnResize(empty)
  \/ ResizedTimer \/ ScrollDownTimer

Next == Log \/ User \/ Browser

Spec == Init /\ [][Next]_vars

----------------------------------------------------------------------------
RowsInView ==
  SubSeq(AllRows(term), port.scrollTop + 1, port.scrollTop + port.visibleRowCount)

(***************************************************************************)
(* The properties below are about behaviours within the limits.            *)
(*                                                                         *)
(* Once every timer and event has come, in whatever order they came, the   *)
(* page shows what the terminal has: between the folds are the rows of     *)
(* the scroll position, each in its place and none twice, the cursor is in *)
(* its row, and drawing has thrown no exception ("the rows between the     *)
(* top and bottom folds are as they should be", drawVisibleRows_).         *)
(***************************************************************************)
TerminalShown ==
  /\ ~port.failed
  /\ Settled => Shown(port) = RowsInView /\ cursorAt = CursorPlace(term, port)

(***************************************************************************)
(* A view that was at the end of the rows is at the end when the page is   *)
(* at rest, however many rows were appended and whatever was redrawn       *)
(* meanwhile; one that the user has scrolled back is not taken for one at  *)
(* the end.                                                                *)
(***************************************************************************)
FollowsLogs ==
  Settled => (port.isScrolledEnd <=> port.scrollTop + port.visibleRowCount >= port.lastRowCount)
             /\ (port.isScrolledEnd => port.lastRowCount = RowCount(term))

Drawn == RedrawTimer \/ onScroll_

(***************************************************************************)
(* Drawing leaves the rows alone in which the selection begins or ends,    *)
(* in the view, above or below it, so that the browser does not lose it    *)
(* (redraw_: "the rows that start or end the current selection are not     *)
(* touched in any way").                                                   *)
(***************************************************************************)
SelectionUndisturbed ==
  [][Drawn /\ ~port.collapsed =>
       /\ port.anchor \in ToSet(AllRows(term)) => port'.anchor = port.anchor
       /\ port.focus \in ToSet(AllRows(term)) => port'.focus = port.focus]_vars
=============================================================================
