---------------------------- MODULE TerminalDisplay ----------------------------
(***************************************************************************)
(* What the online page shows of the logs: its terminal prints every log   *)
(* and a new line after it, and what a terminal would send to its host:    *)
(* pasted texts, reports of the mouse and of the focus. It follows the     *)
(* size of the window. The logs are whatever the monitored hosts wrote, so *)
(* that the control functions in them are executed. Keys do nothing: the   *)
(* page has a handler for them but never installs the keyboard.            *)
(***************************************************************************)
EXTENDS HtermVT

CONSTANTS
  Logs,         \* the texts that come as logs
  Pasted,       \* the texts that are pasted
  Sizes,        \* the sizes the window takes: columns and rows
  FirstSizes,   \* those it has when the page is loaded
  MaxEvents     \* bound on logs, pastes, clicks and new sizes

ASSUME DisplayAssumption ==
  /\ Logs \subseteq Seq(STRING) /\ Pasted \subseteq Seq(STRING)
  /\ Sizes \subseteq Int \X Int
  /\ FirstSizes \subseteq (Nat \ {0}) \X (Nat \ {0})
  /\ MaxEvents \in Nat

VARIABLES
  t,            \* the terminal
  events        \* how many things have happened

vars == <<t, events>>

NewLine == <<"CR", "LF">>

println(u, text) == interpret(u, text \o NewLine)

Happens(u) == events < MaxEvents /\ t' = u /\ events' = events + 1

\* A log, or one line of it: socket.onmessage calls println for each.
Println(log) == Happens(println(t, log))

Paste(text) == Happens(onPasteData_(t, text))

Mouse(type, altKey, isCollapsed) == Happens(onMouse_(t, type, altKey, isCollapsed))

Focus(focused) == Happens(onFocusChange_(t, focused))

\* A window without room for a row or a column changes nothing.
onResize_(size) ==
  /\ size[1] > 0 /\ size[2] > 0
  /\ Happens(realizeSize_(t, size[1], size[2]))

StringFunctions == {"OSC", "title", "skip"}

\* 20 seconds pass while a string function waits for its end.
StringTimeLimit ==
  /\ t.vt.started /\ ~t.vt.late
  /\ t.vt.func \in StringFunctions
  /\ t' = [t EXCEPT !.vt.late = TRUE]
  /\ UNCHANGED events

Init ==
  /\ \E size \in FirstSizes : t = NewTerminal(size[1], size[2], NewParser)
  /\ events = 0

Next ==
  \/ \E log \in Logs : Println(log)
  \/ \E text \in Pasted : Paste(text)
  \/ \E type \in DOMAIN ButtonSGR, altKey, isCollapsed \in BOOLEAN :
       Mouse(type, altKey, isCollapsed)
  \/ \E focused \in BOOLEAN : Focus(focused)
  \/ \E size \in Sizes : onResize_(size)
  \/ StringTimeLimit

Spec == Init /\ [][Next]_vars

----------------------------------------------------------------------------
\* The shape of the terminal. The screen that is shown has the size of the
\* terminal, and the cursor, the scroll region and the tab stops are on it.
TypeOK ==
  /\ events \in 0 .. MaxEvents
  /\ Height(Screen(t)) = t.height /\ Screen(t).columnCount = t.width
  /\ Row(t) \in 0 .. t.height - 1 /\ Column(t) \in 0 .. t.width - 1
  /\ getVTScrollTop(t) \in 0 .. getVTScrollBottom(t)
  /\ getVTScrollBottom(t) \in 0 .. t.height - 1
  /\ t.tabStops \subseteq 0 .. t.width - 1
  /\ \A row \in ToSet(AllRows(t)) : row.nodes # <<>>
  /\ t.vt.buf = <<>>

NextLogs == IF events < MaxEvents THEN Logs ELSE {}

Wraps(log) == "WIDE" \in ToSet(log)

\* The terminals on the way when a log comes one character at a time.
ReadNext(us, ch) == Append(us, interpret(Last(us), <<ch>>))

OneByOne(log) == Iterate(LAMBDA us, n : ReadNext(us, log[n]), <<t>>, Len(log))

\* What holds of the terminal now and wherever the parser is done with a
\* control function, or with a character of a text, of the log that may come.
\* Wide characters in insert mode are left out: at the end of a row the cursor
\* stops in the middle of one, which the next character then splits.
OnTheWay(Holds(_)) ==
  /\ Holds(t)
  /\ \A log \in {l \in NextLogs : Wraps(l) => "insertMode" \notin t.options} :
       \A u \in ToSet(OneByOne(log)) : u.vt.func = "unknown" => Holds(u)

(***************************************************************************)
(* The node and the offset where the next character goes are the place     *)
(* where the row and the column of the cursor are. The screen keeps them   *)
(* apart and every operation moves both on its own; once they differ, text *)
(* is written to another place than the one the user sees. It does not     *)
(* hold of every log, and is checked for logs that leave out one case:     *)
(* insertLines with the cursor below the scroll region moves the cursor's  *)
(* row into the region, while the cursor keeps the number of the place     *)
(* where the row was (hterm_all-1.91.js:16866-16881).                      *)
(***************************************************************************)
InStep(screen) ==
  /\ screen.rowNode = screen.row + 1
  /\ screen.node \in DOMAIN CursorRow(screen).nodes
  /\ screen.column = SpanWidth(CursorRow(screen).nodes, 1, screen.node - 1) + screen.offset

CursorInRow == OnTheWay(LAMBDA u : InStep(Screen(u)))

(***************************************************************************)
(* "Each row must have a rowIndex property": the scroll port finds rows by *)
(* it. Rows shown and scrolled off are numbered by their place, however    *)
(* they were moved, scrolled, taken back or swapped with the other screen. *)
(***************************************************************************)
RowsNumbered ==
  OnTheWay(LAMBDA u : \A i \in DOMAIN AllRows(u) : AllRows(u)[i].rowIndex = i - 1)

(***************************************************************************)
(* A row as an array of cells, the way a terminal is understood. A blank   *)
(* shows only its background, the lines through it and its picture.        *)
(***************************************************************************)
Visible(attrs, ch) ==
  LET flags == attrs.flags \ {"wc", "clone"}
  IN  IF ch # " " THEN [attrs EXCEPT !.flags = flags]
      ELSE [DefaultAttributes EXCEPT
              !.backgroundSource = IF "inverse" \in flags THEN attrs.foregroundSource
                                   ELSE attrs.backgroundSource,
              !.underline = attrs.underline,
              !.flags = flags \cap {"inverse", "strikethrough", "tile"}]

NodeCells(node) ==
  [i \in DOMAIN node.text |-> <<node.text[i], Visible(node.style, node.text[i])>>]

Cells(nodes) == FlattenSeq([i \in DOMAIN nodes |-> NodeCells(nodes[i])])

BlankCells(count) == NodeCells(TextNode(Blanks(count)))

CursorCells(screen) == Cells(CursorRow(screen).nodes)

UpTo(cells, column) ==
  IF column <= Len(cells) THEN SubSeq(cells, 1, column)
  ELSE cells \o BlankCells(column - Len(cells))

From(cells, column) == SubSeq(cells, column + 1, Len(cells))

NewCells(screen, str) == NodeCells(createContainer(screen.textAttributes, str))

\* Texts tried at the cursor, no longer than what is left of the row.
Tried(screen) ==
  {str \in {<<"x">>, <<"x", "y">>, <<" ">>} : Len(str) <= screen.columnCount - screen.column}

(***************************************************************************)
(* However the nodes of a row have been split, joined and emptied, a text  *)
(* that is inserted or overwrites another does to the cells of the row     *)
(* what it does to an array of cells, in the current style, and so does a  *)
(* deletion; and the cursor ends where it should. Rows with wide           *)
(* characters are left out: halving one has no counterpart in an array.    *)
(***************************************************************************)
WritesCells(screen) ==
  LET cells  == CursorCells(screen)
      column == screen.column
  IN  /\ \A str \in Tried(screen) :
           LET over     == overwriteString(screen, str)
               inserted == insertString(screen, str)
           IN  /\ CursorCells(over) =
                    UpTo(cells, column) \o NewCells(screen, str)
                      \o From(cells, column + Len(str))
               /\ CursorCells(inserted) =
                    UpTo(cells, column) \o NewCells(screen, str) \o From(cells, column)
               /\ InStep(over) /\ InStep(inserted)
               /\ over.column = column + Len(str)
      /\ \A count \in 1 .. screen.columnCount :
           LET deleted == ScreenDeleteChars(screen, count)
               taken   == DeletedCount(screen, count)
           IN  /\ CursorCells(deleted) =
                    UpTo(cells, Min({column, Len(cells)})) \o From(cells, column + taken)
               /\ InStep(deleted)

NarrowRow(screen) == "WIDE" \notin ToSet(RowText(CursorRow(screen)))

CellsWritten ==
  OnTheWay(LAMBDA u : NarrowRow(Screen(u)) => WritesCells(Screen(u)))

(***************************************************************************)
(* What is shown does not depend on how the text was cut into pieces: a    *)
(* control function may begin in one message and end in the next. Answers  *)
(* to queries are left out, which drop the rest of the piece they are in,  *)
(* and wide characters that do not fit in a row without wraparound.        *)
(***************************************************************************)
Answers == {"c", "n", "Z"}

Asks(log) ==
  \/ ToSet(log) \cap Answers # {}
  \/ \E i \in 2 .. Len(log) : log[i - 1] = ";" /\ log[i] = "?"

\* Everything about a terminal but its rows, its cursor and its parser.
Settings(u) ==
  <<u.charsets, u.encoding, u.colors, u.title, u.cursorShape, u.options, u.tabStops,
    u.top, u.bottom>>

\* What a string function has gathered is of no use when it has ended.
ParserState(u) ==
  IF u.vt.func \in StringFunctions THEN u.vt
  ELSE [u.vt EXCEPT !.started = FALSE, !.string = <<>>]

RowCells(u) == [i \in DOMAIN AllRows(u) |-> Cells(AllRows(u)[i].nodes)]

Display(u) == <<ParserState(u), Settings(u), RowCells(u), Row(u), Column(u)>>

\* A text whole, and cut in two at every place.
Pieces(log) ==
  {<<log>>} \cup
  {<<SubSeq(log, 1, cut), SubSeq(log, cut + 1, Len(log))>> : cut \in 1 .. Len(log) - 1}

ChunksDoNotMatter ==
  \A log \in {l \in NextLogs : ~Asks(l)} :
    ~t.vt.late /\ (Wraps(log) => "wraparound" \in t.options) =>
      Cardinality({Display(FoldLeft(interpret, t, pieces)) : pieces \in Pieces(log)}) = 1

(***************************************************************************)
(* The colours of the page are those of the screen that is shown. They are *)
(* set one by one, by every change of the palette, by both resets and when *)
(* the screens are swapped, and a place forgotten keeps the colour of the  *)
(* other screen, in rows that were written long ago.                       *)
(***************************************************************************)
PaletteShown ==
  OnTheWay(LAMBDA u : \A i \in DOMAIN u.colors.css.palette \cup DOMAIN Overrides(u) :
                        ShownColor(u, i) = getColorPalette(u, i))

(***************************************************************************)
(* "Perform a full reset to the default values": what a log shows after a  *)
(* reset that drops the scrollback too is what it shows on a terminal just *)
(* made, whatever was done to either screen before, with these exceptions. *)
(* A tile (CSI 0 ; n z) that was not ended on one of the screens survives  *)
(* the reset (TextAttributes.reset: "It also doesn't affect the tile data, *)
(* it's not meant to", hterm_all-1.91.js:18892): the reset fills that      *)
(* screen with tiles, and the next log is written in them. So do the       *)
(* encoding and which screen is shown; these terminals are left out        *)
(* (Resettable). The foreground and background survive too, and are not    *)
(* compared, nor is the cursor, hidden at first and visible afterwards.    *)
(***************************************************************************)
Shown(u) ==
  [rows |-> RowCells(u),
   row |-> Row(u), column |-> Column(u), tabStops |-> u.tabStops,
   top |-> u.top, bottom |-> u.bottom, charsets |-> u.charsets,
   palette |-> {<<i, ShownColor(u, i)>> : i \in DOMAIN u.colors.css.palette}
                 \ {<<i, stockPalette[i]>> : i \in DOMAIN stockPalette},
   options |-> u.options \ {"cursorVisible"}]

FullResetText == <<"ESC", "c">> \o CSI \o <<"3", "J">>

\* What a full reset takes back: all but these.
Resettable(u) ==
  /\ u.current = "primary" /\ u.encoding = "utf-8" /\ u.vt.func = "unknown"
  /\ \A name \in DOMAIN u.screens : "tile" \notin u.screens[name].textAttributes.flags

FullReset ==
  Resettable(t) =>
    \A log \in NextLogs :
      Cardinality({Shown(FoldLeft(interpret, start[1], start[2])) :
                     start \in {<<t, <<FullResetText, log>>>>,
                                <<NewTerminal(t.width, t.height, NewParser), <<log>>>>}}) = 1

----------------------------------------------------------------------------
\* The texts of rows that have some.
AddText(texts, text) == IF text = <<>> THEN texts ELSE Append(texts, text)

Texts(rows) ==
  Iterate(LAMBDA texts, n : AddText(texts, RowText(rows[n])), <<>>, Len(rows))

(***************************************************************************)
(* A new size of the window loses no text and keeps the order of the rows, *)
(* whether rows are dropped at the bottom, scrolled off or taken back.     *)
(***************************************************************************)
ResizeKeepsText ==
  [][\A size \in Sizes : onResize_(size) => Texts(AllRows(t')) = Texts(AllRows(t))]_vars

\* The cursor is at the start of an empty row, with nothing below it, and no
\* mode, region or unfinished function is in the way.
FreshLine ==
  /\ Column(t) = 0 /\ t.top = Null /\ t.bottom = Null
  /\ \A i \in Row(t) + 1 .. t.height : RowText(Screen(t).rowsArray[i]) = <<>>
  /\ "wraparound" \in t.options /\ t.vt.func = "unknown"

Plain(log) == ToSet(log) \cap (CC1Codes \cup {"WIDE"}) = {}

Place(u) == Len(u.scrollback) + Row(u)

(***************************************************************************)
(* A log without control characters that starts a line is shown whole: in  *)
(* as many rows as it takes, each marked to go on in the next, and the     *)
(* next log starts the line after. The rows above stay as they were, on    *)
(* the screen or scrolled off. Its characters are those of the character   *)
(* set that an earlier log may have chosen.                                *)
(***************************************************************************)
ShowsWhole(u, before, log) ==
  LET place == Place(before)
      rows  == AllRows(u)
      count == Max({1, (Len(log) + u.width - 1) \div u.width})
  IN  /\ SubSeq(rows, 1, place) = SubSeq(AllRows(before), 1, place)
      /\ \A i \in 1 .. count :
           /\ RowText(rows[place + i]) =
                SubSeq(log, (i - 1) * u.width + 1, Min({i * u.width, Len(log)}))
           /\ rows[place + i].overflow = (i < count)
      /\ Place(u) = place + count /\ Column(u) = 0

LogShownWhole ==
  [][\A log \in Logs : FreshLine /\ Plain(log) /\ Println(log) =>
       ShowsWhole(t', t, Translated(t.charsets, t.encoding, log))]_vars

=============================================================================
