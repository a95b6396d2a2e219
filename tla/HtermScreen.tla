---------------------------- MODULE HtermScreen ----------------------------
(***************************************************************************)
(* The screen of the terminal in which the online page shows the logs      *)
(* (hterm.Screen, with the text attributes and character widths it uses).  *)
(*                                                                         *)
(* A row is not an array of cells but a list of DOM nodes, each a text     *)
(* with one style, and the screen keeps the cursor twice: as a row and a   *)
(* column, and as a node and an offset in it. Every operation of the       *)
(* class is an operator from a screen to a screen.                         *)
(*                                                                         *)
(* A character is a string and a text a sequence of them. "WIDE" stands    *)
(* for those two columns wide, every other one takes one column;           *)
(* combining characters and narrow characters outside ASCII are left out.  *)
(***************************************************************************)
EXTENDS HtermCharsets

----------------------------------------------------------------------------
\* A loop of n passes, each told its number.
Iterate(Pass(_, _), first, n) ==
  LET done[i \in 0 .. n] == IF i = 0 THEN first ELSE Pass(done[i - 1], i)
  IN  done[n]

----------------------------------------------------------------------------
\* Widths of texts, and their parts.

strWidth(str) == Len(str) + Cardinality({i \in DOMAIN str : str[i] = "WIDE"})

\* The longest beginning of a text that fits in so many columns.
Beginning(str, width) ==
  LET fits == {n \in 0 .. Len(str) : strWidth(SubSeq(str, 1, n)) <= width}
  IN  SubSeq(str, 1, IF fits = {} THEN 0 ELSE Max(fits))

\* What is left of a text when the beginning that fits is taken off.
Remainder(str, width) == SubSeq(str, Len(Beginning(str, width)) + 1, Len(str))

\* A text cut from one column on, so many columns wide.
substr(str, start, width) == Beginning(Remainder(str, start), width)

Blanks(count) == [i \in 1 .. count |-> " "]

\* print() writes wide characters one at a time, in nodes of their own, and
\* the narrow ones between them together.
AddToLast(pieces, ch) == Append(Front(pieces), Append(Last(pieces), ch))

AddPiece(pieces, str, n) ==
  IF n > 1 /\ "WIDE" \notin {str[n - 1], str[n]} THEN AddToLast(pieces, str[n])
                                                 ELSE Append(pieces, <<str[n]>>)

splitWidecharString(str) ==
  IF str = <<>> THEN <<str>>
  ELSE Iterate(LAMBDA pieces, n : AddPiece(pieces, str, n), <<>>, Len(str))

----------------------------------------------------------------------------
\* Text attributes. A colour is a number: a place in the palette, a colour
\* given by its components, or SrcDefault.

SrcDefault == -1

DefaultAttributes ==
  [foregroundSource |-> SrcDefault, backgroundSource |-> SrcDefault,
   underlineSource |-> SrcDefault, underline |-> "", flags |-> {}]

\* A reset of the attributes keeps the tile.
ResetAttributes(attrs) == [DefaultAttributes EXCEPT !.flags = attrs.flags \cap {"tile"}]

isDefault(attrs) ==
  [attrs EXCEPT !.underlineSource = SrcDefault] = DefaultAttributes

\* The colours a style sets: inverse text sets both, invisible text takes the
\* colour of its background, set or not.
SetsBackground(attrs) ==
  attrs.backgroundSource # SrcDefault \/ "inverse" \in attrs.flags

SetsForeground(attrs) ==
  IF "invisible" \in attrs.flags
  THEN SetsBackground(attrs)
  ELSE \/ attrs.foregroundSource # SrcDefault
       \/ attrs.flags \cap {"faint", "inverse"} # {}

\* Bold text takes the bright one of the first eight colours.
syncColors(attrs) ==
  IF "bold" \in attrs.flags /\ attrs.foregroundSource \in 0 .. 7
  THEN [attrs EXCEPT !.foregroundSource = @ + 8]
  ELSE attrs

\* A node: a text node when the attributes are the default ones, else a span
\* with their style.
createContainer(attrs, text) == [text |-> text, style |-> attrs]

TextNode(text) == createContainer(DefaultAttributes, text)

IsTextNode(node) == isDefault(node.style)

nodeWidth(node) == strWidth(node.text)

\* A clone of a span keeps its style but none of the properties hterm had put
\* on it, so that nothing is ever joined to it.
CloneStyle(style) ==
  IF isDefault(style) THEN style
  ELSE [style EXCEPT !.flags = (@ \ {"wc"}) \cup {"clone"}]

SameStyleFlags == {"bold", "blink", "italic", "strikethrough", "uri"}

\* Mutant: colours are not compared.
matchesContainer_AnyColour(attrs, node) ==
  IF IsTextNode(node) THEN isDefault(attrs)
  ELSE /\ (attrs.flags \cup node.style.flags) \cap {"wc", "tile", "clone"} = {}
       /\ attrs.flags \cap SameStyleFlags = node.style.flags \cap SameStyleFlags
       /\ attrs.underline = node.style.underline

\* Can text with these attributes be added to the node?
matchesContainer(attrs, node) ==
  IF IsTextNode(node) THEN isDefault(attrs)
  ELSE /\ (attrs.flags \cup node.style.flags) \cap {"wc", "tile", "clone"} = {}
       /\ \A style \in {attrs, node.style} :
            /\ ~SetsForeground(style)
            /\ ~SetsBackground(style)
            /\ style.underlineSource = SrcDefault
       /\ attrs.flags \cap SameStyleFlags = node.style.flags \cap SameStyleFlags
       /\ attrs.underline = node.style.underline

----------------------------------------------------------------------------
\* Rows and the cursor.

NewRow(rowIndex) ==
  [nodes |-> <<TextNode(<<>>)>>, overflow |-> FALSE, rowIndex |-> rowIndex]

RowText(row) == FlattenSeq([i \in DOMAIN row.nodes |-> row.nodes[i].text])

RowWidth(row) == strWidth(RowText(row))

\* The columns of the nodes first .. last.
SpanWidth(nodes, first, last) ==
  strWidth(FlattenSeq([i \in 1 .. last - first + 1 |-> nodes[first + i - 1].text]))

(***************************************************************************)
(* A screen. row and column are cursorPosition, with its overflow flag;    *)
(* rowNode and node are cursorRowNode_ and cursorNode_: the place of the   *)
(* row in rowsArray, from 1, and of the node in the row. rowNode is 0 when *)
(* the cursor's row has been taken off the screen.                         *)
(***************************************************************************)
NewScreen ==
  [rowsArray |-> <<>>, columnCount |-> 0, textAttributes |-> DefaultAttributes,
   row |-> 0, column |-> 0, overflow |-> FALSE,
   rowNode |-> 0, node |-> 0, offset |-> 0,
   saved |-> [row |-> 0, column |-> 0, overflow |-> FALSE,
              textAttributes |-> DefaultAttributes, charsets |-> NewCharsets]]

Height(screen) == Len(screen.rowsArray)

CursorRow(screen) == screen.rowsArray[screen.rowNode]

CursorNode(screen) == CursorRow(screen).nodes[screen.node]

WithNodes(screen, nodes) ==
  [screen EXCEPT !.rowsArray[screen.rowNode].nodes = nodes]

\* Rows taken off the screen's top and bottom, and put at its top.
shiftRows(screen, count) ==
  [screen EXCEPT !.rowsArray = SubSeq(@, count + 1, Len(@)),
                 !.rowNode = IF @ > count THEN @ - count ELSE 0]

popRows(screen, count) ==
  [screen EXCEPT !.rowsArray = SubSeq(@, 1, Len(@) - count),
                 !.rowNode = IF @ > Height(screen) - count THEN 0 ELSE @]

unshiftRows(screen, rows) ==
  [screen EXCEPT !.rowsArray = rows \o @,
                 !.rowNode = IF @ = 0 THEN 0 ELSE @ + Len(rows)]

insertRow(screen, index, row) ==
  [screen EXCEPT !.rowsArray = InsertAt(@, index + 1, row),
                 !.rowNode = IF @ > index THEN @ + 1 ELSE @]

Clamp(low, n, high) == IF n < low THEN low ELSE IF n > high THEN high ELSE n

\* The cursor on a row of which the node first begins at the column start.
SeekFrom(screen, row, column, first, start) ==
  LET nodes    == screen.rowsArray[row + 1].nodes
      Width(i) == SpanWidth(nodes, first, i)
      node     == Min({i \in first .. Len(nodes) : i = Len(nodes) \/ Width(i) > column - start})
  IN  [screen EXCEPT
         !.row = row, !.column = column, !.overflow = FALSE,
         !.rowNode = row + 1, !.node = node, !.offset = column - start - Width(node - 1)]

PlaceOn(screen, row, column) ==
  IF screen.rowNode = row + 1 /\ column >= screen.column - screen.offset
  THEN SeekFrom(screen, row, column, screen.node, screen.column - screen.offset)
  ELSE SeekFrom(screen, row, column, 1, 0)

(***************************************************************************)
(* The cursor goes to a row and a column, and to the first node there that *)
(* reaches beyond the column, or the last one. On the row it is on, the    *)
(* search starts at the cursor's node when the column is not before it.    *)
(***************************************************************************)
ScreenSetCursorPosition(screen, toRow, toColumn) ==
  IF screen.rowsArray = <<>> THEN screen
  ELSE PlaceOn(screen, Clamp(0, toRow, Height(screen) - 1),
               Clamp(0, toColumn, screen.columnCount - 1))

setColumnCount(screen, count) ==
  LET resized == [screen EXCEPT !.columnCount = count]
  IN  IF screen.column >= count
      THEN ScreenSetCursorPosition(resized, screen.row, count - 1)
      ELSE resized

\* A row is emptied, or filled with blanks in the current style.
ClearedRow(screen, row) ==
  LET attrs == screen.textAttributes
      text  == IF isDefault(attrs) THEN <<>> ELSE Blanks(screen.columnCount)
      style == [attrs EXCEPT !.flags = @ \ {"inverse"}]
  IN  [row EXCEPT !.nodes = <<createContainer(style, text)>>, !.overflow = FALSE]

clearCursorRow(screen) ==
  [screen EXCEPT !.rowsArray[screen.rowNode] = ClearedRow(screen, @),
                 !.column = 0, !.overflow = FALSE, !.node = 1, !.offset = 0]

\* Rows are cleared one by one; the cursor goes along, to the last of them.
ClearedRows(screen, rows, last) ==
  IF rows = {} THEN screen
  ELSE [screen EXCEPT
          !.rowsArray = [i \in DOMAIN @ |-> IF i - 1 \in rows THEN ClearedRow(screen, @[i])
                                                           ELSE @[i]],
          !.row = last, !.column = 0, !.overflow = FALSE,
          !.rowNode = last + 1, !.node = 1, !.offset = 0]

\* All rows of a screen are cleared, the cursor goes to its first cell.
clearHome(screen) ==
  ScreenSetCursorPosition(
    ClearedRows(screen, 0 .. Height(screen) - 1, Height(screen) - 1), 0, 0)

commitLineOverflow(screen) ==
  [screen EXCEPT !.rowsArray[screen.rowNode].overflow = TRUE]

----------------------------------------------------------------------------
\* Writing and deleting at the cursor.

\* What is left of the row when it is cut behind the cursor.
CutAtCursor(screen) ==
  LET node == CursorNode(screen)
      kept == IF screen.offset < nodeWidth(node) - 1
              THEN [node EXCEPT !.text = Beginning(@, screen.offset + 1)]
              ELSE node
  IN  WithNodes(screen, Append(SubSeq(CursorRow(screen).nodes, 1, screen.node - 1), kept))

\* The cursor of a row that has been cut goes back where it was.
ClipEnds(screen, clipped, beyond) ==
  CASE beyond -> [clipped EXCEPT !.overflow = TRUE]
    [] ~beyond /\ clipped = screen -> screen
    [] OTHER -> ScreenSetCursorPosition(clipped, screen.row, screen.column)

(***************************************************************************)
(* The current row is cut at the last column. A cursor that was written    *)
(* past it goes back on it, with the overflow flag that makes the next     *)
(* character wrap.                                                         *)
(***************************************************************************)
maybeClipCurrentRow(screen) ==
  LET last   == screen.columnCount - 1
      beyond == screen.column > last
      tooFar == RowWidth(CursorRow(screen)) > screen.columnCount
      onLast == IF tooFar \/ beyond THEN ScreenSetCursorPosition(screen, screen.row, last)
                                   ELSE screen
  IN  ClipEnds(screen, IF tooFar THEN CutAtCursor(onLast) ELSE onLast, beyond)

\* Can blanks be added to the node without being seen?
TakesBlanks(node) ==
  \/ IsTextNode(node)
  \/ /\ node.style.flags \cap {"wc", "tile", "clone", "strikethrough"} = {}
     /\ node.style.underline = ""
     /\ ~SetsBackground(node.style)

(***************************************************************************)
(* The cursor may stand beyond the end of its node, when that is the last  *)
(* of the row: the gap is filled with blanks before a text is inserted,    *)
(* in the node itself or in a text node after it.                          *)
(***************************************************************************)
FillGap(screen) ==
  LET node  == CursorNode(screen)
      gap   == screen.offset - nodeWidth(node)
      nodes == CursorRow(screen).nodes
  IN  IF gap <= 0 THEN screen
      ELSE IF TakesBlanks(node)
           THEN [screen EXCEPT
                   !.rowsArray[screen.rowNode].nodes[screen.node].text = @ \o Blanks(gap)]
           ELSE [WithNodes(screen, InsertAt(nodes, screen.node + 1, TextNode(Blanks(gap))))
                   EXCEPT !.node = @ + 1, !.offset = gap]

\* The screen with a new list of nodes in its current row and the cursor in
\* one of them.
PutAt(screen, nodes, node, offset) ==
  [WithNodes(screen, nodes) EXCEPT !.node = node, !.offset = offset]

\* A text with the wc flag is one wide character, in a node of its own.
PrintAttributes(screen, str) ==
  IF str = <<"WIDE">> THEN [screen.textAttributes EXCEPT !.flags = @ \cup {"wc"}]
                   ELSE screen.textAttributes

\* The new node after the left half, or at the end of the row without one.
PutBetween(screen, newNode, width, left, half, right) ==
  IF half = <<>> THEN PutAt(screen, left \o right \o <<newNode>>, Len(left \o right) + 1, width)
  ELSE PutAt(screen, left \o half \o <<newNode>> \o right, Len(left) + 2, width)

(***************************************************************************)
(* splitNode_ and the node put between the halves. When the offset is      *)
(* inside a wide character the first half is empty and the node is         *)
(* removed: insertBefore then finds no next sibling and the new node goes  *)
(* to the end of the row.                                                  *)
(***************************************************************************)
splitAndInsert(screen, newNode, width) ==
  LET node  == CursorNode(screen)
      begin == Beginning(node.text, screen.offset)
      end   == Remainder(node.text, screen.offset)
  IN  PutBetween(screen, newNode, width,
        SubSeq(CursorRow(screen).nodes, 1, screen.node - 1),
        IF begin = <<>> THEN <<>> ELSE <<[node EXCEPT !.text = begin]>>,
        (IF end = <<>> THEN <<>> ELSE <<createContainer(CloneStyle(node.style), end)>>)
          \o SubSeq(CursorRow(screen).nodes, screen.node + 1, Len(CursorRow(screen).nodes)))

\* A new node next to the cursor's, unless its neighbour has the same style.
InsertBeside(screen, nodes, n, new, width) ==
  CASE screen.offset = 0 ->
         IF n > 1 /\ matchesContainer(new.style, nodes[n - 1])
         THEN PutAt(screen, [nodes EXCEPT ![n - 1].text = @ \o new.text],
                    n - 1, nodeWidth(nodes[n - 1]) + width)
         ELSE PutAt(screen, InsertAt(nodes, n, new), n, width)
    [] screen.offset > 0 /\ screen.offset >= nodeWidth(nodes[n]) ->
         IF n < Len(nodes) /\ matchesContainer(new.style, nodes[n + 1])
         THEN PutAt(screen, [nodes EXCEPT ![n + 1].text = new.text \o @], n + 1, width)
         ELSE PutAt(screen, InsertAt(nodes, n + 1, new), n + 1, width)
    [] OTHER -> splitAndInsert(screen, new, width)

\* The text goes into a row that has blanks up to the cursor.
insertAtCursor(screen, nodes, n, new, width) ==
  IF matchesContainer(new.style, nodes[n])
  THEN PutAt(screen,
             [nodes EXCEPT ![n].text =
                Beginning(@, screen.offset) \o new.text \o Remainder(@, screen.offset)],
             n, screen.offset + width)
  ELSE InsertBeside(screen, nodes, n, new, width)

insertFilled(screen, new, width) ==
  insertAtCursor(screen, CursorRow(screen).nodes, screen.node, new, width)

(***************************************************************************)
(* A text is inserted at the cursor: into its node, at the end of the node *)
(* before or at the start of the node after when the styles match, else in *)
(* a new node between them or between the halves of a split node.          *)
(***************************************************************************)
insertString(screen, str) ==
  insertFilled([FillGap(screen) EXCEPT !.column = @ + strWidth(str),
                                       !.rowsArray[screen.rowNode].overflow = FALSE],
               createContainer(PrintAttributes(screen, str), str), strWidth(str))

(***************************************************************************)
(* The deletion walks from the cursor's node to the right. A wide          *)
(* character of which one column is deleted leaves a blank in its place;   *)
(* an emptied node is removed unless it is the cursor's.                   *)
(* at is the node the walk has come to, and count what is left to delete.  *)
(***************************************************************************)
Walk(screen, at, offset, count) ==
  [screen |-> screen, at |-> at, offset |-> offset, count |-> count]

\* On to the next node, which takes the place of an emptied one.
DeleteOn(screen, nodes, at, cursor, count) ==
  IF nodes[at].text = <<>> /\ at # cursor
  THEN Walk(PutAt(screen, RemoveAt(nodes, at), cursor, screen.offset), at, 0, count)
  ELSE Walk(PutAt(screen, nodes, cursor, screen.offset), at + 1, 0, count)

\* The blank comes before the emptied node when its second column is deleted.
HalveWide(screen, nodes, at, offset, count) ==
  LET blank == createContainer(screen.textAttributes, <<" ">>)
      moves == offset > 0 /\ screen.node >= at
  IN  DeleteOn(screen,
               InsertAt([nodes EXCEPT ![at].text = <<>>], IF offset > 0 THEN at ELSE at + 1, blank),
               IF offset > 0 THEN at + 1 ELSE at,
               IF moves THEN screen.node + 1 ELSE screen.node, count)

DeleteIn(screen, nodes, at, offset, count, left) ==
  LET width  == nodeWidth(nodes[at])
      halved == /\ "wc" \in nodes[at].style.flags
                /\ offset < width
                /\ \/ left # <<>> /\ strWidth(left) = width
                   \/ left = <<>> /\ offset = 1
  IN  IF halved THEN HalveWide(screen, nodes, at, offset, count - 1)
      ELSE DeleteOn(screen, [nodes EXCEPT ![at].text = left], at, screen.node,
                    count - (width - strWidth(left)))

DeleteAt(screen, nodes, at, offset, count) ==
  DeleteIn(screen, nodes, at, offset, count,
           Beginning(nodes[at].text, offset) \o Remainder(nodes[at].text, offset + count))

DeleteNext(walk) ==
  LET nodes == CursorRow(walk.screen).nodes
  IN  IF walk.at > Len(nodes) \/ walk.count <= 0 THEN walk
      ELSE DeleteAt(walk.screen, nodes, walk.at, walk.offset, walk.count)

\* No walk takes more steps than there are nodes.
DeleteFrom(screen, at, offset, count) ==
  Iterate(LAMBDA walk, n : DeleteNext(walk), Walk(screen, at, offset, count),
          Len(CursorRow(screen).nodes) + 1).screen

\* Mutant: the cursor stays in a span that the deletion emptied.
leaveEmptySpan_Stays(screen) == screen

\* A span the deletion emptied is removed and the cursor goes to a neighbour.
leaveEmptySpan(screen) ==
  LET nodes  == CursorRow(screen).nodes
      n      == screen.node
      others == RemoveAt(nodes, n)
  IN  IF IsTextNode(nodes[n]) \/ nodes[n].text # <<>> THEN screen
      ELSE CASE n > 1 -> PutAt(screen, others, n - 1, nodeWidth(nodes[n - 1]))
             [] n = 1 /\ Len(nodes) > 1 -> PutAt(screen, others, 1, 0)
             [] OTHER -> PutAt(screen, <<TextNode(<<>>)>>, 1, 0)

\* How many columns a deletion takes: none beyond the last column.
DeletedCount(screen, count) == Min({count, screen.columnCount - screen.column})

ScreenDeleteChars(screen, count) ==
  LET deleted == DeletedCount(screen, count)
  IN  IF deleted = 0 THEN screen
      ELSE leaveEmptySpan(DeleteFrom(screen, screen.node, screen.offset, deleted))

\* A text replaces what is at the cursor. Nothing is changed but the cursor
\* when the same text is there already, in the same style.
overwriteString(screen, str) ==
  LET attrs == PrintAttributes(screen, str)
      node  == CursorNode(screen)
      width == strWidth(str)
      space == screen.columnCount - screen.column
  IN  CASE space = 0 -> screen
        [] /\ space # 0
           /\ matchesContainer(attrs, node)
           /\ SubSeq(node.text, screen.offset + 1, Len(node.text)) = str ->
             [screen EXCEPT !.offset = @ + width, !.column = @ + width]
        [] OTHER -> insertString(ScreenDeleteChars(screen, Min({width, space})), str)

=============================================================================
