--------------------------- MODULE HtermScrollPort ---------------------------
(***************************************************************************)
(* The part of the terminal that puts rows into the page                   *)
(* (hterm.ScrollPort). Only the rows in view are in the document, between  *)
(* two invisible elements, the folds. A row in which the selection starts  *)
(* or ends stays in the document when it is scrolled out of view, above    *)
(* the top fold or below the bottom fold.                                  *)
(*                                                                         *)
(* Rows and folds are numbers, so that they can be compared. The rows of   *)
(* the terminal are a sequence, the row provider, and index is the         *)
(* property rowIndex of every row. The record of a port:                   *)
(*   dom             - the children of rowNodes_                           *)
(*   anchor, focus, collapsed - the selection of the document: the rows it *)
(*                     is in, or Null when they have left the document     *)
(*   startRow, endRow, isMultiline - what sync() last made of it           *)
(*   cache           - previousRowNodeCache_, empty when it is null        *)
(*   scrollTop       - the scroll position, in rows                        *)
(*   lastRowCount    - for which the height of the scroll area is set      *)
(*   visibleRowCount - as it was measured last                             *)
(*   window          - how many rows there is room for now                 *)
(*   isScrolledEnd                                                         *)
(*   scrolled        - the browser has yet to send a scroll event          *)
(*   failed          - an exception was thrown while drawing               *)
(* Everything measured in pixels is in rows here. The select bags are left *)
(* out: the terminal copies by itself and never has them filled.           *)
(***************************************************************************)
EXTENDS Integers, SequencesExt

Null == -2
TopFold == 0
BottomFold == -1

EmptyCache == [i \in {} |-> Null]

----------------------------------------------------------------------------
\* The document.

NextSibling(dom, node) ==
  LET after == {i \in DOMAIN dom : i > 1 /\ dom[i - 1] = node}
  IN  IF after = {} THEN Null ELSE dom[Min(after)]

\* The end of the selection that was in a node that is removed is put in its
\* parent, where it is in no row.
Unless(gone, node) == IF node \in gone THEN Null ELSE node

\* The nodes of the document but for some, in their order.
Without(dom, gone) ==
  LET kept[i \in 0 .. Len(dom)] ==
        CASE i = 0 -> <<>>
          [] i > 0 /\ dom[i] \in gone -> kept[i - 1]
          [] OTHER -> Append(kept[i - 1], dom[i])
  IN  kept[Len(dom)]

RemoveNodes(port, gone) ==
  [port EXCEPT !.dom = Without(@, gone),
               !.anchor = Unless(gone, @),
               !.focus = Unless(gone, @),
               !.collapsed = @ \/ {Unless(gone, port.anchor), Unless(gone, port.focus)} = {Null}]

\* A node that is in the document already is taken out first. ref is Null for
\* the end.
InsertBefore(port, node, ref) ==
  LET without == RemoveNodes(port, {node})
      place   == IF ref = Null THEN Len(without.dom) + 1
                 ELSE CHOOSE i \in DOMAIN without.dom : without.dom[i] = ref
  IN  [without EXCEPT !.dom = InsertAt(@, place, node)]

Before(dom, node) == {dom[i] : i \in {j \in DOMAIN dom : \A k \in 1 .. j : dom[k] # node}}

After(dom, node) == {dom[i] : i \in {j \in DOMAIN dom : \A k \in j .. Len(dom) : dom[k] # node}}

Inside(dom, first, last) == After(dom, first) \cap Before(dom, last)

\* removeChild(null), or insertBefore a node that is no child.
Throw(port) == [port EXCEPT !.failed = TRUE]

----------------------------------------------------------------------------
(***************************************************************************)
(* Selection.sync. A selection that does not begin in a row is none. One   *)
(* that ends on a fold ends in the row next to it. When it ends in no row  *)
(* at all, what was known of it stays.                                     *)
(***************************************************************************)
FocusRow(port) ==
  LET last == Before(port.dom, BottomFold)
      row  == CASE port.focus = TopFold -> NextSibling(port.dom, TopFold)
                [] port.focus = BottomFold ->
                     port.dom[CHOOSE i \in DOMAIN port.dom :
                                NextSibling(port.dom, port.dom[i]) = BottomFold]
                [] OTHER -> port.focus
  IN  IF row \in {TopFold, BottomFold} THEN Null ELSE row

sync(port, index) ==
  LET focusRow == FocusRow(port)
      anchorFirst == index[port.anchor] <= index[focusRow]
  IN  CASE port.anchor = Null ->
             [port EXCEPT !.startRow = Null, !.endRow = Null, !.isMultiline = FALSE]
        [] port.anchor # Null /\ focusRow = Null -> port
        [] OTHER ->
             [port EXCEPT !.startRow = IF anchorFirst THEN port.anchor ELSE focusRow,
                          !.endRow = IF anchorFirst THEN focusRow ELSE port.anchor,
                          !.isMultiline = index[port.anchor] # index[focusRow]]

----------------------------------------------------------------------------
\* Drawing. Rows of the selection are never moved, other nodes are moved
\* around them.

\* The top fold goes to the front, or behind the selected rows above the view.
drawTopFold_(port, index, topRowIndex) ==
  LET start  == port.startRow
      above  == port.isMultiline /\ index[port.endRow] < topRowIndex
      ref    == IF above THEN port.endRow ELSE start
      folded == IF NextSibling(port.dom, ref) = TopFold THEN port
                ELSE InsertBefore(port, TopFold, NextSibling(port.dom, ref))
      joined == IF above THEN RemoveNodes(folded, Inside(folded.dom, start, port.endRow))
                ELSE folded
  IN  CASE start = Null \/ index[start] >= topRowIndex ->
             IF Head(port.dom) = TopFold THEN port
             ELSE InsertBefore(port, TopFold, Head(port.dom))
        [] OTHER ->
             IF \/ ~({start, ref} \subseteq ToSet(port.dom))
                \/ above /\ NextSibling(joined.dom, start) # port.endRow
             THEN Throw(port)
             ELSE RemoveNodes(joined, Before(joined.dom, start))

\* The bottom fold goes to the end, or before the selected rows below the view.
drawBottomFold_(port, index, bottomRowIndex) ==
  LET end    == port.endRow
      below  == port.isMultiline /\ index[port.startRow] > bottomRowIndex
      ref    == IF below THEN port.startRow ELSE end
      folded == IF NextSibling(port.dom, BottomFold) = ref THEN port
                ELSE InsertBefore(port, BottomFold, ref)
      joined == IF below THEN RemoveNodes(folded, Inside(folded.dom, port.startRow, end))
                ELSE folded
  IN  CASE end = Null \/ index[end] <= bottomRowIndex ->
             IF Last(port.dom) = BottomFold THEN port ELSE InsertBefore(port, BottomFold, Null)
        [] OTHER ->
             IF \/ ~({end, ref} \subseteq ToSet(port.dom))
                \/ below /\ NextSibling(joined.dom, ref) # end
             THEN Throw(port)
             ELSE RemoveNodes(joined, After(joined.dom, end))

\* Nodes from one up to another are removed, none of them may be the fold.
removeUntilNode(port, node, target) ==
  LET gone == ({node} \cup After(port.dom, node)) \cap Before(port.dom, target)
  IN  IF node = target THEN port
      ELSE IF node = Null \/ target \notin ToSet(port.dom) \/ BottomFold \in gone
                \/ target \notin After(port.dom, node)
           THEN Throw(port)
           ELSE RemoveNodes(port, gone)

\* The cache with one more row.
Cached(cache, rowIndex, row) ==
  [i \in DOMAIN cache \cup {rowIndex} |-> IF i = rowIndex THEN row ELSE cache[i]]

\* A row that was drawn before comes from the cache, other rows from the
\* terminal; Null if there is none.
fetchRowNode_(cache, rows, rowIndex) ==
  CASE rowIndex \in DOMAIN cache -> cache[rowIndex]
    [] rowIndex \in 0 .. Len(rows) - 1 -> rows[rowIndex + 1]
    [] OTHER -> Null

\* Mutant: a selected row that is in the way is replaced like any other.
DrawRow_Replaces(d, rows, index, rowIndex, caching) ==
  LET port    == d.port
      node    == d.node
      fetched == fetchRowNode_(port.cache, rows, rowIndex)
      cached  == IF caching THEN [d EXCEPT !.fetched = Cached(@, index[fetched], fetched)] ELSE d
      Insert  == InsertBefore(port, fetched, node)
      Replace == RemoveNodes(Insert, {node})
  IN  CASE d.missing \/ port.failed -> d
        [] ~d.missing /\ ~port.failed /\ node = Null -> [d EXCEPT !.port = Throw(port)]
        [] ~d.missing /\ ~port.failed /\ node \notin {BottomFold, Null} /\ index[node] = rowIndex ->
             [d EXCEPT !.node = NextSibling(port.dom, node)]
        [] OTHER ->
             CASE fetched = Null -> [d EXCEPT !.missing = TRUE]
               [] fetched # Null /\ node = BottomFold -> [cached EXCEPT !.port = Insert]
               [] fetched # Null /\ node = fetched ->
                    [cached EXCEPT !.node = NextSibling(port.dom, node)]
               [] OTHER ->
                    [cached EXCEPT !.port = Replace,
                                   !.node = NextSibling(Replace.dom, fetched)]

(***************************************************************************)
(* One row of the view. d has the port, the node drawing has come to, the  *)
(* rows fetched so far, and missing when there was no row to fetch.        *)
(***************************************************************************)
DrawRow(d, rows, index, rowIndex, caching) ==
  LET port    == d.port
      node    == d.node
      fetched == fetchRowNode_(port.cache, rows, rowIndex)
      selected == {row \in {port.startRow, port.endRow} : row # Null /\ index[row] = rowIndex}
      target  == IF port.startRow \in selected THEN port.startRow ELSE port.endRow
      cached  == IF caching THEN [d EXCEPT !.fetched = Cached(@, index[fetched], fetched)] ELSE d
      Insert  == InsertBefore(port, fetched, node)
      Replace == RemoveNodes(Insert, {node})
  IN  CASE d.missing \/ port.failed -> d
        [] ~d.missing /\ ~port.failed /\ node = Null -> [d EXCEPT !.port = Throw(port)]
        [] ~d.missing /\ ~port.failed /\ node \notin {BottomFold, Null} /\ index[node] = rowIndex ->
             [d EXCEPT !.node = NextSibling(port.dom, node)]
        [] ~d.missing /\ ~port.failed /\ node \notin {BottomFold, Null}
             /\ index[node] # rowIndex /\ selected # {} ->
             [d EXCEPT !.port = removeUntilNode(port, node, target),
                       !.node = NextSibling(port.dom, target)]
        [] OTHER ->
             CASE fetched = Null -> [d EXCEPT !.missing = TRUE]
               [] fetched # Null /\ node \in {BottomFold, port.startRow, port.endRow} ->
                    [cached EXCEPT !.port = Insert]
               [] fetched # Null /\ node = fetched ->
                    [cached EXCEPT !.node = NextSibling(port.dom, node)]
               [] OTHER ->
                    [cached EXCEPT !.port = Replace,
                                   !.node = NextSibling(Replace.dom, fetched)]

\* The rows between the folds, and the rows fetched for them. A row that is
\* missing ends the drawing, with an exception when it was to be cached.
drawVisibleRows_(port, rows, index, topRowIndex, caching) ==
  LET count == Min({port.visibleRowCount, Len(rows)})
      drawn[n \in 0 .. count] ==
        IF n = 0 THEN [port |-> port, node |-> NextSibling(port.dom, TopFold),
                       fetched |-> EmptyCache, missing |-> FALSE]
        ELSE DrawRow(drawn[n - 1], rows, index, topRowIndex + n - 1, caching)
      end == drawn[count]
  IN  IF end.port.failed \/ (end.missing /\ caching) THEN end
      ELSE [end EXCEPT !.port = removeUntilNode(@, end.node, BottomFold)]

----------------------------------------------------------------------------
\* Scrolling.

\* The browser keeps the scroll position in the scroll area.
Clamped(port, top) == Max({0, Min({top, port.lastRowCount - port.window})})

ScrollTo(port, top) ==
  [port EXCEPT !.scrollTop = Clamped(port, top),
               !.scrolled = @ \/ Clamped(port, top) # port.scrollTop]

syncScrollHeight(port, rows) ==
  LET sized == [port EXCEPT !.lastRowCount = Len(rows)]
  IN  ScrollTo(sized, sized.scrollTop)

syncRowNodesDimensions_(port) == [port EXCEPT !.visibleRowCount = port.window]

\* A redraw follows when the position changes.
scrollRowToTop(port, rows, rowIndex) ==
  LET sized == syncScrollHeight(port, rows)
  IN  ScrollTo([sized EXCEPT
                  !.isScrolledEnd = Max({rowIndex, 0}) + port.visibleRowCount >= Len(rows)],
               rowIndex)

Redraws(port, rows, rowIndex) ==
  Min({Max({rowIndex, 0}), Len(rows) - port.visibleRowCount})
    # syncScrollHeight(port, rows).scrollTop

scrollRowToBottom(port, rows, rowIndex) ==
  scrollRowToTop(port, rows, rowIndex - port.visibleRowCount)

getBottomRowIndex(port, topRowIndex) == topRowIndex + port.visibleRowCount - 1

\* Mutant: rows fetched for earlier redraws stay in the cache.
redraw__KeepsCache(port, rows, index) ==
  LET sized  == syncScrollHeight(sync(port, index), rows)
      top    == sized.scrollTop
      folded == drawTopFold_(sized, index, top)
      both   == IF folded.failed THEN folded
                ELSE drawBottomFold_(folded, index, getBottomRowIndex(port, top))
      drawn  == drawVisibleRows_(both, rows, index, top, TRUE)
      result == syncRowNodesDimensions_(drawn.port)
  IN  IF both.failed \/ drawn.port.failed THEN Throw(port)
      ELSE IF drawn.missing THEN drawn.port
      ELSE [result EXCEPT
              !.cache = drawn.fetched @@ @,
              !.isScrolledEnd = top + result.visibleRowCount >= result.lastRowCount]

(***************************************************************************)
(* A redraw: the selection is looked up, the scroll area gets its height,  *)
(* the folds and the rows between them are drawn, those fetched for it are *)
(* kept for the next time.                                                 *)
(***************************************************************************)
redraw_(port, rows, index) ==
  LET sized  == syncScrollHeight(sync(port, index), rows)
      top    == sized.scrollTop
      folded == drawTopFold_(sized, index, top)
      both   == IF folded.failed THEN folded
                ELSE drawBottomFold_(folded, index, getBottomRowIndex(port, top))
      drawn  == drawVisibleRows_(both, rows, index, top, TRUE)
      result == syncRowNodesDimensions_(drawn.port)
  IN  IF both.failed \/ drawn.port.failed THEN Throw(port)
      ELSE IF drawn.missing THEN drawn.port
      ELSE [result EXCEPT
              !.cache = drawn.fetched,
              !.isScrolledEnd = top + result.visibleRowCount >= result.lastRowCount]

\* All rows in view are thrown out and drawn anew, at the same place.
invalidate(port, rows, index) ==
  LET emptied == [RemoveNodes(port, Inside(port.dom, TopFold, BottomFold))
                    EXCEPT !.cache = EmptyCache]
  IN  drawVisibleRows_(emptied, rows, index, port.scrollTop, FALSE).port

resetCache(port) == [port EXCEPT !.cache = EmptyCache]

\* The rows between the folds.
Shown(port) ==
  Without(port.dom, ToSet(port.dom) \ Inside(port.dom, TopFold, BottomFold))

NewPort(rows, window) ==
  [dom |-> <<TopFold, BottomFold>>, anchor |-> Null, focus |-> Null, collapsed |-> TRUE,
   startRow |-> Null, endRow |-> Null, isMultiline |-> FALSE, cache |-> EmptyCache,
   scrollTop |-> 0, lastRowCount |-> 0, visibleRowCount |-> window, window |-> window,
   isScrolledEnd |-> TRUE, scrolled |-> FALSE, failed |-> FALSE]

=============================================================================
