--------------------------- MODULE OnlinePageProofs ---------------------------
(***************************************************************************)
(* The safety properties of the online page, for any options, any number   *)
(* of clicks, any logs and any sizes of the window.                        *)
(*                                                                         *)
(* First its sockets and terminals (TerminalPage). What has been printed   *)
(* depends on which sockets are live, and that on the click before, which  *)
(* closed the one socket that was: the three properties are inductive      *)
(* together (PageInv).                                                     *)
(*                                                                         *)
(* Then what a terminal does with the logs (TerminalDisplay). The          *)
(* inductive invariant is Good: besides what the properties say, that the  *)
(* other screen is as sound as the one that is shown, that a cursor is in  *)
(* a node that exists, and that the parser's arguments are numbers. Every  *)
(* operation of the screen, the terminal and the parser has a lemma that   *)
(* it keeps Good, or what is left of it in the middle of a longer one:     *)
(* Sound allows the cursor to be beyond the last column, Fit to be in no   *)
(* row, Base a screen of another size than the terminal. What a text does, *)
(* whatever it is, follows by induction over the rounds of the parser      *)
(* (InterpretGood).                                                        *)
(***************************************************************************)
EXTENDS TerminalPage, TerminalDisplay, SequenceTheorems, FiniteSetTheorems,
        WellFoundedInduction, TLAPS

----------------------------------------------------------------------------
\* The sockets and the terminals of the page.

PageInv == PageTypeOK /\ LiveSocketAsksForSelection /\ NoOlderLogs

\* The numbers, away from the other types.
LEMMA Counted ==
  ASSUME PageTypeOK
  PROVE  /\ MaxTerminals \in Nat /\ terminals \in Nat /\ ready \in Nat
         /\ terminalIO \in Nat /\ socket \in Nat
         /\ 1 <= terminals /\ terminals <= MaxTerminals
         /\ terminalIO <= ready /\ ready <= terminals /\ socket <= terminals
<1>1. terminals \in 1 .. MaxTerminals
  BY DEF PageTypeOK, Numbers
<1>2. ready \in 0 .. terminals
  BY DEF PageTypeOK
<1>3. terminalIO \in 0 .. ready /\ socket \in 0 .. terminals
  BY DEF PageTypeOK
<1>4. QED BY <1>1, <1>2, <1>3, PageAssumption

\* One of a terminal's items more changes nothing for the other terminals.
LEMMA PrintedItem ==
  ASSUME PageTypeOK,
         NEW kind \in Kinds,
         NEW k \in Numbers, PrintItem(kind, k)
  PROVE  /\ shown' \in [Numbers -> SUBSET (Kinds \X Numbers)]
         /\ \A terminal \in Numbers : \A item \in shown'[terminal] :
              item \in shown[terminal] \/ (item = <<kind, k>> /\ terminal = terminalIO)
<1>1. terminalIO # 0 => terminalIO \in Numbers
  BY Counted DEF Numbers
<1>2. shown \in [Numbers -> SUBSET (Kinds \X Numbers)]
  BY DEF PageTypeOK
<1>3. CASE terminalIO = 0
  BY <1>2, <1>3 DEF PrintItem
<1>4. CASE terminalIO # 0
  <2>1. shown' = [shown EXCEPT ![terminalIO] = @ \cup {<<kind, k>>}]
    BY <1>4 DEF PrintItem
  <2>2. shown' \in [Numbers -> SUBSET (Kinds \X Numbers)]
    BY <2>1, <1>1, <1>2, <1>4
  <2>3. \A terminal \in Numbers : shown'[terminal] =
          IF terminal = terminalIO THEN shown[terminal] \cup {<<kind, k>>} ELSE shown[terminal]
    BY <2>1, <1>2
  <2>4. QED BY <2>2, <2>3
<1>5. QED BY <1>3, <1>4

LEMMA PageInitInvariant == PageInit => PageInv
<1>1. SUFFICES ASSUME PageInit PROVE PageInv
  OBVIOUS
<1>2. 1 \in Numbers
  BY PageAssumption DEF Numbers
<1>3. state \in [Numbers -> States]
  BY <1>1 DEF PageInit, States
<1>4. asked \in [Numbers -> SUBSET (Hosts \cup Programs)]
  BY <1>1 DEF PageInit
<1>5. shown \in [Numbers -> SUBSET (Kinds \X Numbers)]
  BY <1>1 DEF PageInit
<1>6. terminals \in Numbers /\ ready \in 0 .. terminals /\ terminalIO \in 0 .. ready
      /\ socket \in 0 .. terminals
  BY <1>1, <1>2 DEF PageInit
<1>7. PageTypeOK
  BY <1>1, <1>3, <1>4, <1>5, <1>6 DEF PageInit, PageTypeOK
<1>8. LiveSocketAsksForSelection
  BY <1>1 DEF PageInit, LiveSocketAsksForSelection, Live
<1>9. NoOlderLogs
  BY <1>1 DEF PageInit, NoOlderLogs
<1>10. QED BY <1>7, <1>8, <1>9 DEF PageInv

\* close() leaves no connection live.
LEMMA NoneLive ==
  ASSUME PageInv
  PROVE  /\ Close \in [Numbers -> States]
         /\ \A k \in Numbers : Close[k] \notin Live
<1>1. socket # 0 => socket \in Numbers
  BY PageAssumption DEF PageInv, PageTypeOK, Numbers
<1>2. \A k \in Numbers : state[k] \in Live => k = socket /\ k # 0
  BY DEF PageInv, LiveSocketAsksForSelection, Numbers
<1>3. CASE socket # 0 /\ state[socket] \in Live
  <2>1. Close = [state EXCEPT ![socket] = IF @ = "open" THEN "closing" ELSE "aborting"]
    BY <1>3 DEF Close
  <2>2. QED BY <2>1, <1>1, <1>2, <1>3 DEF PageInv, PageTypeOK, Live, States
<1>4. CASE ~(socket # 0 /\ state[socket] \in Live)
  <2>1. Close = state
    BY <1>4 DEF Close
  <2>2. QED BY <2>1, <1>2, <1>4 DEF PageInv, PageTypeOK
<1>5. QED BY <1>3, <1>4

LEMMA ClickInvariant ==
  ASSUME PageInv, NEW option \in Hosts \cup Programs, ClickOption(option)
  PROVE  PageInv'
<1>1. /\ terminals' = terminals + 1 /\ terminalIO' = terminalIO
      /\ ready' = ready /\ shown' = shown
  BY DEF ClickOption, setupHterm
<1>2. terminals \in Nat /\ terminals' \in Numbers /\ ready \in 0 .. terminals
      /\ terminalIO \in 0 .. ready /\ socket \in 0 .. terminals
  BY <1>1, PageAssumption DEF ClickOption, PageInv, PageTypeOK, Numbers
<1>3. selected' \subseteq Hosts \cup Programs
  BY DEF ClickOption, PageInv, PageTypeOK
<1>4. getLatestLogs(Close)
  BY DEF ClickOption
<1>5. NoOlderLogs'
  BY <1>1 DEF PageInv, NoOlderLogs
<1>6. CASE Wanted(selected')
  <2>1. /\ socket' = terminals'
        /\ state' = [Close EXCEPT ![terminals'] = "connecting"]
        /\ asked' = [asked EXCEPT ![terminals'] = selected']
    BY <1>4, <1>6 DEF getLatestLogs
  <2>2. state' \in [Numbers -> States]
    BY <2>1, NoneLive, <1>2 DEF States
  <2>3. asked' \in [Numbers -> SUBSET (Hosts \cup Programs)]
    BY <2>1, <1>2, <1>3 DEF PageInv, PageTypeOK
  <2>4. ready' \in 0 .. terminals' /\ terminalIO' \in 0 .. ready' /\ socket' \in 0 .. terminals'
    BY <1>1, <1>2, <2>1
  <2>5. PageTypeOK'
    BY <1>1, <1>2, <1>3, <2>2, <2>3, <2>4 DEF PageInv, PageTypeOK
  <2>6. ASSUME NEW k \in Numbers, state'[k] \in Live
        PROVE  k = terminals' /\ asked'[k] = selected'
    BY <2>1, <2>6, NoneLive, <1>2 DEF PageInv, PageTypeOK
  <2>7. LiveSocketAsksForSelection'
    BY <2>1, <2>6, <1>6 DEF LiveSocketAsksForSelection, Wanted
  <2>8. QED BY <2>5, <2>7, <1>5 DEF PageInv
<1>7. CASE ~Wanted(selected')
  <2>1. state' = Close /\ socket' = socket /\ asked' = asked
    BY <1>4, <1>7 DEF getLatestLogs
  <2>2. ready' \in 0 .. terminals' /\ terminalIO' \in 0 .. ready' /\ socket' \in 0 .. terminals'
    BY <1>1, <1>2, <2>1
  <2>3. PageTypeOK'
    BY <1>1, <1>2, <1>3, <2>1, <2>2, NoneLive DEF PageInv, PageTypeOK
  <2>4. LiveSocketAsksForSelection'
    BY <2>1, NoneLive DEF LiveSocketAsksForSelection
  <2>5. QED BY <2>3, <2>4, <1>5 DEF PageInv
<1>8. QED BY <1>6, <1>7

\* A message of a live socket is one of the last selection, and no terminal
\* is newer.
LEMMA MessageInvariant ==
  ASSUME PageInv, NEW k \in Numbers, onmessage(k)
  PROVE  PageInv'
<1>1. /\ UNCHANGED <<selected, terminals, ready, terminalIO, socket, state, asked>>
      /\ state[k] = "open"
  BY DEF onmessage
<1>2. PICK kind \in {"logs", "errorMessage"} : PrintItem(kind, k)
  BY DEF onmessage
<1>3. PageTypeOK /\ kind \in Kinds
  BY DEF PageInv, Kinds
<1>4. shown' \in [Numbers -> SUBSET (Kinds \X Numbers)]
  BY <1>2, <1>3, PrintedItem
<1>5. PageTypeOK'
  BY <1>1, <1>3, <1>4 DEF PageTypeOK
<1>6. LiveSocketAsksForSelection'
  BY <1>1 DEF PageInv, LiveSocketAsksForSelection, Wanted
<1>7. k = terminals
  BY <1>1 DEF PageInv, LiveSocketAsksForSelection, Live
<1>8. terminalIO <= k
  BY <1>7, PageAssumption DEF PageInv, PageTypeOK, Numbers
<1>9. ASSUME NEW terminal \in Numbers, NEW j \in Numbers,
             {<<"logs", j>>, <<"errorMessage", j>>} \cap shown'[terminal] # {}
      PROVE  j >= terminal
  <2>1. PICK item \in {<<"logs", j>>, <<"errorMessage", j>>} : item \in shown'[terminal]
    BY <1>9
  <2>2. CASE item \in shown[terminal]
    BY <2>1, <2>2 DEF PageInv, NoOlderLogs
  <2>3. CASE item = <<kind, k>> /\ terminal = terminalIO
    BY <2>1, <2>3, <1>8
  <2>4. item \in shown[terminal] \/ (item = <<kind, k>> /\ terminal = terminalIO)
    BY <2>1, <1>2, <1>3, PrintedItem
  <2>5. QED BY <2>2, <2>3, <2>4
<1>10. NoOlderLogs'
  BY <1>9 DEF NoOlderLogs
<1>11. QED BY <1>5, <1>6, <1>10 DEF PageInv

\* The notice that a connection has ended is no log.
LEMMA CloseInvariant ==
  ASSUME PageInv, NEW k \in Numbers, onclose(k)
  PROVE  PageInv'
<1>1. /\ UNCHANGED <<selected, terminals, ready, terminalIO, socket, asked>>
      /\ state' = [state EXCEPT ![k] = "closed"]
  BY DEF onclose
<1>2. PICK kind \in {"closed", "closed with an error"} : PrintItem(kind, k)
  BY DEF onclose
<1>3. PageTypeOK /\ kind \in Kinds
  BY DEF PageInv, Kinds
<1>4. state' \in [Numbers -> States]
  BY <1>1, <1>3 DEF PageTypeOK, States
<1>5. shown' \in [Numbers -> SUBSET (Kinds \X Numbers)]
  BY <1>2, <1>3, PrintedItem
<1>6. PageTypeOK'
  BY <1>1, <1>3, <1>4, <1>5 DEF PageTypeOK
<1>7. LiveSocketAsksForSelection'
  BY <1>1 DEF PageInv, PageTypeOK, LiveSocketAsksForSelection, Wanted, Live
<1>8. ASSUME NEW terminal \in Numbers, NEW j \in Numbers,
             {<<"logs", j>>, <<"errorMessage", j>>} \cap shown'[terminal] # {}
      PROVE  j >= terminal
  <2>1. PICK item \in {<<"logs", j>>, <<"errorMessage", j>>} : item \in shown'[terminal]
    BY <1>8
  <2>2. kind # "logs" /\ kind # "errorMessage"
    OBVIOUS
  <2>3. <<"logs", j>> # <<kind, k>> /\ <<"errorMessage", j>> # <<kind, k>>
    BY <2>2
  <2>4. item \in shown[terminal]
    BY <2>1, <2>3, <1>2, <1>3, PrintedItem
  <2>5. QED BY <2>1, <2>4 DEF PageInv, NoOlderLogs
<1>9. NoOlderLogs'
  BY <1>8 DEF NoOlderLogs
<1>10. QED BY <1>6, <1>7, <1>9 DEF PageInv

LEMMA PageNextInvariant == PageInv /\ [PageNext]_pageVars => PageInv'
<1>1. SUFFICES ASSUME PageInv, [PageNext]_pageVars PROVE PageInv'
  OBVIOUS
<1>2. CASE \E option \in Hosts \cup Programs : ClickOption(option)
  BY <1>1, <1>2, ClickInvariant
<1>3. CASE onTerminalReady
  <2>1. /\ ready' = ready + 1 /\ terminalIO' = ready + 1 /\ ready < terminals
        /\ UNCHANGED <<selected, terminals, socket, state, asked, shown>>
    BY <1>3 DEF onTerminalReady
  <2>2. ready' \in 0 .. terminals /\ terminalIO' \in 0 .. ready'
    BY <1>1, <2>1, PageAssumption DEF PageInv, PageTypeOK, Numbers
  <2>3. PageTypeOK'
    BY <1>1, <2>1, <2>2 DEF PageInv, PageTypeOK
  <2>4. LiveSocketAsksForSelection'
    BY <1>1, <2>1 DEF PageInv, LiveSocketAsksForSelection, Wanted
  <2>5. NoOlderLogs'
    BY <1>1, <2>1 DEF PageInv, NoOlderLogs
  <2>6. QED BY <2>3, <2>4, <2>5 DEF PageInv
<1>4. CASE \E k \in Numbers : onopen(k)
  <2>1. PICK k \in Numbers : onopen(k)
    BY <1>4
  <2>2. /\ state[k] = "connecting" /\ state' = [state EXCEPT ![k] = "open"]
        /\ UNCHANGED <<selected, terminals, ready, terminalIO, socket, asked, shown>>
    BY <2>1 DEF onopen
  <2>3. state' \in [Numbers -> States]
    BY <1>1, <2>2 DEF PageInv, PageTypeOK, States
  <2>4. PageTypeOK'
    BY <1>1, <2>2, <2>3 DEF PageInv, PageTypeOK
  <2>5. LiveSocketAsksForSelection'
    BY <1>1, <2>2 DEF PageInv, PageTypeOK, LiveSocketAsksForSelection, Wanted, Live
  <2>6. NoOlderLogs'
    BY <1>1, <2>2 DEF PageInv, NoOlderLogs
  <2>7. QED BY <2>4, <2>5, <2>6 DEF PageInv
<1>5. CASE \E k \in Numbers : onmessage(k)
  BY <1>1, <1>5, MessageInvariant
<1>6. CASE \E k \in Numbers : onclose(k)
  BY <1>1, <1>6, CloseInvariant
<1>7. CASE UNCHANGED pageVars
  BY <1>1, <1>7 DEF pageVars, PageInv, PageTypeOK, LiveSocketAsksForSelection, NoOlderLogs, Wanted
<1>8. QED BY <1>1, <1>2, <1>3, <1>4, <1>5, <1>6, <1>7 DEF PageNext

LEMMA PageInvariant == PageSpec => []PageInv
<1>1. QED BY PageInitInvariant, PageNextInvariant, PTL DEF PageSpec

\* However the clicks, the readiness of the terminals and the events of the
\* sockets come, a connection that is not closing asks for what is selected.
THEOREM LiveSocketCorrect == PageSpec => []LiveSocketAsksForSelection
<1>1. PageInv => LiveSocketAsksForSelection
  BY DEF PageInv
<1>2. QED BY PageInvariant, <1>1, PTL

\* No terminal ever shows a log of a selection older than itself.
THEOREM OlderLogsNeverShown == PageSpec => []NoOlderLogs
<1>1. PageInv => NoOlderLogs
  BY DEF PageInv
<1>2. QED BY PageInvariant, <1>1, PTL

\* The state of the page is always well typed, and only a terminal that is
\* ready is printed to.
THEOREM PageTypeCorrect == PageSpec => []PageTypeOK
<1>1. PageInv => PageTypeOK
  BY DEF PageInv
<1>2. QED BY PageInvariant, <1>1, PTL

----------------------------------------------------------------------------
\* Sequences of anything.

IsSeq(s) == Len(s) \in Nat /\ s = [i \in 1 .. Len(s) |-> s[i]]

\* Induction, over the numbers that a set has.
LEMMA SetInduction ==
  ASSUME NEW S, 0 \in S, \A n \in Nat : n \in S => n + 1 \in S
  PROVE  \A n \in Nat : n \in S
<1> SUFFICES ASSUME Nat \ S # {} PROVE FALSE
  OBVIOUS
<1>1. PICK least \in Nat \ S : \A n \in Nat \ S : ~(<<n, least>> \in OpToRel(<, Nat))
  BY WFMin, NatLessThanWellFounded, Zenon
<1>2. \A n \in Nat \ S : ~(n < least)
  BY <1>1 DEF OpToRel
<1>3. least # 0 /\ least - 1 \in Nat
  OBVIOUS
<1> QED BY <1>2, <1>3

LEMMA SeqAny ==
  ASSUME NEW S, NEW s \in Seq(S)
  PROVE  IsSeq(s)
  BY DEF IsSeq

LEMMA SeqIn ==
  ASSUME NEW s, IsSeq(s), NEW S, \A i \in 1 .. Len(s) : s[i] \in S
  PROVE  s \in Seq(S)
  BY DEF IsSeq

LEMMA SeqFunction ==
  ASSUME NEW f, NEW n \in Nat, DOMAIN f = 1 .. n, f = [i \in DOMAIN f |-> f[i]]
  PROVE  IsSeq(f) /\ Len(f) = n
<1> DEFINE S == {f[i] : i \in 1 .. n}
<1>1. f \in [1 .. n -> S]
  OBVIOUS
<1>2. f \in Seq(S) /\ Len(f) = n
  BY <1>1
<1> QED BY <1>2, SeqAny

LEMMA SeqDomain ==
  ASSUME NEW s, IsSeq(s)
  PROVE  DOMAIN s = 1 .. Len(s) /\ Len(s) \in Nat /\ (s = <<>> <=> Len(s) = 0)
<1>1. DOMAIN s = 1 .. Len(s) /\ Len(s) \in Nat
  BY DEF IsSeq
<1>2. s \in Seq({s[i] : i \in 1 .. Len(s)})
  BY SeqIn
<1>3. s = <<>> <=> Len(s) = 0
  BY <1>2, EmptySeq
<1> QED BY <1>1, <1>3

\* The operators on sequences by other names, which the provers leave alone.
Joined(s, r) == s \o r
Part(s, m, n) == SubSeq(s, m, n)
Added(s, x) == Append(s, x)
Changed(s, i, x) == [s EXCEPT ![i] = x]

LEMMA JoinedSeq ==
  ASSUME NEW s, IsSeq(s), NEW r, IsSeq(r)
  PROVE  /\ IsSeq(Joined(s, r)) /\ Len(Joined(s, r)) = Len(s) + Len(r)
         /\ \A i \in 1 .. Len(s) : Joined(s, r)[i] = s[i]
         /\ \A i \in Len(s) + 1 .. Len(s) + Len(r) : Joined(s, r)[i] = r[i - Len(s)]
<1> DEFINE S == {s[i] : i \in 1 .. Len(s)} \cup {r[i] : i \in 1 .. Len(r)}
<1>1. s \in Seq(S) /\ r \in Seq(S)
  BY SeqIn
<1> HIDE DEF S
<1>2. s \o r \in Seq(S)
  BY <1>1
<1>3. IsSeq(s \o r)
  BY <1>2, SeqAny
<1>4. Len(s) \in Nat /\ Len(r) \in Nat
  BY DEF IsSeq
<1> QED BY <1>1, <1>3, <1>4 DEF Joined

LEMMA PartSeq ==
  ASSUME NEW s, IsSeq(s), NEW m \in Int, NEW n \in Int, 1 <= m, n <= Len(s)
  PROVE  /\ IsSeq(Part(s, m, n))
         /\ m <= n => Len(Part(s, m, n)) = n - m + 1
         /\ m > n => Len(Part(s, m, n)) = 0
         /\ \A i \in 1 .. n - m + 1 : Part(s, m, n)[i] = s[m + i - 1]
         /\ m = 1 => \A i \in 1 .. n : Part(s, m, n)[i] = s[i]
<1> DEFINE S == {s[i] : i \in 1 .. Len(s)}
<1>1. s \in Seq(S) /\ Len(s) \in Nat
  BY SeqIn DEF IsSeq
<1> HIDE DEF S
<1>2. SubSeq(s, m, n) \in Seq(S)
  BY <1>1
<1>3. IsSeq(SubSeq(s, m, n))
  BY <1>2, SeqAny
<1> QED BY <1>1, <1>3 DEF Part

LEMMA AddedSeq ==
  ASSUME NEW s, IsSeq(s), NEW x
  PROVE  /\ IsSeq(Added(s, x)) /\ Len(Added(s, x)) = Len(s) + 1
         /\ \A i \in 1 .. Len(s) : Added(s, x)[i] = s[i]
         /\ Added(s, x)[Len(s) + 1] = x
<1> DEFINE S == {s[i] : i \in 1 .. Len(s)} \cup {x}
<1>1. s \in Seq(S) /\ x \in S /\ Len(s) \in Nat
  BY SeqIn DEF IsSeq
<1> HIDE DEF S
<1>2. Append(s, x) \in Seq(S)
  BY <1>1
<1>3. IsSeq(Append(s, x))
  BY <1>2, SeqAny
<1> QED BY <1>1, <1>3 DEF Added

\* A sequence of one element.
Only(x) == <<x>>

LEMMA OnlySeq ==
  ASSUME NEW x
  PROVE  IsSeq(Only(x)) /\ Len(Only(x)) = 1 /\ Only(x)[1] = x
<1>1. <<x>> \in Seq({x})
  OBVIOUS
<1> QED BY <1>1, SeqAny DEF Only

LEMMA EmptySequence == IsSeq(<<>>) /\ Len(<<>>) = 0
  BY DEF IsSeq

LEMMA ChangedSeq ==
  ASSUME NEW s, IsSeq(s), NEW i, NEW x
  PROVE  /\ IsSeq(Changed(s, i, x)) /\ Len(Changed(s, i, x)) = Len(s)
         /\ \A j \in 1 .. Len(s) : Changed(s, i, x)[j] = IF j = i THEN x ELSE s[j]
<1> DEFINE r == [s EXCEPT ![i] = x]
<1>1. DOMAIN s = 1 .. Len(s) /\ Len(s) \in Nat
  BY SeqDomain
<1>2. DOMAIN r = 1 .. Len(s) /\ r = [j \in DOMAIN r |-> r[j]]
  BY <1>1
<1>3. IsSeq(r) /\ Len(r) = Len(s)
  BY <1>1, <1>2, SeqFunction
<1> QED BY <1>1, <1>3 DEF Changed

LEMMA TailSeq ==
  ASSUME NEW s, IsSeq(s), s # <<>>
  PROVE  IsSeq(Tail(s)) /\ Len(Tail(s)) = Len(s) - 1
<1> DEFINE S == {s[i] : i \in 1 .. Len(s)}
<1>1. s \in Seq(S) /\ Len(s) \in Nat
  BY SeqIn DEF IsSeq
<1> HIDE DEF S
<1>2. Tail(s) \in Seq(S) /\ Len(Tail(s)) = Len(s) - 1
  BY <1>1
<1> QED BY <1>2, SeqAny

LEMMA FrontSeq ==
  ASSUME NEW s, IsSeq(s), Len(s) > 0
  PROVE  /\ IsSeq(Front(s)) /\ Len(Front(s)) = Len(s) - 1
         /\ \A i \in 1 .. Len(s) - 1 : Front(s)[i] = s[i]
<1>1. Len(s) \in Nat /\ Len(s) - 1 \in Nat
  BY DEF IsSeq
<1>2. Front(s) = Part(s, 1, Len(s) - 1)
  BY DEF Front, Part
<1> QED BY <1>1, <1>2, PartSeq

LEMMA InsertAtSeq ==
  ASSUME NEW s, IsSeq(s), NEW n \in 1 .. Len(s) + 1, NEW x
  PROVE  /\ IsSeq(InsertAt(s, n, x)) /\ Len(InsertAt(s, n, x)) = Len(s) + 1
         /\ \A i \in 1 .. Len(s) + 1 :
              InsertAt(s, n, x)[i] = IF i < n THEN s[i] ELSE IF i = n THEN x ELSE s[i - 1]
<1> DEFINE left == Part(s, 1, n - 1)
           right == Part(s, n, Len(s))
           both == Joined(left, Only(x))
<1>1. Len(s) \in Nat /\ n \in Int /\ 1 <= n /\ n <= Len(s) + 1
  BY DEF IsSeq
<1>2. /\ IsSeq(left) /\ Len(left) = n - 1
      /\ \A i \in 1 .. n - 1 : left[i] = s[i]
  BY <1>1, PartSeq
<1>3. /\ IsSeq(right) /\ Len(right) = Len(s) - n + 1
      /\ \A i \in 1 .. Len(s) - n + 1 : right[i] = s[n + i - 1]
  BY <1>1, PartSeq
<1>5. InsertAt(s, n, x) = Joined(both, right)
  BY DEF InsertAt, Joined, Part, Only
<1> HIDE DEF left, right
<1>6. IsSeq(Only(x)) /\ Len(Only(x)) = 1 /\ Only(x)[1] = x
  BY OnlySeq
<1>7. /\ IsSeq(both) /\ Len(both) = Len(left) + Len(Only(x))
      /\ \A i \in 1 .. Len(left) : both[i] = left[i]
      /\ \A i \in Len(left) + 1 .. Len(left) + Len(Only(x)) : both[i] = Only(x)[i - Len(left)]
  BY <1>2, <1>6, JoinedSeq
<1> HIDE DEF both
<1>8. /\ Len(both) = n /\ both[n] = x
      /\ \A i \in 1 .. n - 1 : both[i] = s[i]
  BY <1>1, <1>2, <1>6, <1>7
<1>9. /\ IsSeq(Joined(both, right)) /\ Len(Joined(both, right)) = Len(both) + Len(right)
      /\ \A i \in 1 .. Len(both) : Joined(both, right)[i] = both[i]
      /\ \A i \in Len(both) + 1 .. Len(both) + Len(right) :
           Joined(both, right)[i] = right[i - Len(both)]
  BY <1>3, <1>7, JoinedSeq
<1> QED BY <1>1, <1>3, <1>5, <1>8, <1>9

LEMMA RemoveAtSeq ==
  ASSUME NEW s, IsSeq(s), NEW n \in 1 .. Len(s)
  PROVE  IsSeq(RemoveAt(s, n)) /\ Len(RemoveAt(s, n)) = Len(s) - 1
<1>1. Len(s) \in Nat /\ n \in Int /\ 1 <= n /\ n <= Len(s)
  BY DEF IsSeq
<1>2. IsSeq(Part(s, 1, n - 1)) /\ Len(Part(s, 1, n - 1)) = n - 1
  BY <1>1, PartSeq
<1>3. IsSeq(Part(s, n + 1, Len(s))) /\ Len(Part(s, n + 1, Len(s))) = Len(s) - n
  BY <1>1, PartSeq
<1>4. RemoveAt(s, n) = Joined(Part(s, 1, n - 1), Part(s, n + 1, Len(s)))
  BY DEF RemoveAt, Joined, Part
<1>5. /\ IsSeq(RemoveAt(s, n))
      /\ Len(RemoveAt(s, n)) = Len(Part(s, 1, n - 1)) + Len(Part(s, n + 1, Len(s)))
  BY <1>2, <1>3, <1>4, JoinedSeq
<1> QED BY <1>1, <1>2, <1>3, <1>5

----------------------------------------------------------------------------
\* Numbers.

\* A set of numbers that is not empty, and bounded, has a least element ...
LEMMA LeastNumber ==
  ASSUME NEW a \in Int, NEW S, S # {}, \A n \in S : n \in Int /\ a <= n
  PROVE  Min(S) \in S /\ \A n \in S : Min(S) <= n
<1> DEFINE T == {n - a : n \in S}
<1>0. T # {} /\ T \subseteq Nat
  OBVIOUS
<1>9. \A x : x \in T <=> \E n \in S : x = n - a
  OBVIOUS
<1> HIDE DEF T
<1>1. PICK least \in T : \A n \in T : ~(<<n, least>> \in OpToRel(<, Nat))
  BY <1>0, WFMin, NatLessThanWellFounded, Zenon
<1>2. \A n \in T : n \in Nat
  BY <1>0
<1>3. \A n \in T : ~(n < least)
  BY <1>1, <1>2 DEF OpToRel
<1>8. least \in T
  OBVIOUS
<1>4. PICK m \in S : least = m - a
  BY <1>8, <1>9
<1>5. ASSUME NEW n \in S PROVE m <= n
  <2>1. n - a \in T /\ n \in Int /\ m \in Int
    BY <1>9
  <2> QED BY <1>3, <1>4, <2>1
<1> QED BY <1>5 DEF Min

\* ... or a greatest one.
LEMMA GreatestNumber ==
  ASSUME NEW b \in Int, NEW S, S # {}, \A n \in S : n \in Int /\ n <= b
  PROVE  Max(S) \in S /\ \A n \in S : n <= Max(S)
<1> DEFINE T == {b - n : n \in S}
<1>0. T # {} /\ T \subseteq Nat
  OBVIOUS
<1>9. \A x : x \in T <=> \E n \in S : x = b - n
  OBVIOUS
<1> HIDE DEF T
<1>1. PICK least \in T : \A n \in T : ~(<<n, least>> \in OpToRel(<, Nat))
  BY <1>0, WFMin, NatLessThanWellFounded, Zenon
<1>2. \A n \in T : n \in Nat
  BY <1>0
<1>3. \A n \in T : ~(n < least)
  BY <1>1, <1>2 DEF OpToRel
<1>8. least \in T
  OBVIOUS
<1>4. PICK m \in S : least = b - m
  BY <1>8, <1>9
<1>5. ASSUME NEW n \in S PROVE m >= n
  <2>1. b - n \in T /\ n \in Int /\ m \in Int
    BY <1>9
  <2> QED BY <1>3, <1>4, <2>1
<1> QED BY <1>5 DEF Max

LEMMA Min2 ==
  ASSUME NEW m \in Int, NEW n \in Int
  PROVE  Min({m, n}) = IF m <= n THEN m ELSE n
  BY DEF Min

LEMMA Max2 ==
  ASSUME NEW m \in Int, NEW n \in Int
  PROVE  Max({m, n}) = IF m >= n THEN m ELSE n
  BY DEF Max

LEMMA ClampRange ==
  ASSUME NEW low \in Int, NEW n \in Int, NEW high \in Int, low <= high
  PROVE  Clamp(low, n, high) \in low .. high
  BY DEF Clamp

----------------------------------------------------------------------------
\* The terminal, as far as the theorems speak of it.

Names == {"primary", "alternate"}

TerminalFields ==
  {"screens", "current", "scrollback", "width", "height", "top", "bottom", "tabStops",
   "defaultTabStops", "options", "charsets", "encoding", "colors", "title", "cursorShape", "vt"}

ScreenFields ==
  {"rowsArray", "columnCount", "textAttributes", "row", "column", "overflow", "rowNode",
   "node", "offset", "saved"}

ParserFields ==
  {"func", "buf", "args", "leading", "trailing", "code", "started", "string", "late",
   "mouseReport", "mouseCoordinates", "dragged", "modes"}

ParseFunctions == {"unknown", "CSI", "DCS", "ESC", "next"} \cup StringFunctions

\* A row has at least one node.
RowOK(row) ==
  /\ DOMAIN row = {"nodes", "overflow", "rowIndex"}
  /\ IsSeq(row.nodes) /\ Len(row.nodes) > 0

RowsOK(rows) == IsSeq(rows) /\ \A i \in 1 .. Len(rows) : RowOK(rows[i])

NumberedFrom(rows, first) == \A i \in 1 .. Len(rows) : rows[i].rowIndex = first + i - 1

\* The node the cursor is in, if any, is there.
NodeOK(rows, rowNode, node) ==
  /\ rowNode \in 0 .. Len(rows)
  /\ rowNode # 0 => node \in 1 .. Len(rows[rowNode].nodes)

ScreenOK(screen) ==
  /\ DOMAIN screen = ScreenFields
  /\ screen.columnCount \in Nat /\ screen.row \in Int /\ screen.column \in Int
  /\ screen.saved.row \in Int /\ screen.saved.column \in Int
  /\ RowsOK(screen.rowsArray)
  /\ NodeOK(screen.rowsArray, screen.rowNode, screen.node)

ArgOK(arg) ==
  IsSeq(arg) /\ Len(arg) > 0 /\ \A i \in 1 .. Len(arg) : arg[i] \in Int /\ arg[i] >= -1

ArgsOK(args) == IsSeq(args) /\ \A i \in 1 .. Len(args) : ArgOK(args[i])

ParserOK(parser) ==
  /\ DOMAIN parser = ParserFields
  /\ parser.func \in ParseFunctions
  /\ IsSeq(parser.buf) /\ IsSeq(parser.string) /\ ArgsOK(parser.args)

ColorsOK(colors) ==
  /\ DOMAIN colors = {"css", "foregroundColor_", "backgroundColor_", "overrides"}
  /\ DOMAIN colors.css = {"palette", "foreground", "background", "cursor"}
  /\ DOMAIN colors.overrides = Names

ShowsPalette(u) ==
  \A i \in DOMAIN u.colors.css.palette \cup DOMAIN Overrides(u) :
    ShownColor(u, i) = getColorPalette(u, i)

\* The rows of the screen that is shown are numbered below the scrollback, and
\* those of the other one are numbered, from somewhere.
Numbered(u) ==
  /\ NumberedFrom(u.scrollback, 0)
  /\ NumberedFrom(Screen(u).rowsArray, Len(u.scrollback))
  /\ \A name \in Names : LET rows == u.screens[name].rowsArray
                         IN  Len(rows) > 0 => NumberedFrom(rows, rows[1].rowIndex)

\* What holds of a terminal while it gets a new size, too.
Base(u) ==
  /\ DOMAIN u = TerminalFields
  /\ DOMAIN u.screens = Names /\ u.current \in Names
  /\ \A name \in Names : ScreenOK(u.screens[name])
  /\ RowsOK(u.scrollback)
  /\ Numbered(u)
  /\ u.width \in Nat /\ u.height \in Nat
  /\ u.tabStops \subseteq 0 .. u.width - 1
  /\ ColorsOK(u.colors) /\ ShowsPalette(u)
  /\ ParserOK(u.vt)

RegionOK(u) ==
  /\ u.top \in Int /\ u.bottom \in Int
  /\ getVTScrollTop(u) \in 0 .. getVTScrollBottom(u)
  /\ getVTScrollBottom(u) \in 0 .. u.height - 1

\* The screen that is shown has the size of the terminal.
Fit(u) ==
  /\ Base(u)
  /\ u.width > 0 /\ u.height > 0
  /\ Height(Screen(u)) = u.height /\ Screen(u).columnCount = u.width

\* The cursor is in a row of the screen, perhaps beyond the last column.
OnIt(screen) ==
  screen.rowNode # 0 /\ screen.row \in 0 .. Height(screen) - 1 /\ screen.column \in Nat

Sound(u) == Fit(u) /\ RegionOK(u) /\ OnIt(Screen(u))

Good(u) == Sound(u) /\ Column(u) < u.width

----------------------------------------------------------------------------
\* The screen: what its operations leave as it was.

\* Nothing has changed but the nodes of rows, the cursor and the attributes.
SameRows(old, screen) ==
  /\ ScreenOK(screen)
  /\ Height(screen) = Height(old)
  /\ \A i \in 1 .. Height(old) : screen.rowsArray[i].rowIndex = old.rowsArray[i].rowIndex

Like(old, screen) == SameRows(old, screen) /\ screen.columnCount = old.columnCount

LEMMA LikeItself == ASSUME NEW s, ScreenOK(s) PROVE Like(s, s)
  BY DEF Like, SameRows

LEMMA LikeLike == ASSUME NEW s, NEW r, NEW q, Like(s, r), Like(r, q) PROVE Like(s, q)
  BY DEF Like, SameRows

LEMMA RowsHeight ==
  ASSUME NEW s, ScreenOK(s)
  PROVE  /\ Height(s) \in Nat /\ IsSeq(s.rowsArray) /\ Height(s) = Len(s.rowsArray)
         /\ \A i \in 1 .. Height(s) : RowOK(s.rowsArray[i])
         /\ s.rowNode \in 0 .. Height(s)
         /\ s.rowNode # 0 =>
              /\ s.rowNode \in 1 .. Height(s)
              /\ IsSeq(CursorRow(s).nodes) /\ Len(CursorRow(s).nodes) \in Nat
              /\ s.node \in 1 .. Len(CursorRow(s).nodes)
<1>1. ScreenOK(s) => IsSeq(s.rowsArray)
  BY DEF ScreenOK, RowsOK
<1>2. Len(s.rowsArray) \in Nat
  BY <1>1, SeqDomain
<1>3. \A i \in 1 .. Len(s.rowsArray) : IsSeq(s.rowsArray[i].nodes)
  BY DEF ScreenOK, RowsOK, RowOK
<1>4. \A i \in 1 .. Len(s.rowsArray) : Len(s.rowsArray[i].nodes) \in Nat
  BY <1>3, SeqDomain
<1> QED BY <1>1, <1>2, <1>3, <1>4 DEF ScreenOK, RowsOK, Height, NodeOK, CursorRow

LEMMA SeekLike ==
  ASSUME NEW s, ScreenOK(s), NEW row \in 0 .. Height(s) - 1, NEW column \in Int, NEW start,
         NEW first \in 1 .. Len(s.rowsArray[row + 1].nodes)
  PROVE  LET r == SeekFrom(s, row, column, first, start)
         IN  /\ Like(s, r) /\ r.row = row /\ r.column = column
             /\ r.rowNode = row + 1
             /\ column \in Nat => OnIt(r)
<1> DEFINE nodes == s.rowsArray[row + 1].nodes
           Width(i) == SpanWidth(nodes, first, i)
           found == {i \in first .. Len(nodes) : i = Len(nodes) \/ Width(i) > column - start}
           r == SeekFrom(s, row, column, first, start)
<1>1. row + 1 \in 1 .. Height(s) /\ Height(s) \in Nat
  BY RowsHeight
<1>2. IsSeq(nodes) /\ Len(nodes) \in Nat
  BY <1>1, RowsHeight DEF RowOK, IsSeq
<1>3. Len(nodes) \in found
  BY <1>2
<1>4. \A i \in found : i \in Int /\ first <= i /\ i \in 1 .. Len(nodes)
  BY <1>2
<1>5. Min(found) \in found
  <2> HIDE DEF found
  <2> QED BY <1>2, <1>3, <1>4, LeastNumber
<1>6. r = [s EXCEPT !.row = row, !.column = column, !.overflow = FALSE, !.rowNode = row + 1,
                    !.node = Min(found), !.offset = column - start - Width(Min(found) - 1)]
  BY DEF SeekFrom
<1> HIDE DEF r, found, Width
<1>7. /\ DOMAIN r = DOMAIN s /\ r.row = row /\ r.column = column /\ r.rowNode = row + 1
      /\ r.node = Min(found) /\ r.rowsArray = s.rowsArray /\ r.columnCount = s.columnCount
      /\ r.saved = s.saved
  BY <1>6 DEF ScreenOK, ScreenFields
<1>8. NodeOK(r.rowsArray, r.rowNode, r.node)
  BY <1>1, <1>4, <1>5, <1>7 DEF NodeOK, Height
<1>9. ScreenOK(r)
  BY <1>7, <1>8 DEF ScreenOK
<1>10. Like(s, r) /\ (column \in Nat => OnIt(r))
  BY <1>1, <1>7, <1>9 DEF Like, SameRows, OnIt, Height
<1> QED BY <1>7, <1>10 DEF r

\* The cursor put on a row and a column of a screen.
LEMMA PlaceLike ==
  ASSUME NEW s, ScreenOK(s), NEW row \in 0 .. Height(s) - 1, NEW column \in Int
  PROVE  /\ Like(s, PlaceOn(s, row, column)) /\ PlaceOn(s, row, column).row = row
         /\ PlaceOn(s, row, column).column = column
         /\ column \in Nat => OnIt(PlaceOn(s, row, column))
<1>1. /\ row + 1 \in 1 .. Height(s) /\ Len(s.rowsArray[row + 1].nodes) \in Nat
      /\ Len(s.rowsArray[row + 1].nodes) > 0
  <2>1. row + 1 \in 1 .. Height(s) /\ RowOK(s.rowsArray[row + 1])
    BY RowsHeight
  <2> QED BY <2>1, SeqDomain DEF RowOK
<1>2. CASE s.rowNode = row + 1 /\ column >= s.column - s.offset
  <2>1. s.node \in 1 .. Len(s.rowsArray[row + 1].nodes)
    BY <1>1, <1>2, RowsHeight DEF CursorRow
  <2>2. PlaceOn(s, row, column) = SeekFrom(s, row, column, s.node, s.column - s.offset)
    BY <1>2 DEF PlaceOn
  <2> QED BY <2>1, <2>2, SeekLike
<1>3. CASE ~(s.rowNode = row + 1 /\ column >= s.column - s.offset)
  <2>1. 1 \in 1 .. Len(s.rowsArray[row + 1].nodes)
    BY <1>1
  <2>2. PlaceOn(s, row, column) = SeekFrom(s, row, column, 1, 0)
    BY <1>3 DEF PlaceOn
  <2> QED BY <2>1, <2>2, SeekLike
<1> QED BY <1>2, <1>3

LEMMA SetCursorLike ==
  ASSUME NEW s, ScreenOK(s), NEW toRow \in Int, NEW toColumn \in Int
  PROVE  LET r == ScreenSetCursorPosition(s, toRow, toColumn)
         IN  /\ Like(s, r)
             /\ Height(s) = 0 => r = s
             /\ Height(s) > 0 =>
                  /\ r.row = Clamp(0, toRow, Height(s) - 1)
                  /\ s.columnCount > 0 =>
                       /\ OnIt(r) /\ r.column < s.columnCount
                       /\ r.column = Clamp(0, toColumn, s.columnCount - 1)
<1> DEFINE row == Clamp(0, toRow, Height(s) - 1)
           column == Clamp(0, toColumn, s.columnCount - 1)
           r == ScreenSetCursorPosition(s, toRow, toColumn)
<1>1. Height(s) \in Nat /\ (s.rowsArray = <<>> <=> Height(s) = 0) /\ s.columnCount \in Nat
  BY RowsHeight, SeqDomain DEF ScreenOK
<1>2. CASE Height(s) = 0
  BY <1>1, <1>2, LikeItself DEF ScreenSetCursorPosition
<1>3. CASE Height(s) > 0
  <2>1. row \in 0 .. Height(s) - 1
    BY <1>1, <1>3 DEF Clamp
  <2>2. column \in Int /\ (s.columnCount > 0 => column \in 0 .. s.columnCount - 1)
    BY <1>1 DEF Clamp
  <2>3. r = PlaceOn(s, row, column)
    BY <1>1, <1>3 DEF ScreenSetCursorPosition
  <2> HIDE DEF row, column
  <2>4. /\ Like(s, r) /\ r.row = row /\ r.column = column
        /\ column \in Nat => OnIt(r)
    BY <2>1, <2>2, <2>3, PlaceLike
  <2> HIDE DEF r
  <2>5. /\ s.columnCount > 0 => OnIt(r) /\ r.column < s.columnCount
    BY <1>1, <2>2, <2>4
  <2> QED BY <1>3, <2>4, <2>5 DEF row, column, r
<1> QED BY <1>1, <1>2, <1>3

LEMMA ColumnCountLike ==
  ASSUME NEW s, ScreenOK(s), NEW count \in Nat
  PROVE  LET r == setColumnCount(s, count)
         IN  /\ SameRows(s, r) /\ r.columnCount = count
             /\ OnIt(s) /\ count > 0 => OnIt(r)
             /\ Height(s) > 0 /\ count > 0 /\ s.column >= count => OnIt(r)
             /\ count > 0 /\ OnIt(s) => r.column < count
             /\ s.column < count => r.column = s.column /\ r.row = s.row
             /\ s.rowNode # 0 /\ count > 0 => r.rowNode # 0
<1> DEFINE resized == [s EXCEPT !.columnCount = count]
           r == setColumnCount(s, count)
<1>1. /\ ScreenOK(resized) /\ SameRows(s, resized) /\ resized.columnCount = count
      /\ resized.row = s.row /\ resized.column = s.column /\ resized.rowNode = s.rowNode
      /\ Height(resized) = Height(s)
  BY DEF ScreenOK, ScreenFields, SameRows, Height
<1>2. s.column \in Int /\ s.row \in Int /\ count - 1 \in Int /\ Height(s) \in Nat
  BY RowsHeight DEF ScreenOK
<1>3. CASE s.column < count
  <2>1. r = resized
    BY <1>2, <1>3 DEF setColumnCount
  <2> HIDE DEF r, resized
  <2>2. OnIt(s) => OnIt(r)
    BY <1>1, <2>1 DEF OnIt
  <2> QED BY <1>1, <1>2, <1>3, <2>1, <2>2 DEF r
<1>4. CASE s.column >= count
  <2>1. r = ScreenSetCursorPosition(resized, s.row, count - 1)
    BY <1>4 DEF setColumnCount
  <2> HIDE DEF r, resized
  <2>2. /\ Like(resized, r) /\ (Height(s) > 0 /\ count > 0 => OnIt(r) /\ r.column < count)
        /\ Height(s) = 0 => r = resized
    BY <1>1, <1>2, <2>1, SetCursorLike
  <2>3. s.rowNode # 0 => Height(s) > 0
    BY RowsHeight
  <2>4. OnIt(s) => Height(s) > 0
    BY <1>2 DEF OnIt
  <2>5. SameRows(s, r) /\ r.columnCount = count
    BY <1>1, <2>2 DEF Like, SameRows
  <2> QED BY <1>2, <1>4, <2>2, <2>3, <2>4, <2>5 DEF r, OnIt
<1> QED BY <1>2, <1>3, <1>4

----------------------------------------------------------------------------
\* Rows that change.

LEMMA RowChanged ==
  ASSUME NEW rows, RowsOK(rows), NEW n, NEW row,
         n \in 1 .. Len(rows) => RowOK(row) /\ row.rowIndex = rows[n].rowIndex
  PROVE  /\ RowsOK(Changed(rows, n, row)) /\ Len(Changed(rows, n, row)) = Len(rows)
         /\ \A i \in 1 .. Len(rows) : Changed(rows, n, row)[i].rowIndex = rows[i].rowIndex
         /\ \A i \in 1 .. Len(rows) : i # n => Changed(rows, n, row)[i] = rows[i]
         /\ n \in 1 .. Len(rows) => Changed(rows, n, row)[n] = row
<1>1. /\ IsSeq(Changed(rows, n, row)) /\ Len(Changed(rows, n, row)) = Len(rows)
      /\ \A j \in 1 .. Len(rows) :
           Changed(rows, n, row)[j] = IF j = n THEN row ELSE rows[j]
  BY ChangedSeq DEF RowsOK
<1> QED BY <1>1 DEF RowsOK

\* The row the cursor is in, changed; the cursor stays in it.
OnRow(s, r) ==
  /\ Like(s, r) /\ r.row = s.row /\ r.rowNode = s.rowNode
  /\ r.textAttributes = s.textAttributes

LEMMA OnRowItself == ASSUME NEW s, ScreenOK(s) PROVE OnRow(s, s)
  BY LikeItself DEF OnRow

LEMMA OnRowOnRow ==
  ASSUME NEW s, NEW r, NEW q, OnRow(s, r), OnRow(r, q)
  PROVE  OnRow(s, q)
  BY LikeLike DEF OnRow

LEMMA OnRowOnIt ==
  ASSUME NEW s, NEW r, OnIt(s), OnRow(s, r), r.column \in Nat
  PROVE  OnIt(r)
  BY DEF OnRow, OnIt, Like, SameRows

LEMMA CursorRowChanged ==
  ASSUME NEW s, ScreenOK(s), s.rowNode # 0, NEW r, DOMAIN r = ScreenFields,
         NEW row, RowOK(row), row.rowIndex = CursorRow(s).rowIndex,
         r.rowsArray = Changed(s.rowsArray, s.rowNode, row),
         r.columnCount = s.columnCount, r.saved = s.saved, r.row = s.row,
         r.rowNode = s.rowNode, r.textAttributes = s.textAttributes, r.column \in Int,
         r.node \in 1 .. Len(row.nodes)
  PROVE  OnRow(s, r) /\ CursorRow(r) = row
<1>1. s.rowNode \in 1 .. Height(s) /\ RowsOK(s.rowsArray) /\ Height(s) = Len(s.rowsArray)
  BY RowsHeight DEF ScreenOK
<1>2. /\ RowsOK(r.rowsArray) /\ Len(r.rowsArray) = Len(s.rowsArray)
      /\ \A i \in 1 .. Len(s.rowsArray) : r.rowsArray[i].rowIndex = s.rowsArray[i].rowIndex
      /\ r.rowsArray[s.rowNode] = row
  BY <1>1, RowChanged DEF CursorRow
<1>3. NodeOK(r.rowsArray, r.rowNode, r.node)
  BY <1>1, <1>2 DEF NodeOK
<1> QED BY <1>1, <1>2, <1>3 DEF OnRow, Like, SameRows, ScreenOK, Height, CursorRow

LEMMA PutAtLike ==
  ASSUME NEW s, ScreenOK(s), s.rowNode # 0, NEW nodes, IsSeq(nodes),
         NEW node \in 1 .. Len(nodes), NEW offset
  PROVE  LET r == PutAt(s, nodes, node, offset)
         IN  /\ OnRow(s, r) /\ CursorRow(r).nodes = nodes /\ r.node = node
             /\ r.offset = offset /\ r.column = s.column
<1> DEFINE row == [CursorRow(s) EXCEPT !.nodes = nodes]
           r == PutAt(s, nodes, node, offset)
<1>1. RowOK(CursorRow(s)) /\ Len(nodes) \in Nat
  BY RowsHeight, SeqDomain DEF CursorRow
<1>2. RowOK(row) /\ row.rowIndex = CursorRow(s).rowIndex /\ row.nodes = nodes
  BY <1>1 DEF RowOK
<1>3. r.rowsArray = Changed(s.rowsArray, s.rowNode, row)
  BY DEF PutAt, WithNodes, Changed, CursorRow, ScreenOK, ScreenFields
<1>4. /\ DOMAIN r = ScreenFields /\ r.columnCount = s.columnCount /\ r.saved = s.saved
      /\ r.row = s.row /\ r.rowNode = s.rowNode /\ r.textAttributes = s.textAttributes
      /\ r.column = s.column /\ r.node = node /\ r.offset = offset
  BY DEF PutAt, WithNodes, ScreenOK, ScreenFields
<1>5. s.column \in Int
  BY DEF ScreenOK
<1> HIDE DEF r, row
<1>6. OnRow(s, r) /\ CursorRow(r) = row
  BY <1>2, <1>3, <1>4, <1>5, CursorRowChanged
<1> QED BY <1>2, <1>4, <1>6 DEF r

LEMMA WithNodesLike ==
  ASSUME NEW s, ScreenOK(s), s.rowNode # 0, NEW nodes, IsSeq(nodes), s.node \in 1 .. Len(nodes)
  PROVE  LET r == WithNodes(s, nodes)
         IN  /\ OnRow(s, r) /\ CursorRow(r).nodes = nodes /\ r.node = s.node
             /\ r.column = s.column
<1>1. WithNodes(s, nodes) = PutAt(s, nodes, s.node, s.offset)
  <2>1. DOMAIN WithNodes(s, nodes) = ScreenFields
    BY DEF WithNodes, ScreenOK
  <2>2. WithNodes(s, nodes).node = s.node /\ WithNodes(s, nodes).offset = s.offset
    BY DEF WithNodes, ScreenOK, ScreenFields
  <2> QED BY <2>1, <2>2 DEF PutAt, ScreenFields, WithNodes
<1> QED BY <1>1, PutAtLike

----------------------------------------------------------------------------
\* Texts.

LEMMA WidthNat ==
  ASSUME NEW str, IsSeq(str)
  PROVE  strWidth(str) \in Nat /\ strWidth(str) >= Len(str)
<1>1. DOMAIN str = 1 .. Len(str) /\ Len(str) \in Nat
  BY SeqDomain
<1>2. IsFiniteSet(1 .. Len(str))
  BY <1>1, FS_Interval
<1>3. IsFiniteSet({i \in DOMAIN str : str[i] = "WIDE"})
  BY <1>1, <1>2, FS_Subset
<1>4. Cardinality({i \in DOMAIN str : str[i] = "WIDE"}) \in Nat
  BY <1>3, FS_CardinalityType
<1> QED BY <1>1, <1>4 DEF strWidth

LEMMA BeginningSeq ==
  ASSUME NEW str, IsSeq(str), NEW width
  PROVE  IsSeq(Beginning(str, width)) /\ Len(Beginning(str, width)) \in 0 .. Len(str)
<1> DEFINE fits == {n \in 0 .. Len(str) : strWidth(SubSeq(str, 1, n)) <= width}
           end == IF fits = {} THEN 0 ELSE Max(fits)
<1>1. Len(str) \in Nat
  BY DEF IsSeq
<1>2. end \in 0 .. Len(str)
  <2>1. \A n \in fits : n \in Int /\ 0 <= n /\ n <= Len(str)
    BY <1>1
  <2> HIDE DEF fits
  <2>2. fits # {} => Max(fits) \in fits
    BY <1>1, <2>1, GreatestNumber
  <2> QED BY <1>1, <2>1, <2>2
<1>3. Beginning(str, width) = Part(str, 1, end)
  BY DEF Beginning, Part
<1> HIDE DEF end
<1>4. IsSeq(Part(str, 1, end)) /\ (1 <= end => Len(Part(str, 1, end)) = end - 1 + 1)
      /\ (1 > end => Len(Part(str, 1, end)) = 0)
  BY <1>1, <1>2, PartSeq
<1> QED BY <1>1, <1>2, <1>3, <1>4

LEMMA RemainderSeq ==
  ASSUME NEW str, IsSeq(str), NEW width
  PROVE  IsSeq(Remainder(str, width)) /\ Len(Remainder(str, width)) \in 0 .. Len(str)
<1> DEFINE m == Len(Beginning(str, width)) + 1
           r == Part(str, m, Len(str))
<1>1. Len(str) \in Nat /\ m \in 1 .. Len(str) + 1
  BY BeginningSeq DEF IsSeq
<1>2. Remainder(str, width) = r
  BY DEF Remainder, Part
<1> HIDE DEF m, r
<1>3. IsSeq(r) /\ (m <= Len(str) => Len(r) = Len(str) - m + 1) /\ (m > Len(str) => Len(r) = 0)
  BY <1>1, PartSeq DEF r
<1> QED BY <1>1, <1>2, <1>3

LEMMA CutSeq ==
  ASSUME NEW str, IsSeq(str), NEW start, NEW width
  PROVE  IsSeq(substr(str, start, width))
  BY BeginningSeq, RemainderSeq DEF substr

LEMMA BlanksSeq ==
  ASSUME NEW count \in Int
  PROVE  IsSeq(Blanks(count)) /\ (count >= 0 => Len(Blanks(count)) = count)
<1> DEFINE n == IF count >= 0 THEN count ELSE 0
           f == [i \in 1 .. count |-> " "]
<1>1. n \in Nat /\ 1 .. count = 1 .. n
  OBVIOUS
<1>2. DOMAIN f = 1 .. n /\ f = [i \in DOMAIN f |-> f[i]]
  BY <1>1
<1>3. Blanks(count) = f
  BY DEF Blanks
<1> HIDE DEF f
<1>4. IsSeq(f) /\ Len(f) = n
  BY <1>1, <1>2, SeqFunction
<1> QED BY <1>3, <1>4

----------------------------------------------------------------------------
\* Rows that are cleared.

LEMMA ClearedRowOK ==
  ASSUME NEW s, NEW row, RowOK(row)
  PROVE  RowOK(ClearedRow(s, row)) /\ ClearedRow(s, row).rowIndex = row.rowIndex
         /\ Len(ClearedRow(s, row).nodes) = 1
<1> DEFINE attrs == s.textAttributes
           text == IF isDefault(attrs) THEN <<>> ELSE Blanks(s.columnCount)
           style == [attrs EXCEPT !.flags = @ \ {"inverse"}]
           new == createContainer(style, text)
<1>1. ClearedRow(s, row) = [row EXCEPT !.nodes = Only(new), !.overflow = FALSE]
  BY DEF ClearedRow, Only
<1>2. IsSeq(Only(new)) /\ Len(Only(new)) = 1
  BY OnlySeq
<1> HIDE DEF new
<1> QED BY <1>1, <1>2 DEF RowOK

LEMMA ClearCursorRowLike ==
  ASSUME NEW s, ScreenOK(s), s.rowNode # 0
  PROVE  OnRow(s, clearCursorRow(s)) /\ clearCursorRow(s).column = 0
<1> DEFINE r == clearCursorRow(s)
           row == ClearedRow(s, CursorRow(s))
<1>1. RowOK(row) /\ row.rowIndex = CursorRow(s).rowIndex /\ Len(row.nodes) = 1
  BY RowsHeight, ClearedRowOK DEF CursorRow
<1>2. r.rowsArray = Changed(s.rowsArray, s.rowNode, row)
  BY DEF clearCursorRow, Changed, CursorRow, ScreenOK, ScreenFields
<1>3. /\ DOMAIN r = ScreenFields /\ r.columnCount = s.columnCount /\ r.saved = s.saved
      /\ r.row = s.row /\ r.rowNode = s.rowNode /\ r.textAttributes = s.textAttributes
      /\ r.column = 0 /\ r.node = 1
  BY DEF clearCursorRow, ScreenOK, ScreenFields
<1> HIDE DEF r, row
<1>4. r.column \in Int /\ r.node \in 1 .. Len(row.nodes)
  BY <1>1, <1>3
<1>5. OnRow(s, r)
  BY <1>1, <1>2, <1>3, <1>4, CursorRowChanged
<1> QED BY <1>3, <1>5 DEF r

LEMMA ClearedRowsLike ==
  ASSUME NEW s, ScreenOK(s), NEW rows, NEW last, rows # {} => last \in 0 .. Height(s) - 1
  PROVE  LET r == ClearedRows(s, rows, last)
         IN  /\ Like(s, r) /\ (rows = {} => r = s)
             /\ rows # {} => OnIt(r) /\ r.row = last /\ r.column = 0
<1> DEFINE r == ClearedRows(s, rows, last)
           new == [i \in DOMAIN s.rowsArray |->
                     IF i - 1 \in rows THEN ClearedRow(s, s.rowsArray[i]) ELSE s.rowsArray[i]]
<1>1. CASE rows = {}
  BY <1>1, LikeItself DEF ClearedRows
<1>2. CASE rows # {}
  <2>1. r = [s EXCEPT !.rowsArray = new, !.row = last, !.column = 0, !.overflow = FALSE,
                      !.rowNode = last + 1, !.node = 1, !.offset = 0]
    BY <1>2 DEF ClearedRows
  <2>2. /\ DOMAIN s.rowsArray = 1 .. Height(s) /\ Height(s) \in Nat
        /\ Height(s) = Len(s.rowsArray)
    BY RowsHeight, SeqDomain
  <2>3. IsSeq(new) /\ Len(new) = Height(s)
    <3>1. DOMAIN new = 1 .. Height(s) /\ new = [i \in DOMAIN new |-> new[i]]
      BY <2>2
    <3> HIDE DEF new
    <3> QED BY <2>2, <3>1, SeqFunction
  <2>4. ASSUME NEW i \in 1 .. Height(s)
        PROVE  RowOK(new[i]) /\ new[i].rowIndex = s.rowsArray[i].rowIndex
    <3>1. RowOK(s.rowsArray[i])
      BY RowsHeight
    <3>2. new[i] = IF i - 1 \in rows THEN ClearedRow(s, s.rowsArray[i]) ELSE s.rowsArray[i]
      BY <2>2
    <3> QED BY <3>1, <3>2, ClearedRowOK
  <2> HIDE DEF new, r
  <2>5. /\ DOMAIN r = ScreenFields /\ r.rowsArray = new /\ r.row = last /\ r.column = 0
        /\ r.rowNode = last + 1 /\ r.node = 1 /\ r.columnCount = s.columnCount
        /\ r.saved = s.saved
    BY <2>1 DEF ScreenOK, ScreenFields
  <2>6. RowsOK(new)
    BY <2>3, <2>4 DEF RowsOK
  <2>7. NodeOK(new, last + 1, 1)
    <3>1. last + 1 \in 1 .. Height(s)
      BY <1>2, <2>2
    <3>2. Len(new[last + 1].nodes) \in Nat /\ Len(new[last + 1].nodes) > 0
      BY <2>4, <3>1, SeqDomain DEF RowOK
    <3> QED BY <2>2, <2>3, <3>1, <3>2 DEF NodeOK
  <2>8. ScreenOK(r)
    BY <1>2, <2>2, <2>5, <2>6, <2>7 DEF ScreenOK
  <2>9. Like(s, r) /\ OnIt(r) /\ r.row = last /\ r.column = 0
    BY <1>2, <2>2, <2>3, <2>4, <2>5, <2>8 DEF Like, SameRows, OnIt, Height
  <2> QED BY <1>2, <2>9 DEF r
<1> QED BY <1>1, <1>2

\* Clearing needs a column to put the cursor in.
LEMMA ClearHomeLike ==
  ASSUME NEW s, ScreenOK(s)
  PROVE  LET r == clearHome(s)
         IN  /\ Like(s, r) /\ (Height(s) = 0 => r = s)
             /\ Height(s) > 0 /\ s.columnCount > 0 =>
                  OnIt(r) /\ r.row = 0 /\ r.column = 0
<1> DEFINE q == ClearedRows(s, 0 .. Height(s) - 1, Height(s) - 1)
           r == clearHome(s)
<1>1. Height(s) \in Nat /\ s.columnCount \in Nat
  BY RowsHeight DEF ScreenOK
<1>2. 0 .. Height(s) - 1 # {} => Height(s) - 1 \in 0 .. Height(s) - 1
  BY <1>1
<1>3. Like(s, q) /\ (0 .. Height(s) - 1 = {} => q = s)
  BY <1>2, ClearedRowsLike
<1>4. r = ScreenSetCursorPosition(q, 0, 0)
  BY DEF clearHome
<1> HIDE DEF q, r
<1>5. /\ ScreenOK(q) /\ Height(q) = Height(s) /\ q.columnCount = s.columnCount
      /\ (Height(s) = 0 => q = s)
  BY <1>1, <1>3 DEF Like, SameRows
<1>6. /\ Like(q, r) /\ (Height(q) = 0 => r = q)
      /\ Height(q) > 0 => /\ r.row = Clamp(0, 0, Height(q) - 1)
                          /\ q.columnCount > 0 =>
                               OnIt(r) /\ r.column = Clamp(0, 0, q.columnCount - 1)
  BY <1>4, <1>5, SetCursorLike
<1>7. Like(s, r)
  BY <1>3, <1>6, LikeLike
<1>8. Height(s) > 0 => Clamp(0, 0, Height(q) - 1) = 0
  BY <1>1, <1>5 DEF Clamp
<1>9. s.columnCount > 0 => Clamp(0, 0, q.columnCount - 1) = 0
  BY <1>1, <1>5 DEF Clamp
<1> QED BY <1>5, <1>6, <1>7, <1>8, <1>9 DEF r

LEMMA CommitLike ==
  ASSUME NEW s, ScreenOK(s), s.rowNode # 0
  PROVE  OnRow(s, commitLineOverflow(s)) /\ commitLineOverflow(s).column = s.column
<1> DEFINE r == commitLineOverflow(s)
           row == [CursorRow(s) EXCEPT !.overflow = TRUE]
<1>0. RowOK(CursorRow(s)) /\ s.node \in 1 .. Len(CursorRow(s).nodes)
  BY RowsHeight DEF CursorRow
<1>1. RowOK(row) /\ row.rowIndex = CursorRow(s).rowIndex /\ row.nodes = CursorRow(s).nodes
  BY <1>0 DEF RowOK
<1>2. r.rowsArray = Changed(s.rowsArray, s.rowNode, row)
  BY DEF commitLineOverflow, Changed, CursorRow, ScreenOK, ScreenFields
<1>3. /\ DOMAIN r = ScreenFields /\ r.columnCount = s.columnCount /\ r.saved = s.saved
      /\ r.row = s.row /\ r.rowNode = s.rowNode /\ r.textAttributes = s.textAttributes
      /\ r.column = s.column /\ r.node = s.node
  BY DEF commitLineOverflow, ScreenOK, ScreenFields
<1>4. s.column \in Int
  BY DEF ScreenOK
<1> HIDE DEF r, row
<1>5. OnRow(s, r)
  BY <1>0, <1>1, <1>2, <1>3, <1>4, CursorRowChanged
<1> QED BY <1>3, <1>5 DEF r

----------------------------------------------------------------------------
\* Clipping.

\* What the cursor's row has of nodes, and the cursor of places in it.
LEMMA CursorNodes ==
  ASSUME NEW s, ScreenOK(s), s.rowNode # 0
  PROVE  /\ IsSeq(CursorRow(s).nodes) /\ Len(CursorRow(s).nodes) \in Nat
         /\ s.node \in 1 .. Len(CursorRow(s).nodes) /\ s.column \in Int
  BY RowsHeight DEF ScreenOK

LEMMA CutLike ==
  ASSUME NEW s, ScreenOK(s), s.rowNode # 0
  PROVE  OnRow(s, CutAtCursor(s)) /\ CutAtCursor(s).column = s.column
<1> DEFINE node == CursorNode(s)
           kept == IF s.offset < nodeWidth(node) - 1
                   THEN [node EXCEPT !.text = Beginning(@, s.offset + 1)] ELSE node
           left == Part(CursorRow(s).nodes, 1, s.node - 1)
           nodes == Added(left, kept)
<1>1. IsSeq(left) /\ Len(left) = s.node - 1
  <2>1. /\ IsSeq(left) /\ (1 <= s.node - 1 => Len(left) = s.node - 1 - 1 + 1)
        /\ (1 > s.node - 1 => Len(left) = 0)
    BY CursorNodes, PartSeq
  <2> QED BY <2>1, CursorNodes
<1>2. CutAtCursor(s) = WithNodes(s, nodes)
  BY DEF CutAtCursor, Added, Part
<1> HIDE DEF left, kept
<1>3. IsSeq(nodes) /\ Len(nodes) = Len(left) + 1
  BY <1>1, AddedSeq
<1> HIDE DEF nodes
<1>4. s.node \in 1 .. Len(nodes)
  BY <1>1, <1>3, CursorNodes
<1> QED BY <1>2, <1>3, <1>4, WithNodesLike

LEMMA ClipEndsLike ==
  ASSUME NEW s, ScreenOK(s), OnIt(s), s.columnCount > 0,
         NEW r, Like(s, r), OnIt(r), NEW beyond \in BOOLEAN,
         beyond => r.column < s.columnCount,
         ~beyond => s.column < s.columnCount
  PROVE  LET q == ClipEnds(s, r, beyond)
         IN  Like(s, q) /\ OnIt(q) /\ q.column < s.columnCount
<1> DEFINE q == ClipEnds(s, r, beyond)
<1>1. CASE beyond
  <2>1. q = [r EXCEPT !.overflow = TRUE]
    BY <1>1 DEF ClipEnds
  <2>2. /\ DOMAIN q = ScreenFields /\ q.rowsArray = r.rowsArray /\ q.row = r.row
        /\ q.column = r.column /\ q.columnCount = r.columnCount /\ q.saved = r.saved
        /\ q.rowNode = r.rowNode /\ q.node = r.node
    BY <2>1 DEF Like, SameRows, ScreenOK, ScreenFields
  <2> HIDE DEF q
  <2>3. Like(s, q) /\ OnIt(q)
    BY <2>2 DEF Like, SameRows, ScreenOK, OnIt, Height
  <2> QED BY <1>1, <2>2, <2>3 DEF q
<1>2. CASE ~beyond /\ r = s
  <2>1. q = s
    BY <1>2 DEF ClipEnds
  <2> QED BY <1>2, <2>1, LikeItself
<1>3. CASE ~beyond /\ r # s
  <2>1. q = ScreenSetCursorPosition(r, s.row, s.column)
    BY <1>3 DEF ClipEnds
  <2>2. ScreenOK(r) /\ Height(r) > 0 /\ r.columnCount = s.columnCount
    BY RowsHeight DEF Like, SameRows, OnIt
  <2>3. s.row \in Int /\ s.column \in Int
    BY DEF ScreenOK
  <2> HIDE DEF q
  <2>4. Like(r, q) /\ OnIt(q) /\ q.column < r.columnCount
    BY <2>1, <2>2, <2>3, SetCursorLike
  <2>5. Like(s, q)
    BY <2>4, LikeLike
  <2> QED BY <2>2, <2>4, <2>5 DEF q
<1> QED BY <1>1, <1>2, <1>3

LEMMA OnItFacts ==
  ASSUME NEW s, ScreenOK(s), OnIt(s)
  PROVE  /\ Height(s) \in Nat /\ Height(s) > 0 /\ s.columnCount \in Nat
         /\ s.row \in Int /\ s.column \in Nat /\ s.rowNode # 0
<1>1. Height(s) \in Nat
  BY RowsHeight
<1> QED BY <1>1 DEF ScreenOK, OnIt

\* After the row has been clipped the cursor is in a column of the screen.
LEMMA ClipLike ==
  ASSUME NEW s, ScreenOK(s), OnIt(s), s.columnCount > 0
  PROVE  LET r == maybeClipCurrentRow(s)
         IN  Like(s, r) /\ OnIt(r) /\ r.column < s.columnCount
<1> DEFINE last == s.columnCount - 1
           beyond == s.column > last
           tooFar == RowWidth(CursorRow(s)) > s.columnCount
           onLast == IF tooFar \/ beyond THEN ScreenSetCursorPosition(s, s.row, last) ELSE s
           clipped == IF tooFar THEN CutAtCursor(onLast) ELSE onLast
<1>1. maybeClipCurrentRow(s) = ClipEnds(s, clipped, beyond)
  BY DEF maybeClipCurrentRow
<1>2. /\ s.columnCount \in Nat /\ s.row \in Int /\ s.column \in Int /\ Height(s) > 0
      /\ last \in Int
  BY OnItFacts
<1>3. /\ Like(s, onLast) /\ OnIt(onLast)
      /\ tooFar \/ beyond => onLast.column < s.columnCount
  BY <1>2, SetCursorLike, LikeItself
<1> HIDE DEF onLast, tooFar
<1>4. Like(s, clipped) /\ OnIt(clipped) /\ clipped.column = onLast.column
  <2>1. ScreenOK(onLast) /\ onLast.rowNode # 0 /\ onLast.column \in Nat
    BY <1>3 DEF Like, SameRows, OnIt
  <2>2. OnRow(onLast, CutAtCursor(onLast)) /\ CutAtCursor(onLast).column = onLast.column
    BY <2>1, CutLike
  <2>3. Like(s, CutAtCursor(onLast)) /\ OnIt(CutAtCursor(onLast))
    BY <1>3, <2>1, <2>2, LikeLike, OnRowOnIt DEF OnRow
  <2> QED BY <1>3, <2>2, <2>3
<1> HIDE DEF clipped
<1>5. beyond \in BOOLEAN /\ (~beyond => s.column < s.columnCount)
  BY <1>2
<1>6. beyond => clipped.column < s.columnCount
  BY <1>3, <1>4
<1> HIDE DEF beyond
<1> QED BY <1>1, <1>4, <1>5, <1>6, ClipEndsLike

----------------------------------------------------------------------------
\* A text at the cursor.

LEMMA FillGapLike ==
  ASSUME NEW s, ScreenOK(s), s.rowNode # 0
  PROVE  OnRow(s, FillGap(s)) /\ FillGap(s).column = s.column
<1> DEFINE nodes == CursorRow(s).nodes
           node == CursorNode(s)
           gap == s.offset - nodeWidth(node)
           r == FillGap(s)
<1>1. CASE gap <= 0
  BY <1>1, OnRowItself DEF FillGap
<1>2. CASE ~(gap <= 0) /\ TakesBlanks(node)
  <2> DEFINE new == [node EXCEPT !.text = @ \o Blanks(gap)]
             row == [CursorRow(s) EXCEPT !.nodes = Changed(nodes, s.node, new)]
  <2>1. r.rowsArray = Changed(s.rowsArray, s.rowNode, row)
    BY <1>2 DEF FillGap, Changed, CursorRow, CursorNode, ScreenOK, ScreenFields
  <2>2. /\ DOMAIN r = ScreenFields /\ r.columnCount = s.columnCount /\ r.saved = s.saved
        /\ r.row = s.row /\ r.rowNode = s.rowNode /\ r.textAttributes = s.textAttributes
        /\ r.column = s.column /\ r.node = s.node
    BY <1>2 DEF FillGap, ScreenOK, ScreenFields
  <2> HIDE DEF new, r
  <2>3. IsSeq(Changed(nodes, s.node, new)) /\ Len(Changed(nodes, s.node, new)) = Len(nodes)
    BY CursorNodes, ChangedSeq
  <2>4. RowOK(CursorRow(s))
    BY RowsHeight DEF CursorRow
  <2>5. /\ RowOK(row) /\ row.rowIndex = CursorRow(s).rowIndex
        /\ row.nodes = Changed(nodes, s.node, new)
    BY <2>3, <2>4, CursorNodes DEF RowOK
  <2>6. s.node \in 1 .. Len(row.nodes) /\ s.column \in Int
    BY <2>3, <2>5, CursorNodes
  <2> HIDE DEF row
  <2>7. OnRow(s, r)
    BY <2>1, <2>2, <2>5, <2>6, CursorRowChanged
  <2> QED BY <2>2, <2>7 DEF r
<1>3. CASE ~(gap <= 0) /\ ~TakesBlanks(node)
  <2> DEFINE new == InsertAt(nodes, s.node + 1, TextNode(Blanks(gap)))
  <2>1. r = [WithNodes(s, new) EXCEPT !.node = @ + 1, !.offset = gap]
    BY <1>3 DEF FillGap
  <2>2. s.node + 1 \in 1 .. Len(nodes) + 1
    BY CursorNodes
  <2>3. IsSeq(new) /\ Len(new) = Len(nodes) + 1
    BY <2>2, CursorNodes, InsertAtSeq
  <2> HIDE DEF new, gap
  <2>4. s.node + 1 \in 1 .. Len(new) /\ s.node \in 1 .. Len(new)
    BY <2>3, CursorNodes
  <2>5. r = PutAt(s, new, s.node + 1, gap)
    <3>1. ScreenOK(WithNodes(s, new)) /\ WithNodes(s, new).node = s.node
      BY <2>3, <2>4, WithNodesLike DEF OnRow, Like, SameRows
    <3> QED BY <2>1, <3>1 DEF PutAt, ScreenOK, ScreenFields
  <2> QED BY <2>3, <2>4, <2>5, PutAtLike
<1> QED BY <1>1, <1>2, <1>3

\* What the operators below keep.
LEMMA PutLike ==
  ASSUME NEW s, ScreenOK(s), s.rowNode # 0, NEW nodes, IsSeq(nodes),
         NEW node \in 1 .. Len(nodes), NEW offset
  PROVE  /\ OnRow(s, PutAt(s, nodes, node, offset))
         /\ PutAt(s, nodes, node, offset).column = s.column
  BY PutAtLike

LEMMA PutBetweenLike ==
  ASSUME NEW s, ScreenOK(s), s.rowNode # 0, NEW new, NEW width,
         NEW left, IsSeq(left), NEW half, IsSeq(half), Len(half) <= 1, NEW right, IsSeq(right)
  PROVE  /\ OnRow(s, PutBetween(s, new, width, left, half, right))
         /\ PutBetween(s, new, width, left, half, right).column = s.column
<1>0. Len(left) \in Nat /\ Len(right) \in Nat /\ Len(half) \in Nat
  BY SeqDomain
<1>1. CASE half = <<>>
  <2> DEFINE both == Joined(left, right)
             nodes == Joined(both, Only(new))
  <2>1. IsSeq(both) /\ Len(both) = Len(left) + Len(right)
    BY JoinedSeq
  <2>2. IsSeq(Only(new)) /\ Len(Only(new)) = 1
    BY OnlySeq
  <2>3. PutBetween(s, new, width, left, half, right) = PutAt(s, nodes, Len(both) + 1, width)
    BY <1>1 DEF PutBetween, Joined, Only
  <2> HIDE DEF both
  <2>4. IsSeq(nodes) /\ Len(nodes) = Len(both) + Len(Only(new))
    BY <2>1, <2>2, JoinedSeq
  <2> HIDE DEF nodes
  <2>5. Len(both) + 1 \in 1 .. Len(nodes)
    BY <1>0, <2>1, <2>2, <2>4
  <2> QED BY <2>3, <2>4, <2>5, PutLike
<1>2. CASE half # <<>>
  <2> DEFINE first == Joined(left, half)
             both == Joined(first, Only(new))
             nodes == Joined(both, right)
  <2>1. IsSeq(first) /\ Len(first) = Len(left) + Len(half)
    BY JoinedSeq
  <2>2. IsSeq(Only(new)) /\ Len(Only(new)) = 1
    BY OnlySeq
  <2>3. PutBetween(s, new, width, left, half, right) = PutAt(s, nodes, Len(left) + 2, width)
    BY <1>2 DEF PutBetween, Joined, Only
  <2>4. Len(half) = 1
    <3>1. half = <<>> <=> Len(half) = 0
      BY SeqDomain
    <3> QED BY <1>0, <1>2, <3>1
  <2> HIDE DEF first
  <2>5. IsSeq(both) /\ Len(both) = Len(first) + Len(Only(new))
    BY <2>1, <2>2, JoinedSeq
  <2> HIDE DEF both
  <2>6. IsSeq(nodes) /\ Len(nodes) = Len(both) + Len(right)
    BY <2>5, JoinedSeq
  <2> HIDE DEF nodes
  <2>7. Len(left) + 2 \in 1 .. Len(nodes)
    <3>1. Len(nodes) = Len(left) + 1 + 1 + Len(right)
      BY <2>1, <2>2, <2>4, <2>5, <2>6
    <3>2. ASSUME NEW m \in Nat, NEW n \in Nat PROVE m + 2 \in 1 .. m + 1 + 1 + n
      OBVIOUS
    <3> QED BY <1>0, <3>1, <3>2
  <2> QED BY <2>3, <2>6, <2>7, PutLike
<1> QED BY <1>1, <1>2

LEMMA SplitLike ==
  ASSUME NEW s, ScreenOK(s), s.rowNode # 0, NEW new, NEW width
  PROVE  /\ OnRow(s, splitAndInsert(s, new, width))
         /\ splitAndInsert(s, new, width).column = s.column
<1> DEFINE node == CursorNode(s)
           nodes == CursorRow(s).nodes
           begin == Beginning(node.text, s.offset)
           end == Remainder(node.text, s.offset)
           before == Part(nodes, 1, s.node - 1)
           after == Part(nodes, s.node + 1, Len(nodes))
           Half(text) == IF text = <<>> THEN <<>> ELSE Only([node EXCEPT !.text = text])
           Rest(text) == IF text = <<>> THEN <<>>
                         ELSE Only(createContainer(CloneStyle(node.style), text))
           right == Joined(Rest(end), after)
<1>1. splitAndInsert(s, new, width) = PutBetween(s, new, width, before, Half(begin), right)
  BY DEF splitAndInsert, Part, Only, Joined
<1>2. IsSeq(before) /\ IsSeq(after)
  <2>1. /\ s.node - 1 \in Int /\ s.node - 1 <= Len(nodes) /\ s.node + 1 \in Int
        /\ 1 <= s.node + 1 /\ Len(nodes) \in Int /\ Len(nodes) <= Len(nodes)
    BY CursorNodes
  <2>2. IsSeq(before)
    BY <2>1, CursorNodes, PartSeq
  <2>3. IsSeq(after)
    BY <2>1, CursorNodes, PartSeq
  <2> QED BY <2>2, <2>3
<1> HIDE DEF begin, end
<1>3. IsSeq(Half(begin)) /\ Len(Half(begin)) <= 1
  <2>1. CASE begin = <<>>
    BY <2>1, EmptySequence
  <2>2. CASE begin # <<>>
    <3> DEFINE x == [node EXCEPT !.text = begin]
    <3>1. Half(begin) = Only(x)
      BY <2>2
    <3>2. IsSeq(Only(x)) /\ Len(Only(x)) = 1
      BY OnlySeq
    <3> HIDE DEF x, Half
    <3> QED BY <3>1, <3>2
  <2> QED BY <2>1, <2>2
<1>4. IsSeq(Rest(end))
  <2>1. CASE end = <<>>
    BY <2>1, EmptySequence
  <2>2. CASE end # <<>>
    BY <2>2, OnlySeq
  <2> QED BY <2>1, <2>2
<1> HIDE DEF before, after, Half, Rest
<1>5. IsSeq(right)
  BY <1>2, <1>4, JoinedSeq
<1> QED BY <1>1, <1>2, <1>3, <1>5, PutBetweenLike

\* A node with another text.
LEMMA NodeChanged ==
  ASSUME NEW nodes, IsSeq(nodes), NEW n, NEW text
  PROVE  LET new == [nodes EXCEPT ![n].text = text]
         IN  IsSeq(new) /\ Len(new) = Len(nodes)
<1>1. [nodes EXCEPT ![n].text = text] = Changed(nodes, n, [nodes[n] EXCEPT !.text = text])
  BY DEF Changed
<1>2. /\ IsSeq(Changed(nodes, n, [nodes[n] EXCEPT !.text = text]))
      /\ Len(Changed(nodes, n, [nodes[n] EXCEPT !.text = text])) = Len(nodes)
  BY ChangedSeq
<1> QED BY <1>1, <1>2

LEMMA BesideLike ==
  ASSUME NEW s, ScreenOK(s), s.rowNode # 0, NEW nodes, IsSeq(nodes), NEW n \in 1 .. Len(nodes),
         NEW new, NEW width
  PROVE  /\ OnRow(s, InsertBeside(s, nodes, n, new, width))
         /\ InsertBeside(s, nodes, n, new, width).column = s.column
<1> DEFINE r == InsertBeside(s, nodes, n, new, width)
           ending == s.offset > 0 /\ s.offset >= nodeWidth(nodes[n])
           joinsBefore == n > 1 /\ matchesContainer(new.style, nodes[n - 1])
           joinsAfter == n < Len(nodes) /\ matchesContainer(new.style, nodes[n + 1])
<1>0. Len(nodes) \in Nat
  BY DEF IsSeq
<1>1. CASE s.offset = 0 /\ joinsBefore
  <2> DEFINE text == nodes[n - 1].text \o new.text
             other == [nodes EXCEPT ![n - 1].text = text]
  <2>1. r = PutAt(s, other, n - 1, nodeWidth(nodes[n - 1]) + width)
    BY <1>1 DEF InsertBeside
  <2> HIDE DEF text
  <2>2. IsSeq(other) /\ Len(other) = Len(nodes)
    BY NodeChanged
  <2> HIDE DEF other
  <2>3. n - 1 \in 1 .. Len(other)
    BY <1>0, <1>1, <2>2
  <2> QED BY <2>1, <2>2, <2>3, PutLike
<1>2. CASE s.offset = 0 /\ ~joinsBefore
  <2> DEFINE other == InsertAt(nodes, n, new)
  <2>1. r = PutAt(s, other, n, width)
    BY <1>2 DEF InsertBeside
  <2>2. IsSeq(other) /\ Len(other) = Len(nodes) + 1
    BY <1>0, InsertAtSeq
  <2> HIDE DEF other
  <2>3. n \in 1 .. Len(other)
    BY <1>0, <2>2
  <2> QED BY <2>1, <2>2, <2>3, PutLike
<1>3. CASE s.offset # 0 /\ ending /\ joinsAfter
  <2> DEFINE text == new.text \o nodes[n + 1].text
             other == [nodes EXCEPT ![n + 1].text = text]
  <2>1. r = PutAt(s, other, n + 1, width)
    BY <1>3 DEF InsertBeside
  <2> HIDE DEF text
  <2>2. IsSeq(other) /\ Len(other) = Len(nodes)
    BY NodeChanged
  <2> HIDE DEF other
  <2>3. n + 1 \in 1 .. Len(other)
    BY <1>0, <1>3, <2>2
  <2> QED BY <2>1, <2>2, <2>3, PutLike
<1>4. CASE s.offset # 0 /\ ending /\ ~joinsAfter
  <2> DEFINE other == InsertAt(nodes, n + 1, new)
  <2>1. r = PutAt(s, other, n + 1, width)
    BY <1>4 DEF InsertBeside
  <2>2. n + 1 \in 1 .. Len(nodes) + 1
    BY <1>0
  <2>3. IsSeq(other) /\ Len(other) = Len(nodes) + 1
    BY <2>2, InsertAtSeq
  <2> HIDE DEF other
  <2>4. n + 1 \in 1 .. Len(other)
    BY <2>2, <2>3
  <2> QED BY <2>1, <2>3, <2>4, PutLike
<1>5. CASE s.offset # 0 /\ ~ending
  <2>1. r = splitAndInsert(s, new, width)
    BY <1>5 DEF InsertBeside
  <2> QED BY <2>1, SplitLike
<1> QED BY <1>1, <1>2, <1>3, <1>4, <1>5

LEMMA InsertFilledLike ==
  ASSUME NEW s, ScreenOK(s), s.rowNode # 0, NEW new, NEW width
  PROVE  /\ OnRow(s, insertFilled(s, new, width))
         /\ insertFilled(s, new, width).column = s.column
<1> DEFINE nodes == CursorRow(s).nodes
           n == s.node
           r == insertFilled(s, new, width)
           joins == matchesContainer(new.style, nodes[n])
<1>0. r = insertAtCursor(s, nodes, n, new, width)
  BY DEF insertFilled
<1>1. CASE joins
  <2> DEFINE text == Beginning(nodes[n].text, s.offset) \o new.text
                       \o Remainder(nodes[n].text, s.offset)
             other == [nodes EXCEPT ![n].text = text]
  <2>1. r = PutAt(s, other, n, s.offset + width)
    BY <1>0, <1>1 DEF insertAtCursor
  <2> HIDE DEF text
  <2>2. IsSeq(other) /\ Len(other) = Len(nodes)
    BY CursorNodes, NodeChanged
  <2> HIDE DEF other
  <2>3. n \in 1 .. Len(other)
    BY <2>2, CursorNodes
  <2> QED BY <2>1, <2>2, <2>3, PutLike
<1>2. CASE ~joins
  <2>1. r = InsertBeside(s, nodes, n, new, width)
    BY <1>0, <1>2 DEF insertAtCursor
  <2> QED BY <2>1, CursorNodes, BesideLike
<1> QED BY <1>1, <1>2

\* A text put in moves the cursor to the right.
LEMMA InsertLike ==
  ASSUME NEW s, ScreenOK(s), OnIt(s), NEW str, IsSeq(str)
  PROVE  LET r == insertString(s, str)
         IN  /\ OnRow(s, r) /\ OnIt(r) /\ r.column = s.column + strWidth(str)
<1> DEFINE filled == FillGap(s)
           row == [CursorRow(filled) EXCEPT !.overflow = FALSE]
           q == [filled EXCEPT !.column = @ + strWidth(str),
                               !.rowsArray[s.rowNode].overflow = FALSE]
           new == createContainer(PrintAttributes(s, str), str)
           r == insertFilled(q, new, strWidth(str))
<1>1. insertString(s, str) = r
  BY DEF insertString
<1>2. OnRow(s, filled) /\ filled.column = s.column /\ s.rowNode # 0 /\ s.column \in Nat
  BY FillGapLike DEF OnIt
<1>3. strWidth(str) \in Nat
  BY WidthNat
<1> HIDE DEF filled, new
<1>4. ScreenOK(filled) /\ filled.rowNode = s.rowNode
  BY <1>2 DEF OnRow, Like, SameRows
<1>5. RowOK(CursorRow(filled)) /\ filled.node \in 1 .. Len(CursorRow(filled).nodes)
  BY <1>2, <1>4, RowsHeight DEF CursorRow
<1>6. RowOK(row) /\ row.rowIndex = CursorRow(filled).rowIndex
      /\ row.nodes = CursorRow(filled).nodes
  BY <1>5 DEF RowOK
<1>7. q.rowsArray = Changed(filled.rowsArray, filled.rowNode, row)
  BY <1>4 DEF Changed, CursorRow, ScreenOK, ScreenFields
<1>8. /\ DOMAIN q = ScreenFields /\ q.columnCount = filled.columnCount
      /\ q.saved = filled.saved /\ q.row = filled.row /\ q.rowNode = filled.rowNode
      /\ q.textAttributes = filled.textAttributes
      /\ q.column = filled.column + strWidth(str) /\ q.node = filled.node
  BY <1>4 DEF ScreenOK, ScreenFields
<1> HIDE DEF q, row
<1>9. q.column \in Int /\ q.node \in 1 .. Len(row.nodes) /\ filled.rowNode # 0
  BY <1>2, <1>3, <1>4, <1>5, <1>6, <1>8
<1>10. OnRow(filled, q)
  BY <1>4, <1>6, <1>7, <1>8, <1>9, CursorRowChanged
<1>11. ScreenOK(q) /\ q.rowNode # 0
  BY <1>8, <1>9, <1>10 DEF OnRow, Like, SameRows
<1>12. OnRow(q, r) /\ r.column = q.column
  BY <1>11, InsertFilledLike
<1> HIDE DEF r
<1>13. OnRow(s, r)
  BY <1>2, <1>10, <1>12, OnRowOnRow
<1>14. r.column = s.column + strWidth(str) /\ r.column \in Nat
  BY <1>2, <1>3, <1>8, <1>12
<1>15. OnIt(r)
  BY <1>13, <1>14, OnRowOnIt
<1> QED BY <1>1, <1>13, <1>14, <1>15

----------------------------------------------------------------------------
\* Deletions.

\* The cursor's node is never to the right of the place the walk has come to.
Walked(s, walk) ==
  /\ OnRow(s, walk.screen) /\ walk.screen.column = s.column
  /\ walk.at \in Int /\ walk.screen.node <= walk.at

LEMMA DeleteOnLike ==
  ASSUME NEW s, ScreenOK(s), s.rowNode # 0, NEW nodes, IsSeq(nodes),
         NEW at \in 1 .. Len(nodes), NEW cursor \in 1 .. at, NEW count
  PROVE  Walked(s, DeleteOn(s, nodes, at, cursor, count))
<1>0. Len(nodes) \in Nat
  BY DEF IsSeq
<1>1. CASE nodes[at].text = <<>> /\ at # cursor
  <2> DEFINE others == RemoveAt(nodes, at)
             r == PutAt(s, others, cursor, s.offset)
  <2>1. DeleteOn(s, nodes, at, cursor, count) = Walk(r, at, 0, count)
    BY <1>1 DEF DeleteOn
  <2>2. IsSeq(others) /\ Len(others) = Len(nodes) - 1
    BY RemoveAtSeq
  <2> HIDE DEF others
  <2>3. cursor \in 1 .. Len(others)
    BY <1>0, <1>1, <2>2
  <2>4. OnRow(s, r) /\ r.column = s.column /\ r.node = cursor
    BY <2>2, <2>3, PutAtLike
  <2> HIDE DEF r
  <2> QED BY <2>1, <2>4 DEF Walk, Walked
<1>2. CASE ~(nodes[at].text = <<>> /\ at # cursor)
  <2> DEFINE r == PutAt(s, nodes, cursor, s.offset)
  <2>1. DeleteOn(s, nodes, at, cursor, count) = Walk(r, at + 1, 0, count)
    BY <1>2 DEF DeleteOn
  <2>3. cursor \in 1 .. Len(nodes)
    BY <1>0
  <2>4. OnRow(s, r) /\ r.column = s.column /\ r.node = cursor
    BY <2>3, PutAtLike
  <2> HIDE DEF r
  <2>5. at + 1 \in Int /\ cursor <= at + 1
    OBVIOUS
  <2> QED BY <2>1, <2>4, <2>5 DEF Walk, Walked
<1> QED BY <1>1, <1>2

LEMMA HalveLike ==
  ASSUME NEW s, ScreenOK(s), s.rowNode # 0, NEW nodes, IsSeq(nodes),
         NEW at \in 1 .. Len(nodes), s.node \in 1 .. at, NEW offset, NEW count
  PROVE  Walked(s, HalveWide(s, nodes, at, offset, count))
<1> DEFINE blank == createContainer(s.textAttributes, <<" ">>)
           emptied == [nodes EXCEPT ![at].text = <<>>]
           place == IF offset > 0 THEN at ELSE at + 1
           new == InsertAt(emptied, place, blank)
           moves == offset > 0 /\ s.node >= at
           to == IF offset > 0 THEN at + 1 ELSE at
           cursor == IF moves THEN s.node + 1 ELSE s.node
<1>1. HalveWide(s, nodes, at, offset, count) = DeleteOn(s, new, to, cursor, count)
  BY DEF HalveWide
<1>2. IsSeq(emptied) /\ Len(emptied) = Len(nodes)
  BY NodeChanged
<1> HIDE DEF blank, emptied
<1>3. Len(nodes) \in Nat /\ place \in 1 .. Len(emptied) + 1
  BY <1>2 DEF IsSeq
<1> HIDE DEF place
<1>4. IsSeq(new) /\ Len(new) = Len(emptied) + 1
  BY <1>2, <1>3, InsertAtSeq
<1> HIDE DEF new
<1>5. to \in 1 .. Len(new) /\ cursor \in 1 .. to
  BY <1>2, <1>3, <1>4
<1> HIDE DEF to, cursor
<1> QED BY <1>1, <1>4, <1>5, DeleteOnLike

LEMMA DeleteInLike ==
  ASSUME NEW s, ScreenOK(s), s.rowNode # 0, NEW nodes, IsSeq(nodes),
         NEW at \in 1 .. Len(nodes), s.node \in 1 .. at, NEW offset, NEW count, NEW left
  PROVE  Walked(s, DeleteIn(s, nodes, at, offset, count, left))
<1> DEFINE width == nodeWidth(nodes[at])
           halved == /\ "wc" \in nodes[at].style.flags
                     /\ offset < width
                     /\ \/ left # <<>> /\ strWidth(left) = width
                        \/ left = <<>> /\ offset = 1
           r == DeleteIn(s, nodes, at, offset, count, left)
<1>1. CASE halved
  <2>1. r = HalveWide(s, nodes, at, offset, count - 1)
    BY <1>1 DEF DeleteIn
  <2> QED BY <2>1, HalveLike
<1>2. CASE ~halved
  <2> DEFINE new == [nodes EXCEPT ![at].text = left]
             rest == count - (width - strWidth(left))
  <2>1. r = DeleteOn(s, new, at, s.node, rest)
    BY <1>2 DEF DeleteIn
  <2>2. IsSeq(new) /\ Len(new) = Len(nodes)
    BY NodeChanged
  <2> HIDE DEF new, rest, r
  <2>3. Walked(s, r)
    BY <2>1, <2>2, DeleteOnLike
  <2> QED BY <2>3 DEF r
<1> QED BY <1>1, <1>2

LEMMA DeleteNextLike ==
  ASSUME NEW s, ScreenOK(s), s.rowNode # 0, NEW walk, Walked(s, walk)
  PROVE  Walked(s, DeleteNext(walk))
<1> DEFINE q == walk.screen
           nodes == CursorRow(q).nodes
           left == Beginning(nodes[walk.at].text, walk.offset)
                     \o Remainder(nodes[walk.at].text, walk.offset + walk.count)
<1>1. CASE walk.at > Len(nodes) \/ walk.count <= 0
  BY <1>1 DEF DeleteNext
<1>2. CASE ~(walk.at > Len(nodes) \/ walk.count <= 0)
  <2>1. DeleteNext(walk) = DeleteIn(q, nodes, walk.at, walk.offset, walk.count, left)
    BY <1>2 DEF DeleteNext, DeleteAt
  <2> HIDE DEF left
  <2>2. ScreenOK(q) /\ q.rowNode # 0
    BY DEF Walked, OnRow, Like, SameRows
  <2>3. IsSeq(nodes) /\ Len(nodes) \in Nat /\ q.node \in 1 .. Len(nodes)
    BY <2>2, CursorNodes
  <2>4. walk.at \in 1 .. Len(nodes) /\ q.node \in 1 .. walk.at
    BY <1>2, <2>3 DEF Walked
  <2>5. Walked(q, DeleteNext(walk))
    BY <2>1, <2>2, <2>3, <2>4, DeleteInLike
  <2> QED BY <2>5, OnRowOnRow DEF Walked
<1> QED BY <1>1, <1>2

\* The walk of a deletion, step by step.
LEMMA DeleteFromSteps ==
  ASSUME NEW s, ScreenOK(s), s.rowNode # 0, NEW at, NEW offset, NEW count
  PROVE  \E f : /\ f[0] = Walk(s, at, offset, count)
                /\ \A i \in 1 .. Len(CursorRow(s).nodes) + 1 : f[i] = DeleteNext(f[i - 1])
                /\ DeleteFrom(s, at, offset, count) = f[Len(CursorRow(s).nodes) + 1].screen
<1> DEFINE N == Len(CursorRow(s).nodes) + 1
           Step(f, i) == IF i = 0 THEN Walk(s, at, offset, count) ELSE DeleteNext(f[i - 1])
           Upto(n, f) == f = [i \in 0 .. n |-> Step(f, i)]
           S == {n \in Nat : \E f : Upto(n, f)}
<1>0. N \in Nat
  BY CursorNodes
<1>1. 0 \in S
  <2> DEFINE f == [i \in 0 .. 0 |-> Walk(s, at, offset, count)]
  <2>1. Upto(0, f)
    OBVIOUS
  <2> QED BY <2>1
<1>2. ASSUME NEW n \in Nat, n \in S PROVE n + 1 \in S
  <2>1. PICK f : Upto(n, f)
    BY <1>2
  <2> DEFINE g == [i \in 0 .. n + 1 |-> IF i = n + 1 THEN Step(f, n + 1) ELSE f[i]]
  <2>2. ASSUME NEW i \in 0 .. n + 1 PROVE g[i] = Step(g, i)
    <3>1. i # 0 => i - 1 \in 0 .. n /\ g[i - 1] = f[i - 1]
      OBVIOUS
    <3>2. CASE i = n + 1
      <4>1. g[i] = Step(f, i)
        BY <3>2
      <4>2. i # 0
        BY <3>2
      <4> HIDE DEF g
      <4> QED BY <4>1, <4>2, <3>1
    <3>3. CASE i # n + 1
      <4>1. i \in 0 .. n /\ g[i] = f[i]
        BY <3>3
      <4>2. f[i] = Step(f, i)
        BY <2>1, <4>1
      <4> HIDE DEF g
      <4> QED BY <4>1, <4>2, <3>1
    <3> QED BY <3>2, <3>3
  <2> HIDE DEF Step
  <2>3. Upto(n + 1, g)
    BY <2>2
  <2>4. n + 1 \in Nat
    OBVIOUS
  <2> HIDE DEF g, Upto
  <2> QED BY <2>3, <2>4
<1>3. N \in S
  <2> HIDE DEF S, N
  <2> QED BY <1>0, <1>1, <1>2, SetInduction
<1> DEFINE taken == CHOOSE f : Upto(N, f)
<1>4. Upto(N, taken)
  BY <1>3
<1>5. DeleteFrom(s, at, offset, count) = taken[Len(CursorRow(s).nodes) + 1].screen
  BY DEF DeleteFrom, Iterate
<1> HIDE DEF taken
<1>6. taken[0] = Walk(s, at, offset, count)
  BY <1>0, <1>4
<1>7. ASSUME NEW i \in 1 .. N PROVE taken[i] = DeleteNext(taken[i - 1])
  <2>1. i # 0 /\ i \in 0 .. N
    BY <1>0
  <2> HIDE DEF N, Step
  <2>2. taken[i] = Step(taken, i)
    BY <1>4, <2>1
  <2> QED BY <2>1, <2>2 DEF Step
<1> QED BY <1>5, <1>6, <1>7

LEMMA DeleteFromLike ==
  ASSUME NEW s, ScreenOK(s), s.rowNode # 0, NEW at \in Int, s.node <= at, NEW offset, NEW count
  PROVE  LET r == DeleteFrom(s, at, offset, count)
         IN  OnRow(s, r) /\ r.column = s.column
<1> DEFINE N == Len(CursorRow(s).nodes) + 1
<1>1. PICK f : /\ f[0] = Walk(s, at, offset, count)
               /\ \A i \in 1 .. N : f[i] = DeleteNext(f[i - 1])
               /\ DeleteFrom(s, at, offset, count) = f[N].screen
  BY DeleteFromSteps
<1> DEFINE S == {n \in Nat : n <= N => Walked(s, f[n])}
<1>2. N \in Nat
  BY CursorNodes
<1> HIDE DEF N
<1>3. 0 \in S
  BY <1>1, OnRowItself DEF Walk, Walked
<1>4. ASSUME NEW n \in Nat, n \in S PROVE n + 1 \in S
  <2>1. SUFFICES ASSUME n + 1 <= N PROVE Walked(s, f[n + 1])
    OBVIOUS
  <2>2. Walked(s, f[n])
    BY <1>2, <1>4, <2>1
  <2>3. n + 1 \in 1 .. N /\ n + 1 - 1 = n
    BY <1>2, <2>1
  <2>4. f[n + 1] = DeleteNext(f[n])
    BY <1>1, <2>3
  <2> QED BY <2>2, <2>4, DeleteNextLike
<1>5. N \in S
  <2> HIDE DEF S
  <2> QED BY <1>2, <1>3, <1>4, SetInduction
<1>6. Walked(s, f[N])
  BY <1>2, <1>5
<1> QED BY <1>1, <1>6 DEF Walked

LEMMA LeaveLike ==
  ASSUME NEW s, ScreenOK(s), s.rowNode # 0
  PROVE  OnRow(s, leaveEmptySpan(s)) /\ leaveEmptySpan(s).column = s.column
<1> DEFINE nodes == CursorRow(s).nodes
           n == s.node
           others == RemoveAt(nodes, n)
           stays == IsTextNode(nodes[n]) \/ nodes[n].text # <<>>
           r == leaveEmptySpan(s)
<1>0. IsSeq(nodes) /\ Len(nodes) \in Nat /\ n \in 1 .. Len(nodes)
  BY CursorNodes
<1>1. IsSeq(others) /\ Len(others) = Len(nodes) - 1
  BY <1>0, RemoveAtSeq
<1>2. CASE stays
  BY <1>2, OnRowItself DEF leaveEmptySpan
<1>3. CASE ~stays /\ n > 1
  <2>1. r = PutAt(s, others, n - 1, nodeWidth(nodes[n - 1]))
    BY <1>3 DEF leaveEmptySpan
  <2> HIDE DEF others
  <2>2. n - 1 \in 1 .. Len(others)
    BY <1>0, <1>1, <1>3
  <2> QED BY <1>1, <2>1, <2>2, PutLike
<1>4. CASE ~stays /\ n = 1 /\ Len(nodes) > 1
  <2>1. r = PutAt(s, others, 1, 0)
    BY <1>4 DEF leaveEmptySpan
  <2> HIDE DEF others
  <2>2. 1 \in 1 .. Len(others)
    BY <1>0, <1>1, <1>4
  <2> QED BY <1>1, <2>1, <2>2, PutLike
<1>5. CASE ~stays /\ ~(n > 1) /\ ~(n = 1 /\ Len(nodes) > 1)
  <2> DEFINE node == TextNode(<<>>)
  <2>1. r = PutAt(s, Only(node), 1, 0)
    BY <1>5 DEF leaveEmptySpan, Only
  <2>2. IsSeq(Only(node)) /\ Len(Only(node)) = 1
    BY OnlySeq
  <2> HIDE DEF node
  <2>3. 1 \in 1 .. Len(Only(node))
    BY <2>2
  <2> QED BY <2>1, <2>2, <2>3, PutLike
<1> QED BY <1>2, <1>3, <1>4, <1>5

LEMMA DeleteLike ==
  ASSUME NEW s, ScreenOK(s), s.rowNode # 0, NEW count
  PROVE  LET r == ScreenDeleteChars(s, count)
         IN  OnRow(s, r) /\ r.column = s.column
<1> DEFINE deleted == DeletedCount(s, count)
           q == DeleteFrom(s, s.node, s.offset, deleted)
           r == ScreenDeleteChars(s, count)
<1>1. CASE deleted = 0
  BY <1>1, OnRowItself DEF ScreenDeleteChars
<1>2. CASE deleted # 0
  <2>1. r = leaveEmptySpan(q)
    BY <1>2 DEF ScreenDeleteChars
  <2> HIDE DEF deleted
  <2>2. s.node \in Int /\ s.node <= s.node
    BY CursorNodes
  <2>3. OnRow(s, q) /\ q.column = s.column
    BY <2>2, DeleteFromLike
  <2> HIDE DEF q
  <2>4. ScreenOK(q) /\ q.rowNode # 0
    BY <2>3 DEF OnRow, Like, SameRows
  <2>5. OnRow(q, leaveEmptySpan(q)) /\ leaveEmptySpan(q).column = q.column
    BY <2>4, LeaveLike
  <2> QED BY <2>1, <2>3, <2>5, OnRowOnRow
<1> QED BY <1>1, <1>2

\* A text over another one moves the cursor to the right, or nothing.
LEMMA OverwriteLike ==
  ASSUME NEW s, ScreenOK(s), OnIt(s), NEW str, IsSeq(str)
  PROVE  LET r == overwriteString(s, str)
         IN  OnRow(s, r) /\ OnIt(r)
<1> DEFINE attrs == PrintAttributes(s, str)
           node == CursorNode(s)
           width == strWidth(str)
           space == s.columnCount - s.column
           same == /\ matchesContainer(attrs, node)
                   /\ SubSeq(node.text, s.offset + 1, Len(node.text)) = str
           r == overwriteString(s, str)
<1>0. width \in Nat /\ s.rowNode # 0 /\ s.column \in Nat
  BY WidthNat DEF OnIt
<1>1. CASE space = 0
  BY <1>1, OnRowItself DEF overwriteString
<1>2. CASE space # 0 /\ same
  <2>1. r = [s EXCEPT !.offset = @ + width, !.column = @ + width]
    BY <1>2 DEF overwriteString
  <2>2. /\ DOMAIN r = ScreenFields /\ r.rowsArray = s.rowsArray /\ r.row = s.row
        /\ r.column = s.column + width /\ r.columnCount = s.columnCount /\ r.saved = s.saved
        /\ r.rowNode = s.rowNode /\ r.node = s.node /\ r.textAttributes = s.textAttributes
    BY <2>1 DEF ScreenOK, ScreenFields
  <2>3. r.column \in Nat
    BY <1>0, <2>2
  <2> HIDE DEF r, width
  <2>4. OnRow(s, r)
    BY <2>2, <2>3 DEF OnRow, Like, SameRows, ScreenOK, Height
  <2>5. OnIt(r)
    BY <2>3, <2>4, OnRowOnIt
  <2> QED BY <2>4, <2>5 DEF r
<1>3. CASE space # 0 /\ ~same
  <2> DEFINE q == ScreenDeleteChars(s, Min({width, space}))
  <2>1. r = insertString(q, str)
    BY <1>3 DEF overwriteString
  <2>2. OnRow(s, q) /\ q.column = s.column
    BY <1>0, DeleteLike
  <2> HIDE DEF q
  <2>3. ScreenOK(q) /\ OnIt(q)
    BY <1>0, <2>2, OnRowOnIt DEF OnRow, Like, SameRows
  <2>4. OnRow(q, insertString(q, str)) /\ OnIt(insertString(q, str))
    BY <2>3, InsertLike
  <2> QED BY <2>1, <2>2, <2>4, OnRowOnRow
<1> QED BY <1>1, <1>2, <1>3

----------------------------------------------------------------------------
\* Rows that come and go.

LEMMA PartRows ==
  ASSUME NEW rows, RowsOK(rows), NEW m \in 1 .. Len(rows) + 1, NEW n \in m - 1 .. Len(rows)
  PROVE  /\ RowsOK(Part(rows, m, n)) /\ Len(Part(rows, m, n)) = n - m + 1
         /\ \A i \in 1 .. n - m + 1 : Part(rows, m, n)[i] = rows[m + i - 1]
<1>1. IsSeq(rows) /\ Len(rows) \in Nat
  BY SeqDomain DEF RowsOK
<1>2. m \in Int /\ n \in Int /\ 1 <= m /\ n <= Len(rows)
  BY <1>1
<1>3. /\ IsSeq(Part(rows, m, n))
      /\ m <= n => Len(Part(rows, m, n)) = n - m + 1
      /\ m > n => Len(Part(rows, m, n)) = 0
      /\ \A i \in 1 .. n - m + 1 : Part(rows, m, n)[i] = rows[m + i - 1]
  BY <1>1, <1>2, PartSeq
<1>4. Len(Part(rows, m, n)) = n - m + 1
  BY <1>1, <1>2, <1>3
<1>5. ASSUME NEW i \in 1 .. n - m + 1 PROVE RowOK(rows[m + i - 1])
  <2>1. m + i - 1 \in 1 .. Len(rows)
    BY <1>1, <1>2
  <2> QED BY <2>1 DEF RowsOK
<1>6. ASSUME NEW i \in 1 .. Len(Part(rows, m, n)) PROVE RowOK(Part(rows, m, n)[i])
  BY <1>3, <1>4, <1>5
<1> QED BY <1>3, <1>4, <1>6 DEF RowsOK

LEMMA JoinedRows ==
  ASSUME NEW rows, RowsOK(rows), NEW others, RowsOK(others)
  PROVE  /\ RowsOK(Joined(rows, others)) /\ Len(Joined(rows, others)) = Len(rows) + Len(others)
         /\ \A i \in 1 .. Len(rows) : Joined(rows, others)[i] = rows[i]
         /\ \A i \in Len(rows) + 1 .. Len(rows) + Len(others) :
              Joined(rows, others)[i] = others[i - Len(rows)]
<1>1. IsSeq(rows) /\ IsSeq(others) /\ Len(rows) \in Nat /\ Len(others) \in Nat
  BY SeqDomain DEF RowsOK
<1>2. /\ IsSeq(Joined(rows, others)) /\ Len(Joined(rows, others)) = Len(rows) + Len(others)
      /\ \A i \in 1 .. Len(rows) : Joined(rows, others)[i] = rows[i]
      /\ \A i \in Len(rows) + 1 .. Len(rows) + Len(others) :
           Joined(rows, others)[i] = others[i - Len(rows)]
  BY <1>1, JoinedSeq
<1>3. ASSUME NEW i \in 1 .. Len(Joined(rows, others)) PROVE RowOK(Joined(rows, others)[i])
  <2>1. CASE i <= Len(rows)
    <3>1. i \in 1 .. Len(rows)
      BY <1>1, <1>2, <2>1
    <3> QED BY <1>2, <3>1 DEF RowsOK
  <2>2. CASE i > Len(rows)
    <3>1. i \in Len(rows) + 1 .. Len(rows) + Len(others) /\ i - Len(rows) \in 1 .. Len(others)
      BY <1>1, <1>2, <2>2
    <3> QED BY <1>2, <3>1 DEF RowsOK
  <2> QED BY <1>1, <1>2, <2>1, <2>2
<1> QED BY <1>2, <1>3 DEF RowsOK

\* Rows joined to rows go on with their numbers.
LEMMA JoinedNumbers ==
  ASSUME NEW rows, RowsOK(rows), NEW others, RowsOK(others), NEW first \in Int,
         NumberedFrom(rows, first), NumberedFrom(others, first + Len(rows))
  PROVE  NumberedFrom(Joined(rows, others), first)
<1>1. Len(rows) \in Nat /\ Len(others) \in Nat
  BY SeqDomain DEF RowsOK
<1>2. ASSUME NEW i \in 1 .. Len(Joined(rows, others))
      PROVE  Joined(rows, others)[i].rowIndex = first + i - 1
  <2>1. CASE i <= Len(rows)
    <3>1. i \in 1 .. Len(rows) /\ Joined(rows, others)[i] = rows[i]
      BY <1>1, <2>1, JoinedRows
    <3> QED BY <3>1 DEF NumberedFrom
  <2>2. CASE i > Len(rows)
    <3>1. Len(Joined(rows, others)) = Len(rows) + Len(others)
      BY JoinedRows
    <3>2. i \in Len(rows) + 1 .. Len(rows) + Len(others) /\ i - Len(rows) \in 1 .. Len(others)
      BY <1>1, <2>2, <3>1
    <3>3. Joined(rows, others)[i] = others[i - Len(rows)]
      BY <3>2, JoinedRows
    <3>4. others[i - Len(rows)].rowIndex = first + Len(rows) + (i - Len(rows)) - 1
      BY <3>2 DEF NumberedFrom
    <3> QED BY <1>1, <3>2, <3>3, <3>4
  <2>3. Len(Joined(rows, others)) = Len(rows) + Len(others)
    BY JoinedRows
  <2> QED BY <1>1, <2>1, <2>2, <2>3
<1> QED BY <1>2 DEF NumberedFrom

LEMMA PartNumbers ==
  ASSUME NEW rows, RowsOK(rows), NEW m \in 1 .. Len(rows) + 1, NEW n \in m - 1 .. Len(rows),
         NEW first \in Int, NumberedFrom(rows, first)
  PROVE  NumberedFrom(Part(rows, m, n), first + m - 1)
<1>1. Len(rows) \in Nat
  BY SeqDomain DEF RowsOK
<1>2. Len(Part(rows, m, n)) = n - m + 1
  BY PartRows
<1>3. ASSUME NEW i \in 1 .. n - m + 1
      PROVE  Part(rows, m, n)[i].rowIndex = first + m - 1 + i - 1
  <2>1. Part(rows, m, n)[i] = rows[m + i - 1]
    BY PartRows
  <2>2. m + i - 1 \in 1 .. Len(rows)
    BY <1>1
  <2>3. rows[m + i - 1].rowIndex = first + (m + i - 1) - 1
    BY <2>2 DEF NumberedFrom
  <2>4. first + (m + i - 1) - 1 = first + m - 1 + i - 1
    OBVIOUS
  <2> QED BY <2>1, <2>3, <2>4
<1> QED BY <1>2, <1>3 DEF NumberedFrom

\* A screen that gets other rows and the place of the cursor's among them.
LEMMA RowsReplaced ==
  ASSUME NEW s, ScreenOK(s), NEW r, DOMAIN r = ScreenFields, r.columnCount = s.columnCount,
         r.row = s.row, r.column = s.column, r.saved = s.saved, r.node = s.node,
         RowsOK(r.rowsArray), r.rowNode \in 0 .. Len(r.rowsArray),
         r.rowNode # 0 => /\ s.rowNode # 0
                          /\ r.rowsArray[r.rowNode].nodes = s.rowsArray[s.rowNode].nodes
  PROVE  ScreenOK(r)
<1>1. NodeOK(r.rowsArray, r.rowNode, r.node)
  BY DEF NodeOK, ScreenOK
<1> QED BY <1>1 DEF ScreenOK

\* A cursor left as it was, but for the place of its row.
SameCursor(s, r) ==
  /\ r.row = s.row /\ r.column = s.column /\ r.columnCount = s.columnCount
  /\ r.textAttributes = s.textAttributes

LEMMA ShiftOK ==
  ASSUME NEW s, ScreenOK(s), NEW count \in 0 .. Height(s)
  PROVE  LET r == shiftRows(s, count)
         IN  /\ ScreenOK(r) /\ SameCursor(s, r) /\ Height(r) = Height(s) - count
             /\ r.rowsArray = Part(s.rowsArray, count + 1, Height(s))
             /\ r.rowNode = IF s.rowNode > count THEN s.rowNode - count ELSE 0
<1> DEFINE rows == Part(s.rowsArray, count + 1, Height(s))
           r == shiftRows(s, count)
<1>1. Height(s) \in Nat /\ Height(s) = Len(s.rowsArray) /\ s.rowNode \in 0 .. Height(s)
  BY RowsHeight
<1>2. /\ RowsOK(rows) /\ Len(rows) = Height(s) - count
      /\ \A i \in 1 .. Height(s) : i > count => rows[i - count] = s.rowsArray[i]
  <2>1. count + 1 \in 1 .. Len(s.rowsArray) + 1 /\ Height(s) \in (count + 1) - 1 .. Len(s.rowsArray)
    BY <1>1
  <2>2. /\ RowsOK(rows) /\ Len(rows) = Height(s) - (count + 1) + 1
        /\ \A i \in 1 .. Height(s) - (count + 1) + 1 : rows[i] = s.rowsArray[count + 1 + i - 1]
    BY <2>1, PartRows DEF ScreenOK
  <2>3. Len(rows) = Height(s) - count
    BY <1>1, <2>2
  <2>4. ASSUME NEW i \in 1 .. Height(s), i > count PROVE rows[i - count] = s.rowsArray[i]
    <3>1. i - count \in 1 .. Height(s) - (count + 1) + 1 /\ count + 1 + (i - count) - 1 = i
      BY <1>1, <2>4
    <3>2. rows[i - count] = s.rowsArray[count + 1 + (i - count) - 1]
      BY <2>2, <3>1
    <3> QED BY <3>1, <3>2
  <2> QED BY <2>2, <2>3, <2>4
<1>3. /\ DOMAIN r = ScreenFields /\ r.rowsArray = rows /\ SameCursor(s, r)
      /\ r.saved = s.saved /\ r.node = s.node
      /\ r.rowNode = IF s.rowNode > count THEN s.rowNode - count ELSE 0
  BY DEF shiftRows, ScreenOK, ScreenFields, Part, Height, SameCursor
<1> HIDE DEF r, rows
<1>4. r.rowNode \in 0 .. Len(rows)
  BY <1>1, <1>2, <1>3
<1>5. ASSUME r.rowNode # 0
      PROVE  s.rowNode # 0 /\ rows[r.rowNode].nodes = s.rowsArray[s.rowNode].nodes
  <2>1. s.rowNode > count /\ r.rowNode = s.rowNode - count
    BY <1>3, <1>5
  <2>2. s.rowNode \in 1 .. Height(s)
    BY <1>1, <2>1
  <2> QED BY <1>2, <2>1, <2>2
<1>6. ScreenOK(r)
  BY <1>2, <1>3, <1>4, <1>5, RowsReplaced DEF SameCursor
<1>7. Height(r) = Height(s) - count
  BY <1>1, <1>2, <1>3 DEF Height
<1> QED BY <1>3, <1>6, <1>7 DEF r, rows

LEMMA PopOK ==
  ASSUME NEW s, ScreenOK(s), NEW count \in 0 .. Height(s)
  PROVE  LET r == popRows(s, count)
         IN  /\ ScreenOK(r) /\ SameCursor(s, r) /\ Height(r) = Height(s) - count
             /\ r.rowsArray = Part(s.rowsArray, 1, Height(s) - count)
<1> DEFINE rows == Part(s.rowsArray, 1, Height(s) - count)
           r == popRows(s, count)
<1>1. Height(s) \in Nat /\ Height(s) = Len(s.rowsArray) /\ s.rowNode \in 0 .. Height(s)
  BY RowsHeight
<1>2. /\ RowsOK(rows) /\ Len(rows) = Height(s) - count
      /\ \A i \in 1 .. Height(s) - count : rows[i] = s.rowsArray[i]
  <2>1. 1 \in 1 .. Len(s.rowsArray) + 1 /\ Height(s) - count \in 1 - 1 .. Len(s.rowsArray)
    BY <1>1
  <2>2. /\ RowsOK(rows) /\ Len(rows) = Height(s) - count - 1 + 1
        /\ \A i \in 1 .. Height(s) - count - 1 + 1 : rows[i] = s.rowsArray[1 + i - 1]
    BY <2>1, PartRows DEF ScreenOK
  <2>3. Height(s) - count - 1 + 1 = Height(s) - count
    BY <1>1
  <2>4. \A i \in 1 .. Height(s) - count : 1 + i - 1 = i
    BY <1>1
  <2> QED BY <2>2, <2>3, <2>4
<1>3. /\ DOMAIN r = ScreenFields /\ r.rowsArray = rows /\ SameCursor(s, r)
      /\ r.saved = s.saved /\ r.node = s.node
      /\ r.rowNode = IF s.rowNode > Height(s) - count THEN 0 ELSE s.rowNode
  BY DEF popRows, ScreenOK, ScreenFields, Part, Height, SameCursor
<1> HIDE DEF r, rows
<1>4. r.rowNode \in 0 .. Len(rows)
  BY <1>1, <1>2, <1>3
<1>5. ASSUME r.rowNode # 0
      PROVE  s.rowNode # 0 /\ rows[r.rowNode].nodes = s.rowsArray[s.rowNode].nodes
  <2>1. r.rowNode = s.rowNode /\ s.rowNode \in 1 .. Height(s) - count
    BY <1>1, <1>3, <1>5
  <2>2. s.rowNode # 0
    BY <1>1, <2>1
  <2>3. rows[s.rowNode] = s.rowsArray[s.rowNode]
    BY <1>2, <2>1
  <2> QED BY <2>1, <2>2, <2>3
<1>6. ScreenOK(r)
  BY <1>2, <1>3, <1>4, <1>5, RowsReplaced DEF SameCursor
<1>7. Height(r) = Height(s) - count
  BY <1>1, <1>2, <1>3 DEF Height
<1> QED BY <1>3, <1>6, <1>7 DEF r, rows

LEMMA UnshiftOK ==
  ASSUME NEW s, ScreenOK(s), NEW rows, RowsOK(rows)
  PROVE  LET r == unshiftRows(s, rows)
         IN  /\ ScreenOK(r) /\ SameCursor(s, r) /\ Height(r) = Len(rows) + Height(s)
             /\ r.rowsArray = Joined(rows, s.rowsArray)
<1> DEFINE all == Joined(rows, s.rowsArray)
           r == unshiftRows(s, rows)
<1>1. Height(s) \in Nat /\ Height(s) = Len(s.rowsArray) /\ s.rowNode \in 0 .. Height(s)
  BY RowsHeight
<1>2. RowsOK(s.rowsArray) /\ Len(rows) \in Nat
  BY SeqDomain DEF RowsOK, ScreenOK
<1>3. /\ RowsOK(all) /\ Len(all) = Len(rows) + Len(s.rowsArray)
      /\ \A i \in Len(rows) + 1 .. Len(rows) + Len(s.rowsArray) : all[i] = s.rowsArray[i - Len(rows)]
  BY <1>2, JoinedRows
<1>4. /\ DOMAIN r = ScreenFields /\ r.rowsArray = all /\ SameCursor(s, r)
      /\ r.saved = s.saved /\ r.node = s.node
      /\ r.rowNode = IF s.rowNode = 0 THEN 0 ELSE s.rowNode + Len(rows)
  BY DEF unshiftRows, ScreenOK, ScreenFields, Joined, SameCursor
<1> HIDE DEF r, all
<1>5. r.rowNode \in 0 .. Len(all)
  BY <1>1, <1>2, <1>3, <1>4
<1>6. ASSUME r.rowNode # 0
      PROVE  s.rowNode # 0 /\ all[r.rowNode].nodes = s.rowsArray[s.rowNode].nodes
  <2>1. s.rowNode # 0 /\ r.rowNode = s.rowNode + Len(rows)
    BY <1>4, <1>6
  <2>2. r.rowNode \in Len(rows) + 1 .. Len(rows) + Len(s.rowsArray) /\ r.rowNode - Len(rows) = s.rowNode
    BY <1>1, <1>2, <2>1
  <2> QED BY <1>3, <2>1, <2>2
<1>7. ScreenOK(r)
  BY <1>3, <1>4, <1>5, <1>6, RowsReplaced DEF SameCursor
<1>8. Height(r) = Len(rows) + Height(s)
  BY <1>1, <1>3, <1>4 DEF Height
<1> QED BY <1>4, <1>7, <1>8 DEF r, all

LEMMA RenumberOK ==
  ASSUME NEW s, ScreenOK(s), NEW start, NEW end, NEW offset
  PROVE  LET r == RenumberedScreen(s, start, end, offset)
         IN  /\ ScreenOK(r) /\ SameCursor(s, r) /\ Height(r) = Height(s)
             /\ r.rowNode = s.rowNode
             /\ \A i \in 1 .. Height(s) :
                  r.rowsArray[i].rowIndex = IF i - 1 \in start .. end - 1 THEN offset + i - 1
                                            ELSE s.rowsArray[i].rowIndex
<1> DEFINE Row1(i) == IF i - 1 \in start .. end - 1
                      THEN [s.rowsArray[i] EXCEPT !.rowIndex = offset + i - 1]
                      ELSE s.rowsArray[i]
           rows == [i \in DOMAIN s.rowsArray |-> Row1(i)]
           r == RenumberedScreen(s, start, end, offset)
<1>1. /\ Height(s) \in Nat /\ Height(s) = Len(s.rowsArray) /\ s.rowNode \in 0 .. Height(s)
      /\ DOMAIN s.rowsArray = 1 .. Height(s)
  BY RowsHeight, SeqDomain
<1>2. IsSeq(rows) /\ Len(rows) = Height(s)
  <2>1. DOMAIN rows = 1 .. Height(s) /\ rows = [i \in DOMAIN rows |-> rows[i]]
    BY <1>1
  <2> HIDE DEF rows
  <2> QED BY <1>1, <2>1, SeqFunction
<1>3. ASSUME NEW i \in 1 .. Height(s)
      PROVE  /\ RowOK(rows[i]) /\ rows[i].nodes = s.rowsArray[i].nodes
             /\ rows[i].rowIndex = IF i - 1 \in start .. end - 1 THEN offset + i - 1
                                   ELSE s.rowsArray[i].rowIndex
  <2>1. rows[i] = Row1(i)
    BY <1>1
  <2>2. RowOK(s.rowsArray[i])
    BY RowsHeight
  <2> QED BY <2>1, <2>2 DEF RowOK
<1>4. /\ DOMAIN r = ScreenFields /\ r.rowsArray = rows /\ SameCursor(s, r)
      /\ r.saved = s.saved /\ r.node = s.node /\ r.rowNode = s.rowNode
  BY DEF RenumberedScreen, ScreenOK, ScreenFields, SameCursor
<1> HIDE DEF r, rows
<1>5. RowsOK(rows)
  BY <1>2, <1>3 DEF RowsOK
<1>6. ScreenOK(r)
  <2>1. r.rowNode \in 0 .. Len(rows)
    BY <1>1, <1>2, <1>4
  <2>2. r.rowNode # 0 => s.rowNode # 0 /\ rows[r.rowNode].nodes = s.rowsArray[s.rowNode].nodes
    BY <1>1, <1>3, <1>4
  <2> QED BY <1>4, <1>5, <2>1, <2>2, RowsReplaced DEF SameCursor
<1>7. Height(r) = Height(s)
  BY <1>2, <1>4 DEF Height
<1> QED BY <1>3, <1>4, <1>6, <1>7 DEF r, rows

\* A row inserted among the others.
LEMMA InsertRowOK ==
  ASSUME NEW s, ScreenOK(s), NEW index \in 0 .. Height(s), NEW row, RowOK(row)
  PROVE  LET r == insertRow(s, index, row)
         IN  /\ ScreenOK(r) /\ SameCursor(s, r) /\ Height(r) = Height(s) + 1
             /\ \A i \in 1 .. index : r.rowsArray[i] = s.rowsArray[i]
<1> DEFINE rows == InsertAt(s.rowsArray, index + 1, row)
           r == insertRow(s, index, row)
<1>1. /\ Height(s) \in Nat /\ Height(s) = Len(s.rowsArray) /\ s.rowNode \in 0 .. Height(s)
      /\ IsSeq(s.rowsArray)
  BY RowsHeight
<1>2. /\ IsSeq(rows) /\ Len(rows) = Height(s) + 1
      /\ \A i \in 1 .. Height(s) + 1 :
           rows[i] = IF i < index + 1 THEN s.rowsArray[i]
                     ELSE IF i = index + 1 THEN row ELSE s.rowsArray[i - 1]
  <2>1. index + 1 \in 1 .. Len(s.rowsArray) + 1
    BY <1>1
  <2> QED BY <1>1, <2>1, InsertAtSeq
<1>3. /\ DOMAIN r = ScreenFields /\ r.rowsArray = rows /\ SameCursor(s, r)
      /\ r.saved = s.saved /\ r.node = s.node
      /\ r.rowNode = IF s.rowNode > index THEN s.rowNode + 1 ELSE s.rowNode
  BY DEF insertRow, ScreenOK, ScreenFields, SameCursor
<1> HIDE DEF r, rows
<1>4. RowsOK(rows)
  <2>1. ASSUME NEW i \in 1 .. Height(s) + 1 PROVE RowOK(rows[i])
    <3>1. i < index + 1 => i \in 1 .. Height(s)
      BY <1>1
    <3>2. i > index + 1 => i - 1 \in 1 .. Height(s)
      BY <1>1
    <3>3. i < index + 1 \/ i = index + 1 \/ i > index + 1
      BY <1>1
    <3> QED BY <1>2, <3>1, <3>2, <3>3, RowsHeight
  <2> QED BY <1>2, <2>1 DEF RowsOK
<1>5. ScreenOK(r)
  <2>1. r.rowNode \in 0 .. Len(rows)
    BY <1>1, <1>2, <1>3
  <2>2. ASSUME r.rowNode # 0
        PROVE  s.rowNode # 0 /\ rows[r.rowNode].nodes = s.rowsArray[s.rowNode].nodes
    <3>1. s.rowNode \in 1 .. Height(s)
      BY <1>1, <1>3, <2>2
    <3>2. CASE s.rowNode > index
      <4>1. r.rowNode = s.rowNode + 1 /\ r.rowNode \in 1 .. Height(s) + 1
        BY <1>1, <1>3, <3>1, <3>2
      <4>2. ~(r.rowNode < index + 1) /\ r.rowNode # index + 1 /\ r.rowNode - 1 = s.rowNode
        BY <3>1, <3>2, <4>1
      <4>3. rows[r.rowNode] = s.rowsArray[s.rowNode]
        BY <1>2, <4>1, <4>2
      <4> QED BY <3>1, <4>3
    <3>3. CASE ~(s.rowNode > index)
      <4>1. r.rowNode = s.rowNode /\ r.rowNode \in 1 .. Height(s) + 1 /\ r.rowNode < index + 1
        BY <1>1, <1>3, <3>1, <3>3
      <4>2. rows[r.rowNode] = s.rowsArray[s.rowNode]
        BY <1>2, <4>1
      <4> QED BY <3>1, <4>2
    <3> QED BY <3>2, <3>3
  <2> QED BY <1>3, <1>4, <2>1, <2>2, RowsReplaced DEF SameCursor
<1>6. ASSUME NEW i \in 1 .. index PROVE rows[i] = s.rowsArray[i]
  <2>1. i \in 1 .. Height(s) + 1 /\ i < index + 1
    BY <1>1
  <2> QED BY <1>2, <2>1
<1>7. Height(r) = Height(s) + 1
  BY <1>2, <1>3 DEF Height
<1> QED BY <1>3, <1>5, <1>6, <1>7 DEF r

\* So many rows after the first ones.
Slice(rows, skipped, count) == Part(rows, skipped + 1, skipped + count)

LEMMA SliceRows ==
  ASSUME NEW rows, RowsOK(rows), NEW skipped \in Nat, NEW count \in Nat,
         skipped + count <= Len(rows)
  PROVE  /\ RowsOK(Slice(rows, skipped, count)) /\ Len(Slice(rows, skipped, count)) = count
         /\ \A i \in 1 .. count : Slice(rows, skipped, count)[i] = rows[skipped + i]
<1> DEFINE m == skipped + 1
           n == skipped + count
<1>1. m \in 1 .. Len(rows) + 1 /\ n \in m - 1 .. Len(rows) /\ n - m + 1 = count
  <2>1. Len(rows) \in Nat
    BY SeqDomain DEF RowsOK
  <2> QED BY <2>1
<1>2. \A i \in 1 .. count : m + i - 1 = skipped + i
  OBVIOUS
<1>3. Slice(rows, skipped, count) = Part(rows, m, n)
  BY DEF Slice
<1> HIDE DEF m, n
<1>4. /\ RowsOK(Part(rows, m, n)) /\ Len(Part(rows, m, n)) = n - m + 1
      /\ \A i \in 1 .. n - m + 1 : Part(rows, m, n)[i] = rows[m + i - 1]
  BY <1>1, PartRows
<1>5. \A i \in 1 .. count : Part(rows, m, n)[i] = rows[skipped + i]
  BY <1>1, <1>2, <1>4
<1> QED BY <1>1, <1>3, <1>4, <1>5

\* The rows with count of them taken out and put back after the first so many.
Rearranged(rows, from, count, to) ==
  LET others == Joined(Part(rows, 1, from), Part(rows, from + count + 1, Len(rows)))
  IN  Joined(Joined(Part(others, 1, to), Part(rows, from + 1, from + count)),
             Part(others, to + 1, Len(others)))

\* Where the rows are then: those before and after the ones between have stayed.
IsRearranged(rows, new, h, from, count, to) ==
  /\ RowsOK(new) /\ Len(new) = h
  /\ \A i \in 1 .. h : i <= from /\ i <= to => new[i] = rows[i]
  /\ \A i \in 1 .. h : i > from + count /\ i > to + count => new[i] = rows[i]
  /\ \A i \in 1 .. h :
       /\ i > from /\ i <= from + count => new[i - from + to] = rows[i]
       /\ i <= from /\ i > to => new[i + count] = rows[i]
       /\ i > from + count /\ i - count <= to => new[i - count] = rows[i]

LEMMA MovedRows ==
  ASSUME NEW rows, RowsOK(rows), NEW h, h = Len(rows), NEW from \in Nat, NEW count \in Nat,
         NEW to \in Nat, from + count <= h, to + count <= h
  PROVE  IsRearranged(rows, Rearranged(rows, from, count, to), h, from, count, to)
<1> DEFINE left == Part(rows, 1, from)
           right == Part(rows, from + count + 1, h)
           moved == Part(rows, from + 1, from + count)
           others == Joined(left, right)
           first == Part(others, 1, to)
           last == Part(others, to + 1, Len(others))
           both == Joined(first, moved)
           new == Joined(both, last)
<1>0. h \in Nat
  BY SeqDomain DEF RowsOK
<1>1. RowsOK(left) /\ Len(left) = from /\ \A i \in 1 .. from : left[i] = rows[i]
  <2>1. 0 + from <= Len(rows) /\ \A i \in 1 .. from : 0 + i = i
    BY <1>0
  <2>2. left = Slice(rows, 0, from)
    BY DEF Slice
  <2> HIDE DEF left
  <2> QED BY <2>1, <2>2, SliceRows
<1>2. /\ RowsOK(right) /\ Len(right) = h - from - count
      /\ \A i \in 1 .. h - from - count : right[i] = rows[from + count + i]
  <2> DEFINE skipped == from + count
             rest == h - from - count
  <2>1. skipped \in Nat /\ rest \in Nat /\ skipped + rest <= Len(rows) /\ skipped + rest = h
    BY <1>0
  <2>2. right = Slice(rows, skipped, rest)
    BY <2>1 DEF Slice
  <2>3. \A i \in 1 .. rest : skipped + i = from + count + i
    OBVIOUS
  <2> HIDE DEF right, skipped, rest
  <2>4. /\ RowsOK(right) /\ Len(right) = rest /\ \A i \in 1 .. rest : right[i] = rows[skipped + i]
    BY <2>1, <2>2, SliceRows
  <2>5. \A i \in 1 .. rest : right[i] = rows[from + count + i]
    BY <2>3, <2>4
  <2> QED BY <2>4, <2>5 DEF rest
<1>3. /\ RowsOK(moved) /\ Len(moved) = count
      /\ \A i \in 1 .. count : moved[i] = rows[from + i]
  <2>1. moved = Slice(rows, from, count)
    BY DEF Slice
  <2> HIDE DEF moved
  <2> QED BY <2>1, SliceRows
<1> HIDE DEF left, right, moved
<1>4. /\ RowsOK(others) /\ Len(others) = h - count
      /\ \A i \in 1 .. from : others[i] = rows[i]
      /\ \A i \in 1 .. h : i > from + count => others[i - count] = rows[i]
  <2>1. /\ RowsOK(others) /\ Len(others) = Len(left) + Len(right)
        /\ \A i \in 1 .. Len(left) : others[i] = left[i]
        /\ \A i \in Len(left) + 1 .. Len(left) + Len(right) : others[i] = right[i - Len(left)]
    <3>1. RowsOK(left) /\ RowsOK(right)
      BY <1>1, <1>2
    <3> QED BY <3>1, JoinedRows
  <2>2. Len(others) = h - count
    BY <1>0, <1>1, <1>2, <2>1
  <2>3. ASSUME NEW i \in 1 .. h, i > from + count PROVE others[i - count] = rows[i]
    <3>1. i - count \in Len(left) + 1 .. Len(left) + Len(right)
      BY <1>0, <1>1, <1>2, <2>3
    <3>2. others[i - count] = right[i - count - from]
      BY <1>1, <2>1, <3>1
    <3>3. i - count - from \in 1 .. h - from - count /\ from + count + (i - count - from) = i
      BY <1>0, <2>3
    <3>4. right[i - count - from] = rows[from + count + (i - count - from)]
      BY <1>2, <3>3
    <3> QED BY <3>2, <3>3, <3>4
  <2> QED BY <1>1, <2>1, <2>2, <2>3
<1> HIDE DEF others
<1>5. RowsOK(first) /\ Len(first) = to /\ \A i \in 1 .. to : first[i] = others[i]
  <2>1. 0 + to <= Len(others) /\ \A i \in 1 .. to : 0 + i = i
    BY <1>0, <1>4
  <2>2. first = Slice(others, 0, to)
    BY DEF Slice
  <2> HIDE DEF first
  <2> QED BY <1>4, <2>1, <2>2, SliceRows
<1>6. /\ RowsOK(last) /\ Len(last) = h - count - to
      /\ \A i \in 1 .. h - count - to : last[i] = others[to + i]
  <2> DEFINE rest == h - count - to
  <2>1. rest \in Nat /\ to + rest <= Len(others) /\ to + rest = Len(others)
    BY <1>0, <1>4
  <2>2. last = Slice(others, to, rest)
    BY <2>1 DEF Slice
  <2> HIDE DEF last, rest
  <2>3. /\ RowsOK(last) /\ Len(last) = rest /\ \A i \in 1 .. rest : last[i] = others[to + i]
    BY <1>4, <2>1, <2>2, SliceRows
  <2> QED BY <2>3 DEF rest
<1> HIDE DEF first, last
<1>7. /\ RowsOK(both) /\ Len(both) = to + count
      /\ \A i \in 1 .. to : both[i] = others[i]
      /\ \A i \in 1 .. count : both[to + i] = rows[from + i]
  <2>1. /\ RowsOK(both) /\ Len(both) = Len(first) + Len(moved)
        /\ \A i \in 1 .. Len(first) : both[i] = first[i]
        /\ \A i \in Len(first) + 1 .. Len(first) + Len(moved) : both[i] = moved[i - Len(first)]
    BY <1>3, <1>5, JoinedRows
  <2>2. ASSUME NEW i \in 1 .. count PROVE both[to + i] = rows[from + i]
    <3>1. to + i \in Len(first) + 1 .. Len(first) + Len(moved) /\ to + i - Len(first) = i
      BY <1>3, <1>5
    <3>2. both[to + i] = moved[i]
      BY <2>1, <3>1
    <3> QED BY <1>3, <3>2
  <2> QED BY <1>3, <1>5, <2>1, <2>2
<1> HIDE DEF both
<1>8. /\ RowsOK(new) /\ Len(new) = h
      /\ \A i \in 1 .. to + count : new[i] = both[i]
      /\ \A i \in 1 .. h - count - to : new[to + count + i] = others[to + i]
  <2>1. /\ RowsOK(new) /\ Len(new) = Len(both) + Len(last)
        /\ \A i \in 1 .. Len(both) : new[i] = both[i]
        /\ \A i \in Len(both) + 1 .. Len(both) + Len(last) : new[i] = last[i - Len(both)]
    BY <1>6, <1>7, JoinedRows
  <2>2. Len(new) = h
    BY <1>0, <1>6, <1>7, <2>1
  <2>3. ASSUME NEW i \in 1 .. h - count - to PROVE new[to + count + i] = others[to + i]
    <3>1. /\ to + count + i \in Len(both) + 1 .. Len(both) + Len(last)
          /\ to + count + i - Len(both) = i
      BY <1>0, <1>6, <1>7
    <3>2. new[to + count + i] = last[i]
      BY <2>1, <3>1
    <3> QED BY <1>6, <3>2
  <2> QED BY <1>7, <2>1, <2>2, <2>3
<1> HIDE DEF new
<1>9. ASSUME NEW i \in 1 .. h, i > to + count PROVE new[i] = others[i - count]
  <2>1. i - to - count \in 1 .. h - count - to
    BY <1>0, <1>9
  <2>2. to + count + (i - to - count) = i /\ to + (i - to - count) = i - count
    OBVIOUS
  <2>3. new[to + count + (i - to - count)] = others[to + (i - to - count)]
    BY <1>8, <2>1
  <2> QED BY <2>2, <2>3
<1>10. ASSUME NEW i \in 1 .. to PROVE new[i] = others[i]
  <2>1. i \in 1 .. to + count
    OBVIOUS
  <2> QED BY <1>7, <1>8, <2>1
<1>11. ASSUME NEW i \in 1 .. h, i <= from, i <= to PROVE new[i] = rows[i]
  <2>1. i \in 1 .. to /\ i \in 1 .. from
    BY <1>11
  <2> QED BY <1>4, <1>10, <2>1
<1>12. ASSUME NEW i \in 1 .. h, i > from + count, i > to + count PROVE new[i] = rows[i]
  BY <1>4, <1>9, <1>12
<1>13. ASSUME NEW i \in 1 .. h, i > from, i <= from + count PROVE new[i - from + to] = rows[i]
  <2>1. i - from \in 1 .. count /\ i - from + to = to + (i - from) /\ from + (i - from) = i
    BY <1>13
  <2>2. to + (i - from) \in 1 .. to + count
    BY <2>1
  <2>3. both[to + (i - from)] = rows[from + (i - from)]
    BY <1>7, <2>1
  <2> QED BY <1>8, <2>1, <2>2, <2>3
<1>14. ASSUME NEW i \in 1 .. h, i <= from, i > to PROVE new[i + count] = rows[i]
  <2>1. i \in 1 .. from /\ i + count \in 1 .. h /\ i + count > to + count /\ i + count - count = i
    BY <1>0, <1>14
  <2> QED BY <1>4, <1>9, <2>1
<1>15. ASSUME NEW i \in 1 .. h, i > from + count, i - count <= to PROVE new[i - count] = rows[i]
  <2>1. i - count \in 1 .. to
    BY <1>15
  <2> QED BY <1>4, <1>10, <1>15, <2>1
<1>16. new = Rearranged(rows, from, count, to)
  BY DEF new, both, first, last, others, left, right, moved, Rearranged
<1> QED BY <1>8, <1>11, <1>12, <1>13, <1>14, <1>15, <1>16 DEF IsRearranged

----------------------------------------------------------------------------
\* The terminal with other rows on the screen that is shown.

\* Nothing has changed but that screen, the scrollback, sizes, and settings.
Beside(u, v) ==
  /\ DOMAIN v = TerminalFields /\ DOMAIN v.screens = Names /\ v.current = u.current
  /\ \A name \in Names : name # u.current => v.screens[name] = u.screens[name]
  /\ v.colors = u.colors /\ v.vt = u.vt

\* What most operators leave alone.
Same(u, v) ==
  /\ v.current = u.current /\ v.width = u.width /\ v.height = u.height
  /\ v.scrollback = u.scrollback /\ v.top = u.top /\ v.bottom = u.bottom
  /\ v.options = u.options

LEMMA SameSame == ASSUME NEW u, NEW v, NEW w, Same(u, v), Same(v, w) PROVE Same(u, w)
  BY DEF Same

LEMMA BaseChanged ==
  ASSUME NEW u, Base(u), NEW v, Beside(u, v),
         ScreenOK(Screen(v)), NumberedFrom(Screen(v).rowsArray, Len(v.scrollback)),
         RowsOK(v.scrollback), NumberedFrom(v.scrollback, 0),
         v.width \in Nat, v.height \in Nat, v.tabStops \subseteq 0 .. v.width - 1
  PROVE  Base(v)
<1>1. v.current \in Names
  BY DEF Base, Beside
<1>2. ASSUME NEW name \in Names PROVE ScreenOK(v.screens[name])
  BY <1>2 DEF Base, Beside, Screen
<1>3. ASSUME NEW name \in Names, Len(v.screens[name].rowsArray) > 0
      PROVE  NumberedFrom(v.screens[name].rowsArray, v.screens[name].rowsArray[1].rowIndex)
  <2>1. CASE name = v.current
    <3> DEFINE rows == Screen(v).rowsArray
    <3>1. v.screens[name].rowsArray = rows
      BY <2>1 DEF Screen
    <3>2. Len(rows) \in Nat /\ Len(rows) > 0 /\ Len(v.scrollback) \in Nat
      BY <1>3, <3>1, SeqDomain DEF ScreenOK, RowsOK
    <3>3. 1 \in 1 .. Len(rows)
      BY <3>2
    <3>4. rows[1].rowIndex = Len(v.scrollback) + 1 - 1
      BY <3>3 DEF NumberedFrom
    <3>5. rows[1].rowIndex = Len(v.scrollback)
      BY <3>2, <3>4
    <3> QED BY <3>1, <3>5
  <2>2. CASE name # v.current
    <3>1. v.screens[name] = u.screens[name]
      BY <2>2 DEF Beside
    <3> QED BY <1>3, <3>1 DEF Base, Numbered
  <2> QED BY <2>1, <2>2
<1>4. Numbered(v)
  BY <1>3 DEF Numbered
<1>5. ShowsPalette(v) /\ ColorsOK(v.colors) /\ ParserOK(v.vt)
  BY DEF Base, Beside, ShowsPalette, ShownColor, getColorPalette, Overrides
<1> QED BY <1>1, <1>2, <1>4, <1>5 DEF Base, Beside

LEMMA ShownScreen ==
  ASSUME NEW u, Base(u)
  PROVE  /\ ScreenOK(Screen(u)) /\ u.current \in Names
         /\ NumberedFrom(Screen(u).rowsArray, Len(u.scrollback))
         /\ Len(u.scrollback) \in Nat /\ RowsOK(u.scrollback) /\ NumberedFrom(u.scrollback, 0)
         /\ Row(u) \in Int /\ Column(u) \in Int
         /\ DOMAIN u = TerminalFields /\ DOMAIN u.screens = Names
         /\ u.width \in Nat /\ u.height \in Nat
<1>1. ScreenOK(Screen(u)) /\ RowsOK(u.scrollback)
  BY DEF Base, Screen
<1> QED BY <1>1, SeqDomain DEF Base, Numbered, ScreenOK, RowsOK, Row, Column

LEMMA OnScreenFields ==
  ASSUME NEW u, Base(u), NEW s
  PROVE  LET v == OnScreen(u, s)
         IN  /\ Beside(u, v) /\ Same(u, v) /\ Screen(v) = s /\ v.tabStops = u.tabStops
  BY DEF Base, OnScreen, Screen, Beside, Same, TerminalFields, Names

LEMMA OnScreenBase ==
  ASSUME NEW u, Base(u), NEW s, ScreenOK(s), NumberedFrom(s.rowsArray, Len(u.scrollback))
  PROVE  Base(OnScreen(u, s))
<1> DEFINE v == OnScreen(u, s)
<1>1. Beside(u, v) /\ Same(u, v) /\ Screen(v) = s /\ v.tabStops = u.tabStops
  BY OnScreenFields
<1>2. /\ RowsOK(u.scrollback) /\ NumberedFrom(u.scrollback, 0) /\ u.width \in Nat
      /\ u.height \in Nat /\ u.tabStops \subseteq 0 .. u.width - 1
  BY DEF Base, Numbered
<1> HIDE DEF v
<1>3. Base(v)
  BY <1>1, <1>2, BaseChanged DEF Same
<1> QED BY <1>3 DEF v

LEMMA LikeNumbered ==
  ASSUME NEW s, NEW r, SameRows(s, r), NEW first, NumberedFrom(s.rowsArray, first)
  PROVE  NumberedFrom(r.rowsArray, first)
  BY DEF SameRows, NumberedFrom, Height

LEMMA RegionSame ==
  ASSUME NEW u, NEW v, Same(u, v), RegionOK(u)
  PROVE  RegionOK(v)
  BY DEF Same, RegionOK, getVTScrollTop, getVTScrollBottom

\* The screen drawn on.
LEMMA DrawnFit ==
  ASSUME NEW u, Fit(u), NEW s, Like(Screen(u), s)
  PROVE  LET v == OnScreen(u, s)
         IN  Fit(v) /\ Same(u, v) /\ Screen(v) = s
<1> DEFINE v == OnScreen(u, s)
<1>1. Base(u) /\ ScreenOK(s) /\ SameRows(Screen(u), s)
  BY DEF Fit, Like, SameRows
<1>2. NumberedFrom(s.rowsArray, Len(u.scrollback))
  BY <1>1, ShownScreen, LikeNumbered
<1>3. Base(v)
  BY <1>1, <1>2, OnScreenBase
<1>4. Same(u, v) /\ Screen(v) = s
  BY <1>1, OnScreenFields
<1> HIDE DEF v
<1>5. Fit(v)
  BY <1>3, <1>4 DEF Fit, Like, SameRows, Same
<1> QED BY <1>4, <1>5 DEF v

LEMMA DrawnSound ==
  ASSUME NEW u, Sound(u), NEW s, Like(Screen(u), s), OnIt(s)
  PROVE  LET v == OnScreen(u, s)
         IN  Sound(v) /\ Same(u, v) /\ Screen(v) = s
<1>1. Fit(OnScreen(u, s)) /\ Same(u, OnScreen(u, s)) /\ Screen(OnScreen(u, s)) = s
  BY DrawnFit DEF Sound
<1> QED BY <1>1, RegionSame DEF Sound

\* A terminal of which only settings have changed.
LEMMA SettingsGood ==
  ASSUME NEW u, NEW v, DOMAIN v = TerminalFields, v.screens = u.screens, v.current = u.current,
         v.scrollback = u.scrollback, v.width = u.width, v.height = u.height,
         v.tabStops \subseteq 0 .. u.width - 1, v.colors = u.colors, ParserOK(v.vt)
  PROVE  /\ Base(u) => Base(v)
         /\ Fit(u) => Fit(v)
         /\ v.top = u.top /\ v.bottom = u.bottom =>
              (Sound(u) => Sound(v)) /\ (Good(u) => Good(v))
<1>1. ASSUME Base(u) PROVE Base(v)
  BY <1>1 DEF Base, Numbered, Screen, ShowsPalette, ShownColor, getColorPalette, Overrides
<1>2. ASSUME Fit(u) PROVE Fit(v)
  BY <1>1, <1>2 DEF Fit, Screen
<1>3. ASSUME v.top = u.top, v.bottom = u.bottom, Sound(u) PROVE Sound(v)
  BY <1>2, <1>3 DEF Sound, Screen, RegionOK, getVTScrollTop, getVTScrollBottom
<1>4. ASSUME v.top = u.top, v.bottom = u.bottom, Good(u) PROVE Good(v)
  BY <1>3, <1>4 DEF Good, Column, Screen
<1> QED BY <1>1, <1>2, <1>3, <1>4

----------------------------------------------------------------------------
\* The cursor.

LEMMA AbsoluteFit ==
  ASSUME NEW u, Fit(u), NEW row \in Int, NEW column \in Int
  PROVE  LET v == setAbsoluteCursorPosition(u, row, column)
         IN  /\ Fit(v) /\ Same(u, v) /\ OnIt(Screen(v))
             /\ Row(v) = Clamp(0, row, u.height - 1)
             /\ Column(v) = Clamp(0, column, u.width - 1) /\ Column(v) < u.width
<1> DEFINE toRow == Clamp(0, row, u.height - 1)
           toColumn == Clamp(0, column, u.width - 1)
           s == ScreenSetCursorPosition(Screen(u), toRow, toColumn)
           v == setAbsoluteCursorPosition(u, row, column)
<1>1. /\ ScreenOK(Screen(u)) /\ u.width \in Nat /\ u.height \in Nat /\ u.width > 0 /\ u.height > 0
      /\ Height(Screen(u)) = u.height /\ Screen(u).columnCount = u.width
  BY ShownScreen DEF Fit
<1>2. toRow \in 0 .. u.height - 1 /\ toColumn \in 0 .. u.width - 1
  BY <1>1 DEF Clamp
<1>3. v = OnScreen(u, s)
  BY DEF setAbsoluteCursorPosition
<1>4. Clamp(0, toRow, u.height - 1) = toRow /\ Clamp(0, toColumn, u.width - 1) = toColumn
  <2> HIDE DEF toRow, toColumn
  <2> QED BY <1>1, <1>2 DEF Clamp
<1> HIDE DEF toRow, toColumn, v, s
<1>5. /\ Like(Screen(u), s) /\ OnIt(s) /\ s.row = toRow /\ s.column = toColumn
      /\ s.column < u.width
  <2>1. toRow \in Int /\ toColumn \in Int
    BY <1>2
  <2> QED BY <1>1, <1>4, <2>1, SetCursorLike DEF s
<1>6. Fit(v) /\ Same(u, v) /\ Screen(v) = s
  BY <1>3, <1>5, DrawnFit
<1> QED BY <1>5, <1>6 DEF Row, Column, v, toRow, toColumn

LEMMA AbsoluteGood ==
  ASSUME NEW u, Sound(u), NEW row \in Int, NEW column \in Int
  PROVE  LET v == setAbsoluteCursorPosition(u, row, column)
         IN  /\ Good(v) /\ Same(u, v)
             /\ Row(v) = Clamp(0, row, u.height - 1)
             /\ Column(v) = Clamp(0, column, u.width - 1)
<1> DEFINE v == setAbsoluteCursorPosition(u, row, column)
<1>1. /\ Fit(v) /\ Same(u, v) /\ OnIt(Screen(v))
      /\ Row(v) = Clamp(0, row, u.height - 1)
      /\ Column(v) = Clamp(0, column, u.width - 1) /\ Column(v) < u.width
  BY AbsoluteFit DEF Sound
<1> HIDE DEF v
<1>2. Sound(v)
  BY <1>1, RegionSame DEF Sound
<1>3. Good(v)
  BY <1>1, <1>2 DEF Good, Same
<1> QED BY <1>1, <1>3 DEF v

\* The cursor of a sound terminal.
LEMMA SoundCursor ==
  ASSUME NEW u, Sound(u)
  PROVE  /\ Row(u) \in Int /\ Column(u) \in Int
         /\ Row(u) \in 0 .. u.height - 1 /\ Column(u) \in Nat
         /\ u.width \in Nat /\ u.width > 0 /\ u.height \in Nat /\ u.height > 0
         /\ getVTScrollTop(u) \in Int /\ getVTScrollBottom(u) \in Int
         /\ 0 <= getVTScrollTop(u) /\ getVTScrollTop(u) <= getVTScrollBottom(u)
         /\ getVTScrollBottom(u) < u.height
         /\ ScreenOK(Screen(u)) /\ Screen(u).rowNode # 0 /\ OnIt(Screen(u))
         /\ Height(Screen(u)) = u.height /\ Screen(u).columnCount = u.width
<1>1. /\ ScreenOK(Screen(u)) /\ u.width \in Nat /\ u.height \in Nat /\ Row(u) \in Int
      /\ Column(u) \in Int
  BY ShownScreen DEF Sound, Fit
<1>2. getVTScrollTop(u) \in 0 .. getVTScrollBottom(u) /\ getVTScrollBottom(u) \in 0 .. u.height - 1
  BY DEF Sound, RegionOK
<1>3. /\ u.width > 0 /\ u.height > 0 /\ OnIt(Screen(u)) /\ Height(Screen(u)) = u.height
      /\ Screen(u).columnCount = u.width
  BY DEF Sound, Fit
<1>4. /\ getVTScrollTop(u) \in Int /\ getVTScrollBottom(u) \in Int
      /\ 0 <= getVTScrollTop(u) /\ getVTScrollTop(u) <= getVTScrollBottom(u)
      /\ getVTScrollBottom(u) < u.height
  BY <1>1, <1>2
<1> QED BY <1>1, <1>3, <1>4 DEF OnIt, Row, Column

LEMMA OverflowSound ==
  ASSUME NEW u, Sound(u), NEW overflow
  PROVE  LET v == [u EXCEPT !.screens[u.current].overflow = overflow]
         IN  /\ Sound(v) /\ Same(u, v) /\ Row(v) = Row(u) /\ Column(v) = Column(u)
             /\ Good(u) => Good(v)
<1> DEFINE s == [Screen(u) EXCEPT !.overflow = overflow]
           v == [u EXCEPT !.screens[u.current].overflow = overflow]
<1>1. v = OnScreen(u, s)
  BY DEF OnScreen, Screen, Sound, Fit, Base, TerminalFields, Names
<1>2. Like(Screen(u), s) /\ OnIt(s) /\ s.row = Row(u) /\ s.column = Column(u)
  BY SoundCursor DEF Like, SameRows, ScreenOK, ScreenFields, OnIt, Height, Row, Column
<1> HIDE DEF v, s
<1>3. Sound(v) /\ Same(u, v) /\ Screen(v) = s
  BY <1>1, <1>2, DrawnSound
<1>4. Row(v) = Row(u) /\ Column(v) = Column(u)
  BY <1>2, <1>3 DEF Row, Column
<1>5. Good(u) => Good(v)
  BY <1>3, <1>4 DEF Good, Same
<1> QED BY <1>3, <1>4, <1>5 DEF v

LEMMA ClearOverflowSound ==
  ASSUME NEW u, Sound(u)
  PROVE  LET v == clearCursorOverflow(u)
         IN  /\ Sound(v) /\ Same(u, v) /\ Row(v) = Row(u) /\ Column(v) = Column(u)
             /\ Good(u) => Good(v)
  BY OverflowSound DEF clearCursorOverflow

LEMMA RestoreFit ==
  ASSUME NEW u, Fit(u), RegionOK(u), NEW cursor, cursor.row \in Int, cursor.column \in Int
  PROVE  LET v == restoreCursor(u, cursor)
         IN  /\ Good(v) /\ Same(u, v)
             /\ Row(v) = Clamp(0, cursor.row, u.height - 1)
             /\ Column(v) = Clamp(0, cursor.column, u.width - 1)
<1> DEFINE w == setAbsoluteCursorPosition(u, cursor.row, cursor.column)
           v == restoreCursor(u, cursor)
           overflow == cursor.column > u.width - 1 \/ cursor.overflow
<1>1. /\ Fit(w) /\ Same(u, w) /\ OnIt(Screen(w))
      /\ Row(w) = Clamp(0, cursor.row, u.height - 1)
      /\ Column(w) = Clamp(0, cursor.column, u.width - 1) /\ Column(w) < u.width
  BY AbsoluteFit
<1>2. v = [w EXCEPT !.screens[w.current].overflow = overflow]
  BY <1>1 DEF restoreCursor, Same
<1> HIDE DEF v, w, overflow
<1>3. Sound(w) /\ Good(w)
  BY <1>1, RegionSame DEF Sound, Good, Same
<1>4. Good(v) /\ Same(w, v) /\ Row(v) = Row(w) /\ Column(v) = Column(w)
  BY <1>2, <1>3, OverflowSound
<1> QED BY <1>1, <1>4, SameSame DEF v

LEMMA SavedCursor ==
  ASSUME NEW u, Base(u)
  PROVE  /\ saveCursor(u).row = Row(u) /\ saveCursor(u).column = Column(u)
         /\ saveCursor(u).row \in Int /\ saveCursor(u).column \in Int
  BY ShownScreen DEF saveCursor

\* The cursor put back where another terminal had it.
LEMMA RestoreGood ==
  ASSUME NEW u, Sound(u), NEW v, Sound(v)
  PROVE  LET w == restoreCursor(v, saveCursor(u))
         IN  /\ Good(w) /\ Same(v, w) /\ (v.height = u.height => Row(w) = Row(u))
<1>1. /\ saveCursor(u).row = Row(u) /\ saveCursor(u).row \in Int /\ saveCursor(u).column \in Int
  BY SavedCursor DEF Sound, Fit
<1>2. /\ Good(restoreCursor(v, saveCursor(u))) /\ Same(v, restoreCursor(v, saveCursor(u)))
      /\ Row(restoreCursor(v, saveCursor(u))) = Clamp(0, Row(u), v.height - 1)
  BY <1>1, RestoreFit DEF Sound
<1>3. v.height = u.height => Clamp(0, Row(u), v.height - 1) = Row(u)
  BY SoundCursor DEF Clamp
<1> QED BY <1>2, <1>3

LEMMA ColumnGood ==
  ASSUME NEW u, Sound(u), NEW column \in Int
  PROVE  LET v == setCursorColumn(u, column)
         IN  /\ Good(v) /\ Same(u, v) /\ Row(v) = Row(u)
<1>1. /\ Good(setCursorColumn(u, column)) /\ Same(u, setCursorColumn(u, column))
      /\ Row(setCursorColumn(u, column)) = Clamp(0, Row(u), u.height - 1)
  BY SoundCursor, AbsoluteGood DEF setCursorColumn
<1>2. Clamp(0, Row(u), u.height - 1) = Row(u)
  BY SoundCursor DEF Clamp
<1> QED BY <1>1, <1>2

LEMMA RowGood ==
  ASSUME NEW u, Sound(u), NEW row \in Int
  PROVE  LET v == setAbsoluteCursorRow(u, row)
         IN  /\ Good(v) /\ Same(u, v) /\ Row(v) = Clamp(0, row, u.height - 1)
  BY SoundCursor, AbsoluteGood DEF setAbsoluteCursorRow

LEMMA PositionGood ==
  ASSUME NEW u, Sound(u), NEW row \in Int, NEW column \in Int
  PROVE  Good(setCursorPosition(u, row, column)) /\ Same(u, setCursorPosition(u, row, column))
<1> DEFINE top == getVTScrollTop(u)
           toRow == Clamp(top, row + top, getVTScrollBottom(u))
           toColumn == Clamp(0, column, u.width - 1)
           s == ScreenSetCursorPosition(Screen(u), toRow, toColumn)
<1>1. CASE "originMode" \in u.options
  <2>1. setCursorPosition(u, row, column) = OnScreen(u, s)
    BY <1>1 DEF setCursorPosition, setRelativeCursorPosition
  <2>2. toRow \in Int /\ toColumn \in Int
    BY SoundCursor DEF Clamp
  <2> HIDE DEF toRow, toColumn
  <2>3. Like(Screen(u), s) /\ OnIt(s) /\ s.column < u.width
    BY <2>2, SoundCursor, SetCursorLike
  <2> HIDE DEF s
  <2>4. /\ Sound(OnScreen(u, s)) /\ Same(u, OnScreen(u, s)) /\ Screen(OnScreen(u, s)) = s
    BY <2>3, DrawnSound
  <2> QED BY <2>1, <2>3, <2>4 DEF Good, Same, Column
<1>2. CASE "originMode" \notin u.options
  BY <1>2, AbsoluteGood DEF setCursorPosition
<1> QED BY <1>1, <1>2

LEMMA DownGood ==
  ASSUME NEW u, Sound(u), NEW count \in Int
  PROVE  Good(cursorDown(u, count)) /\ Same(u, cursorDown(u, count))
<1> DEFINE inRegion == "originMode" \in u.options
           row == Clamp(IF inRegion THEN getVTScrollTop(u) ELSE 0, Row(u) + count,
                        IF inRegion THEN getVTScrollBottom(u) ELSE u.height - 1)
<1>1. row \in Int
  BY SoundCursor DEF Clamp
<1>2. cursorDown(u, count) = setAbsoluteCursorRow(u, row)
  BY DEF cursorDown
<1> HIDE DEF row
<1> QED BY <1>1, <1>2, RowGood

LEMMA UpGood ==
  ASSUME NEW u, Sound(u), NEW count \in Int
  PROVE  Good(cursorUp(u, count)) /\ Same(u, cursorUp(u, count))
  BY DownGood DEF cursorUp

LEMMA RightGood ==
  ASSUME NEW u, Sound(u), NEW count \in Int
  PROVE  Good(cursorRight(u, count)) /\ Same(u, cursorRight(u, count))
<1>1. Clamp(0, Column(u) + count, u.width - 1) \in Int
  BY SoundCursor DEF Clamp
<1> QED BY <1>1, ColumnGood DEF cursorRight

LEMMA RemainderRange ==
  ASSUME NEW n \in Int, NEW d \in Nat, d > 0
  PROVE  JsMod(n, d) \in Int /\ d + JsMod(n, d) > 0
  BY DEF JsMod

LEMMA AroundGood ==
  ASSUME NEW u, Sound(u), NEW count \in Int,
         Good(clearCursorOverflow(u))
  PROVE  Good(cursorLeftAround(u, count)) /\ Same(u, cursorLeftAround(u, count))
<1> DEFINE left == IF Screen(u).overflow THEN count - 1 ELSE count
           cleared == clearCursorOverflow(u)
           newColumn == Column(u) - left
           up == Row(u) - left \div u.width - 1
           newRow == IF newColumn >= 0 THEN Row(u)
                     ELSE IF up < 0 THEN u.height + JsMod(up, u.height) ELSE up
           toRow == Max({newRow, 0})
           toColumn == IF newColumn < 0 THEN u.width + JsMod(newColumn, u.width) ELSE newColumn
<1>1. cursorLeftAround(u, count) =
        IF left = 0 THEN cleared ELSE setCursorPosition(cleared, toRow, toColumn)
  BY DEF cursorLeftAround
<1>2. left \in Int /\ newColumn \in Int /\ Row(u) \in Int
  BY SoundCursor
<1>3. up \in Int
  <2> HIDE DEF left
  <2>1. left \div u.width \in Int
    BY <1>2, SoundCursor
  <2> QED BY <1>2, <2>1
<1>4. newRow \in Int /\ toColumn \in Int
  <2> HIDE DEF newColumn, up
  <2>1. JsMod(up, u.height) \in Int /\ JsMod(newColumn, u.width) \in Int
    BY <1>2, <1>3, RemainderRange, SoundCursor
  <2> QED BY <1>2, <1>3, <2>1, SoundCursor
<1>5. toRow \in Int
  <2> HIDE DEF newRow
  <2> QED BY <1>4, Max2
<1> HIDE DEF left, newColumn, up, newRow, toRow, toColumn
<1>6. Sound(cleared) /\ Same(u, cleared)
  BY ClearOverflowSound
<1> HIDE DEF cleared
<1>7. Good(setCursorPosition(cleared, toRow, toColumn))
      /\ Same(cleared, setCursorPosition(cleared, toRow, toColumn))
  BY <1>4, <1>5, <1>6, PositionGood
<1>8. Same(u, setCursorPosition(cleared, toRow, toColumn))
  BY <1>6, <1>7, SameSame
<1> QED BY <1>1, <1>6, <1>7, <1>8 DEF cleared

LEMMA LeftGood ==
  ASSUME NEW u, Good(u), NEW count \in Int
  PROVE  Good(cursorLeft(u, count))
<1>1. Sound(u) /\ Good(clearCursorOverflow(u))
  BY ClearOverflowSound DEF Good
<1>2. Max({Column(u) - count, 0}) \in Int
  BY <1>1, SoundCursor, Max2
<1>3. Good(setCursorColumn(u, Max({Column(u) - count, 0})))
  BY <1>1, <1>2, ColumnGood
<1> QED BY <1>1, <1>3, AroundGood DEF cursorLeft

----------------------------------------------------------------------------
\* Tab stops.

\* A terminal of which only the tab stops and the options have changed.
LEMMA StopsGood ==
  ASSUME NEW u, Good(u), NEW v, DOMAIN v = TerminalFields, v.screens = u.screens,
         v.current = u.current, v.scrollback = u.scrollback, v.width = u.width,
         v.height = u.height, v.tabStops \subseteq 0 .. u.width - 1, v.colors = u.colors,
         v.vt = u.vt, v.top = u.top, v.bottom = u.bottom
  PROVE  Good(v)
<1>1. ParserOK(v.vt)
  BY DEF Good, Sound, Fit, Base
<1> QED BY <1>1, SettingsGood

LEMMA GoodStops ==
  ASSUME NEW u, Good(u)
  PROVE  /\ DOMAIN u = TerminalFields /\ u.tabStops \subseteq 0 .. u.width - 1
         /\ Column(u) \in 0 .. u.width - 1 /\ u.width \in Nat /\ u.width > 0
<1>1. Sound(u) /\ Column(u) < u.width
  BY DEF Good
<1> QED BY <1>1, SoundCursor DEF Sound, Fit, Base

LEMMA SetStopGood ==
  ASSUME NEW u, Good(u)
  PROVE  Good(setTabStop(u, Column(u)))
<1> DEFINE v == setTabStop(u, Column(u))
<1>1. DOMAIN u = TerminalFields
  BY GoodStops
<1>2. /\ DOMAIN v = TerminalFields /\ v.screens = u.screens /\ v.current = u.current
      /\ v.scrollback = u.scrollback /\ v.width = u.width /\ v.height = u.height
      /\ v.colors = u.colors /\ v.vt = u.vt /\ v.top = u.top /\ v.bottom = u.bottom
      /\ v.tabStops = u.tabStops \cup {Column(u)}
  BY <1>1 DEF setTabStop, TerminalFields
<1>3. v.tabStops \subseteq 0 .. u.width - 1
  BY <1>2, GoodStops
<1> QED BY <1>2, <1>3, StopsGood

LEMMA ClearStopGood ==
  ASSUME NEW u, Good(u)
  PROVE  Good(clearTabStopAtCursor(u)) /\ Good(clearAllTabStops(u))
<1> DEFINE v == clearTabStopAtCursor(u)
           w == clearAllTabStops(u)
<1>1. DOMAIN u = TerminalFields
  BY GoodStops
<1>2. /\ DOMAIN v = TerminalFields /\ v.screens = u.screens /\ v.current = u.current
      /\ v.scrollback = u.scrollback /\ v.width = u.width /\ v.height = u.height
      /\ v.colors = u.colors /\ v.vt = u.vt /\ v.top = u.top /\ v.bottom = u.bottom
      /\ v.tabStops = u.tabStops \ {Column(u)}
  BY <1>1 DEF clearTabStopAtCursor, TerminalFields
<1>3. v.tabStops \subseteq 0 .. u.width - 1
  BY <1>2, GoodStops
<1>4. Good(v)
  BY <1>2, <1>3, StopsGood
<1>5. /\ DOMAIN w = TerminalFields /\ w.screens = u.screens /\ w.current = u.current
      /\ w.scrollback = u.scrollback /\ w.width = u.width /\ w.height = u.height
      /\ w.colors = u.colors /\ w.vt = u.vt /\ w.top = u.top /\ w.bottom = u.bottom
      /\ w.tabStops = {}
  BY <1>1 DEF clearAllTabStops, TerminalFields
<1>6. w.tabStops \subseteq 0 .. u.width - 1
  BY <1>5
<1>7. Good(w)
  BY <1>5, <1>6, StopsGood
<1> QED BY <1>4, <1>7

LEMMA DefaultStops ==
  ASSUME NEW u, DOMAIN u = TerminalFields, u.width \in Nat, NEW start \in Nat,
         NEW width \in Nat, u.tabStops \subseteq 0 .. width - 1, width <= u.width
  PROVE  LET v == setDefaultTabStops(u, start)
         IN  /\ DOMAIN v = TerminalFields /\ v.screens = u.screens /\ v.current = u.current
             /\ v.scrollback = u.scrollback /\ v.width = u.width /\ v.height = u.height
             /\ v.colors = u.colors /\ v.vt = u.vt /\ v.top = u.top /\ v.bottom = u.bottom
             /\ v.options = u.options
             /\ v.tabStops \subseteq 0 .. u.width - 1
<1> DEFINE v == setDefaultTabStops(u, start)
           added == {column \in start .. u.width - 1 : column > 0 /\ column % TabWidth = 0}
<1>1. /\ DOMAIN v = TerminalFields /\ v.screens = u.screens /\ v.current = u.current
      /\ v.scrollback = u.scrollback /\ v.width = u.width /\ v.height = u.height
      /\ v.colors = u.colors /\ v.vt = u.vt /\ v.top = u.top /\ v.bottom = u.bottom
      /\ v.options = u.options
      /\ v.tabStops = u.tabStops \cup added
  <2> HIDE DEF added
  <2>1. v = [u EXCEPT !.tabStops = @ \cup added, !.defaultTabStops = TRUE]
    BY DEF setDefaultTabStops, added
  <2> HIDE DEF v
  <2> QED BY <2>1 DEF TerminalFields
<1>2. added \subseteq start .. u.width - 1
  OBVIOUS
<1> HIDE DEF added, v
<1>3. added \subseteq 0 .. u.width - 1
  BY <1>2
<1>4. u.tabStops \subseteq 0 .. u.width - 1
  OBVIOUS
<1>5. v.tabStops \subseteq 0 .. u.width - 1
  BY <1>1, <1>3, <1>4
<1> QED BY <1>1, <1>5 DEF v

LEMMA DefaultStopsGood ==
  ASSUME NEW u, Good(u)
  PROVE  Good(setDefaultTabStops(u, 0))
<1> DEFINE v == setDefaultTabStops(u, 0)
<1>1. DOMAIN u = TerminalFields /\ u.width \in Nat /\ u.tabStops \subseteq 0 .. u.width - 1
  BY GoodStops
<1>2. /\ DOMAIN v = TerminalFields /\ v.screens = u.screens /\ v.current = u.current
      /\ v.scrollback = u.scrollback /\ v.width = u.width /\ v.height = u.height
      /\ v.colors = u.colors /\ v.vt = u.vt /\ v.top = u.top /\ v.bottom = u.bottom
      /\ v.tabStops \subseteq 0 .. u.width - 1
  <2>1. u.width <= u.width /\ 0 \in Nat
    BY <1>1
  <2> QED BY <1>1, <2>1, DefaultStops
<1> HIDE DEF v
<1>3. Good(v)
  BY <1>2, StopsGood
<1> QED BY <1>3 DEF v

LEMMA ForwardGood ==
  ASSUME NEW u, Good(u)
  PROVE  Good(forwardTabStop(u)) /\ Same(u, forwardTabStop(u))
<1> DEFINE further == {stop \in u.tabStops : stop > Column(u)}
<1>1. Sound(u) /\ u.width \in Nat
  BY SoundCursor DEF Good
<1>2. CASE further # {}
  <2>1. \A n \in further : n \in Int /\ 0 <= n
    BY GoodStops
  <2> HIDE DEF further
  <2>2. Min(further) \in Int
    BY <1>2, <2>1, LeastNumber
  <2>3. forwardTabStop(u) = setCursorColumn(u, Min(further))
    BY <1>2 DEF forwardTabStop, further
  <2>4. /\ Good(setCursorColumn(u, Min(further)))
        /\ Same(u, setCursorColumn(u, Min(further)))
    BY <1>1, <2>2, ColumnGood
  <2> QED BY <2>3, <2>4
<1>3. CASE further = {}
  <2> DEFINE w == setCursorColumn(u, u.width - 1)
             overflow == Screen(u).overflow
  <2>1. u.width - 1 \in Int
    BY <1>1
  <2>2. Good(w) /\ Same(u, w)
    BY <1>1, <2>1, ColumnGood
  <2>3. forwardTabStop(u) = [w EXCEPT !.screens[w.current].overflow = overflow]
    BY <1>3, <2>2 DEF forwardTabStop, Same
  <2> HIDE DEF w, overflow
  <2>4. Good(forwardTabStop(u)) /\ Same(w, forwardTabStop(u))
    BY <2>2, <2>3, OverflowSound DEF Good
  <2> QED BY <2>2, <2>4, SameSame
<1> QED BY <1>2, <1>3

LEMMA BackwardGood ==
  ASSUME NEW u, Good(u)
  PROVE  Good(backwardTabStop(u))
<1> DEFINE before == {stop \in u.tabStops : stop < Column(u)}
           column == IF before # {} THEN Max(before) ELSE 1
<1>1. Sound(u) /\ u.width \in Nat
  BY SoundCursor DEF Good
<1>2. \A n \in before : n \in Int /\ n <= u.width
  BY GoodStops
<1>3. column \in Int
  <2> HIDE DEF before
  <2>1. before # {} => Max(before) \in before
    BY <1>1, <1>2, GreatestNumber
  <2> QED BY <1>2, <2>1
<1>4. backwardTabStop(u) = setCursorColumn(u, column)
  BY DEF backwardTabStop
<1> HIDE DEF column
<1> QED BY <1>1, <1>3, <1>4, ColumnGood

----------------------------------------------------------------------------
\* A new size loses no text.

\* The texts of rows, one row after another.
LEMMA TextsSteps ==
  ASSUME NEW rows, IsSeq(rows)
  PROVE  \E f : /\ f[0] = <<>>
                /\ \A i \in 1 .. Len(rows) : f[i] = AddText(f[i - 1], RowText(rows[i]))
                /\ Texts(rows) = f[Len(rows)]
<1> DEFINE N == Len(rows)
           Step(f, i) == IF i = 0 THEN <<>> ELSE AddText(f[i - 1], RowText(rows[i]))
           Upto(n, f) == f = [i \in 0 .. n |-> Step(f, i)]
           S == {n \in Nat : \E f : Upto(n, f)}
<1>0. N \in Nat
  BY SeqDomain
<1>1. 0 \in S
  <2> DEFINE f == [i \in 0 .. 0 |-> <<>>]
  <2>1. Upto(0, f)
    OBVIOUS
  <2> QED BY <2>1
<1>2. ASSUME NEW n \in Nat, n \in S PROVE n + 1 \in S
  <2>1. PICK f : Upto(n, f)
    BY <1>2
  <2> DEFINE g == [i \in 0 .. n + 1 |-> IF i = n + 1 THEN Step(f, n + 1) ELSE f[i]]
  <2>2. ASSUME NEW i \in 0 .. n + 1 PROVE g[i] = Step(g, i)
    <3>1. i # 0 => i - 1 \in 0 .. n /\ g[i - 1] = f[i - 1]
      OBVIOUS
    <3>2. CASE i = n + 1
      <4>1. g[i] = Step(f, i)
        BY <3>2
      <4>2. i # 0
        BY <3>2
      <4> HIDE DEF g
      <4> QED BY <4>1, <4>2, <3>1
    <3>3. CASE i # n + 1
      <4>1. i \in 0 .. n /\ g[i] = f[i]
        BY <3>3
      <4>2. f[i] = Step(f, i)
        BY <2>1, <4>1
      <4> HIDE DEF g
      <4> QED BY <4>1, <4>2, <3>1
    <3> QED BY <3>2, <3>3
  <2> HIDE DEF Step
  <2>3. Upto(n + 1, g)
    BY <2>2
  <2>4. n + 1 \in Nat
    OBVIOUS
  <2> HIDE DEF g, Upto
  <2> QED BY <2>3, <2>4
<1>3. N \in S
  <2> HIDE DEF S, N
  <2> QED BY <1>0, <1>1, <1>2, SetInduction
<1> DEFINE taken == CHOOSE f : Upto(N, f)
<1>4. Upto(N, taken)
  BY <1>3
<1>5. Texts(rows) = taken[Len(rows)]
  BY DEF Texts, Iterate
<1> HIDE DEF taken
<1>6. taken[0] = <<>>
  BY <1>0, <1>4
<1>7. ASSUME NEW i \in 1 .. N PROVE taken[i] = AddText(taken[i - 1], RowText(rows[i]))
  <2>1. i # 0 /\ i \in 0 .. N
    BY <1>0
  <2> HIDE DEF N, Step
  <2>2. taken[i] = Step(taken, i)
    BY <1>4, <2>1
  <2> QED BY <2>1, <2>2 DEF Step
<1> QED BY <1>5, <1>6, <1>7

\* The same rows, and rows without a text after them.
Extends(r, s) ==
  /\ IsSeq(r) /\ IsSeq(s) /\ Len(r) <= Len(s)
  /\ \A i \in 1 .. Len(r) : s[i] = r[i]
  /\ \A i \in Len(r) + 1 .. Len(s) : RowText(s[i]) = <<>>

LEMMA ExtendsTexts == ASSUME NEW r, NEW s, Extends(r, s) PROVE Texts(s) = Texts(r)
<1>1. /\ Len(r) \in Nat /\ Len(s) \in Nat /\ Len(r) <= Len(s) /\ IsSeq(r) /\ IsSeq(s)
      /\ \A i \in 1 .. Len(r) : s[i] = r[i]
      /\ \A i \in Len(r) + 1 .. Len(s) : RowText(s[i]) = <<>>
  BY SeqDomain DEF Extends
<1>2. PICK f : /\ f[0] = <<>>
               /\ \A i \in 1 .. Len(r) : f[i] = AddText(f[i - 1], RowText(r[i]))
               /\ Texts(r) = f[Len(r)]
  BY <1>1, TextsSteps
<1>3. PICK g : /\ g[0] = <<>>
               /\ \A i \in 1 .. Len(s) : g[i] = AddText(g[i - 1], RowText(s[i]))
               /\ Texts(s) = g[Len(s)]
  BY <1>1, TextsSteps
<1> DEFINE To(n) == IF n <= Len(r) THEN n ELSE Len(r)
           S == {n \in Nat : n <= Len(s) => g[n] = f[To(n)]}
<1>4. 0 \in S
  BY <1>1, <1>2, <1>3
<1>5. ASSUME NEW n \in Nat, n \in S PROVE n + 1 \in S
  <2> SUFFICES ASSUME n + 1 <= Len(s) PROVE g[n + 1] = f[To(n + 1)]
    OBVIOUS
  <2> DEFINE j == n + 1
  <2>1. g[n] = f[To(n)]
    BY <1>1, <1>5
  <2>2. j \in 1 .. Len(s) /\ j - 1 = n
    BY <1>1
  <2> HIDE DEF j
  <2>3. g[j] = AddText(g[n], RowText(s[j]))
    BY <1>3, <2>2
  <2>4. CASE j <= Len(r)
    <3>1. j \in 1 .. Len(r) /\ To(n) = n /\ To(j) = j
      BY <1>1, <2>2, <2>4
    <3> HIDE DEF To
    <3>2. f[j] = AddText(f[n], RowText(r[j])) /\ s[j] = r[j]
      BY <1>1, <1>2, <2>2, <3>1
    <3> QED BY <2>1, <2>3, <3>1, <3>2 DEF j
  <2>5. CASE ~(j <= Len(r))
    <3>1. j \in Len(r) + 1 .. Len(s) /\ To(n) = Len(r) /\ To(j) = Len(r)
      BY <1>1, <2>2, <2>5
    <3> HIDE DEF To
    <3>2. AddText(g[n], RowText(s[j])) = g[n]
      BY <1>1, <3>1 DEF AddText
    <3> QED BY <2>1, <2>3, <3>1, <3>2 DEF j
  <2> QED BY <2>4, <2>5
<1>6. Len(s) \in S
  <2> HIDE DEF S
  <2> QED BY <1>1, <1>4, <1>5, SetInduction
<1>7. g[Len(s)] = f[To(Len(s))] /\ To(Len(s)) = Len(r)
  BY <1>1, <1>6
<1> QED BY <1>2, <1>3, <1>7

\* Rows that go from one sequence to another, and stay in order.
LEMMA JoinedJoined ==
  ASSUME NEW a, IsSeq(a), NEW b, IsSeq(b), NEW c, IsSeq(c)
  PROVE  Joined(Joined(a, b), c) = Joined(a, Joined(b, c))
<1> DEFINE S == {a[i] : i \in 1 .. Len(a)} \cup {b[i] : i \in 1 .. Len(b)}
                \cup {c[i] : i \in 1 .. Len(c)}
<1>1. a \in Seq(S) /\ b \in Seq(S) /\ c \in Seq(S)
  BY SeqIn
<1> HIDE DEF S
<1> QED BY <1>1, ConcatAssociative DEF Joined

LEMMA PartsJoined ==
  ASSUME NEW s, IsSeq(s), NEW n \in 0 .. Len(s)
  PROVE  /\ Joined(Part(s, 1, n), Part(s, n + 1, Len(s))) = s
         /\ IsSeq(Part(s, 1, n)) /\ IsSeq(Part(s, n + 1, Len(s)))
<1> DEFINE S == {s[i] : i \in 1 .. Len(s)}
           m == n + 1
<1>1. s \in Seq(S) /\ Len(s) \in Nat
  BY SeqIn DEF IsSeq
<1> HIDE DEF S
<1>2. /\ 1 \in 1 .. Len(s) + 1 /\ n \in 1 - 1 .. Len(s) /\ Len(s) \in n .. Len(s)
      /\ m \in Int /\ 1 <= m /\ 1 \in Int /\ n \in Int /\ n <= Len(s)
  BY <1>1
<1>3. SubSeq(s, 1, n) \o SubSeq(s, n + 1, Len(s)) = SubSeq(s, 1, Len(s))
  BY <1>1, <1>2, ConcatAdjacentSubSeq
<1>4. SubSeq(s, 1, Len(s)) = s
  BY <1>1, SubSeqFull
<1> HIDE DEF m
<1>5. IsSeq(Part(s, 1, n)) /\ IsSeq(Part(s, m, Len(s)))
  BY <1>1, <1>2, PartSeq
<1>6. Joined(Part(s, 1, n), Part(s, n + 1, Len(s))) = s
  BY Zenon, <1>3, <1>4 DEF Joined, Part
<1> QED BY <1>5, <1>6 DEF m

LEMMA OffRows ==
  ASSUME NEW back, IsSeq(back), NEW rows, IsSeq(rows), NEW n \in 0 .. Len(rows)
  PROVE  Joined(Joined(back, Part(rows, 1, n)), Part(rows, n + 1, Len(rows)))
           = Joined(back, rows)
  BY PartsJoined, JoinedJoined

LEMMA TakenRows ==
  ASSUME NEW back, IsSeq(back), NEW rows, IsSeq(rows), NEW n \in 0 .. Len(back)
  PROVE  Joined(Part(back, 1, n), Joined(Part(back, n + 1, Len(back)), rows))
           = Joined(back, rows)
  BY PartsJoined, JoinedJoined

\* Rows without a text, at the end.
LEMMA EmptyExtends ==
  ASSUME NEW back, IsSeq(back), NEW rows, NEW more, Extends(rows, more)
  PROVE  Extends(Joined(back, rows), Joined(back, more))
<1> DEFINE r == Joined(back, rows)
           s == Joined(back, more)
<1>1. /\ Len(back) \in Nat /\ Len(rows) \in Nat /\ Len(more) \in Nat
      /\ IsSeq(rows) /\ IsSeq(more) /\ Len(rows) <= Len(more)
      /\ \A i \in 1 .. Len(rows) : more[i] = rows[i]
      /\ \A i \in Len(rows) + 1 .. Len(more) : RowText(more[i]) = <<>>
  BY SeqDomain DEF Extends
<1>2. /\ IsSeq(r) /\ Len(r) = Len(back) + Len(rows)
      /\ \A i \in 1 .. Len(back) : r[i] = back[i]
      /\ \A i \in Len(back) + 1 .. Len(back) + Len(rows) : r[i] = rows[i - Len(back)]
  BY <1>1, JoinedSeq
<1>3. /\ IsSeq(s) /\ Len(s) = Len(back) + Len(more)
      /\ \A i \in 1 .. Len(back) : s[i] = back[i]
      /\ \A i \in Len(back) + 1 .. Len(back) + Len(more) : s[i] = more[i - Len(back)]
  BY <1>1, JoinedSeq
<1> HIDE DEF r, s
<1>4. ASSUME NEW i \in 1 .. Len(r) PROVE s[i] = r[i]
  <2>1. CASE i \in 1 .. Len(back)
    BY <1>2, <1>3, <2>1
  <2>2. CASE i \in Len(back) + 1 .. Len(back) + Len(rows)
    <3>1. i - Len(back) \in 1 .. Len(rows) /\ i \in Len(back) + 1 .. Len(back) + Len(more)
      BY <1>1, <2>2
    <3> QED BY <1>1, <1>2, <1>3, <2>2, <3>1
  <2> QED BY <1>1, <1>2, <2>1, <2>2
<1>5. ASSUME NEW i \in Len(r) + 1 .. Len(s) PROVE RowText(s[i]) = <<>>
  <2>1. i - Len(back) \in Len(rows) + 1 .. Len(more) /\ i \in Len(back) + 1 .. Len(back) + Len(more)
    BY <1>1, <1>2, <1>3
  <2> QED BY <1>1, <1>3, <2>1
<1>6. Extends(r, s)
  BY <1>1, <1>2, <1>3, <1>4, <1>5 DEF Extends
<1> QED BY <1>6 DEF r, s

LEMMA AddedExtends ==
  ASSUME NEW r, IsSeq(r), NEW new, IsSeq(new), \A i \in 1 .. Len(new) : RowText(new[i]) = <<>>
  PROVE  Extends(r, Joined(r, new))
<1> DEFINE s == Joined(r, new)
<1>1. /\ IsSeq(s) /\ Len(s) = Len(r) + Len(new)
      /\ \A i \in 1 .. Len(r) : s[i] = r[i]
      /\ \A i \in Len(r) + 1 .. Len(r) + Len(new) : s[i] = new[i - Len(r)]
  BY JoinedSeq
<1>2. Len(r) \in Nat /\ Len(new) \in Nat
  BY SeqDomain
<1> HIDE DEF s
<1>3. ASSUME NEW i \in Len(r) + 1 .. Len(s) PROVE RowText(s[i]) = <<>>
  <2>1. i - Len(r) \in 1 .. Len(new) /\ i \in Len(r) + 1 .. Len(r) + Len(new)
    BY <1>1, <1>2
  <2> QED BY <1>1, <2>1
<1>4. Extends(r, s)
  BY <1>1, <1>2, <1>3 DEF Extends
<1> QED BY <1>4 DEF s

LEMMA NewRowText == ASSUME NEW i PROVE RowText(NewRow(i)) = <<>>
<1> DEFINE texts == [j \in DOMAIN NewRow(i).nodes |-> NewRow(i).nodes[j].text]
<1>1. NewRow(i).nodes = <<TextNode(<<>>)>> /\ TextNode(<<>>).text = <<>>
  BY DEF NewRow, TextNode, createContainer
<1> HIDE DEF NewRow, TextNode
<1>2. texts = << <<>> >>
  BY <1>1
<1>3. RowText(NewRow(i)) = FlattenSeq(texts)
  BY DEF RowText
<1> HIDE DEF texts
<1>4. FlattenSeq(<< <<>> >>) = <<>>
  BY DEF FlattenSeq
<1> QED BY <1>2, <1>3, <1>4

----------------------------------------------------------------------------
\* The cursor goes elsewhere, and all rows stay what they are.

LEMMA RowsKept ==
  ASSUME NEW u, NEW v, v.scrollback = u.scrollback, Screen(v).rowsArray = Screen(u).rowsArray
  PROVE  AllRows(v) = AllRows(u)
  BY Zenon DEF AllRows

LEMMA SetCursorRows ==
  ASSUME NEW s, DOMAIN s = ScreenFields, NEW toRow, NEW toColumn
  PROVE  LET r == ScreenSetCursorPosition(s, toRow, toColumn)
         IN  DOMAIN r = ScreenFields /\ r.rowsArray = s.rowsArray
<1>1. ASSUME NEW row, NEW column, NEW first, NEW start
      PROVE  LET r == SeekFrom(s, row, column, first, start)
             IN  DOMAIN r = ScreenFields /\ r.rowsArray = s.rowsArray
  BY DEF SeekFrom, ScreenFields
<1>2. ASSUME NEW row, NEW column
      PROVE  LET r == PlaceOn(s, row, column)
             IN  DOMAIN r = ScreenFields /\ r.rowsArray = s.rowsArray
  BY Zenon, <1>1 DEF PlaceOn
<1> QED BY Zenon, <1>2 DEF ScreenSetCursorPosition

LEMMA AbsoluteRows ==
  ASSUME NEW u, Base(u), NEW row, NEW column
  PROVE  LET v == setAbsoluteCursorPosition(u, row, column)
         IN  Beside(u, v) /\ Same(u, v) /\ AllRows(v) = AllRows(u)
             /\ DOMAIN Screen(v) = ScreenFields
<1> DEFINE s == ScreenSetCursorPosition(Screen(u), Clamp(0, row, u.height - 1),
                                        Clamp(0, column, u.width - 1))
           v == setAbsoluteCursorPosition(u, row, column)
<1>1. DOMAIN Screen(u) = ScreenFields
  BY ShownScreen DEF ScreenOK
<1>2. DOMAIN s = ScreenFields /\ s.rowsArray = Screen(u).rowsArray
  BY <1>1, SetCursorRows
<1>3. v = OnScreen(u, s)
  BY DEF setAbsoluteCursorPosition
<1> HIDE DEF s, v
<1>4. Beside(u, v) /\ Same(u, v) /\ Screen(v) = s
  BY <1>3, OnScreenFields
<1>5. AllRows(v) = AllRows(u)
  BY <1>2, <1>4, RowsKept DEF Same
<1> QED BY <1>2, <1>4, <1>5 DEF v

LEMMA RestoreRows ==
  ASSUME NEW u, Base(u), NEW cursor
  PROVE  AllRows(restoreCursor(u, cursor)) = AllRows(u)
<1> DEFINE w == setAbsoluteCursorPosition(u, cursor.row, cursor.column)
           overflow == cursor.column > u.width - 1 \/ cursor.overflow
           v == [w EXCEPT !.screens[u.current].overflow = overflow]
<1>1. Beside(u, w) /\ Same(u, w) /\ AllRows(w) = AllRows(u) /\ DOMAIN Screen(w) = ScreenFields
  BY AbsoluteRows
<1>2. restoreCursor(u, cursor) = v
  BY DEF restoreCursor
<1>3. u.current \in Names
  BY DEF Base
<1> HIDE DEF w, overflow
<1>4. v.scrollback = w.scrollback /\ Screen(v).rowsArray = Screen(w).rowsArray
  BY <1>1, <1>3 DEF Beside, Screen, TerminalFields, ScreenFields
<1> HIDE DEF v
<1> QED BY <1>1, <1>2, <1>4, RowsKept

----------------------------------------------------------------------------
\* Rows.

\* Nothing has changed but the rows and the cursor.
Within(u, v) ==
  /\ v.current = u.current /\ v.width = u.width /\ v.height = u.height
  /\ v.top = u.top /\ v.bottom = u.bottom /\ v.options = u.options

LEMMA WithinWithin == ASSUME NEW u, NEW v, NEW w, Within(u, v), Within(v, w) PROVE Within(u, w)
  BY DEF Within

LEMMA SameWithin == ASSUME NEW u, NEW v, Same(u, v) PROVE Within(u, v)
  BY DEF Within, Same

LEMMA RegionWithin ==
  ASSUME NEW u, NEW v, Within(u, v), RegionOK(u)
  PROVE  RegionOK(v)
  BY DEF Within, RegionOK, getVTScrollTop, getVTScrollBottom

LEMMA ScrollOffBase ==
  ASSUME NEW u, Base(u), NEW count \in 0 .. Height(Screen(u))
  PROVE  LET v == scrollOff(u, count)
         IN  /\ Base(v) /\ Within(u, v) /\ SameCursor(Screen(u), Screen(v))
             /\ Height(Screen(v)) = Height(Screen(u)) - count
             /\ Len(v.scrollback) = Len(u.scrollback) + count
             /\ AllRows(v) = AllRows(u)
<1> DEFINE rows == Screen(u).rowsArray
           off == Part(rows, 1, count)
           back == Joined(u.scrollback, off)
           s == shiftRows(Screen(u), count)
           v == scrollOff(u, count)
<1>1. /\ ScreenOK(Screen(u)) /\ u.current \in Names /\ NumberedFrom(rows, Len(u.scrollback))
      /\ Len(u.scrollback) \in Nat /\ RowsOK(u.scrollback) /\ NumberedFrom(u.scrollback, 0)
      /\ DOMAIN u = TerminalFields /\ DOMAIN u.screens = Names
      /\ u.width \in Nat /\ u.height \in Nat
  BY ShownScreen
<1>2. /\ v.scrollback = back /\ v.screens = [u.screens EXCEPT ![u.current] = s]
      /\ DOMAIN v = TerminalFields /\ v.current = u.current /\ v.width = u.width
      /\ v.height = u.height /\ v.top = u.top /\ v.bottom = u.bottom /\ v.options = u.options
      /\ v.tabStops = u.tabStops /\ v.colors = u.colors /\ v.vt = u.vt
  <2>1. v = [u EXCEPT !.scrollback = u.scrollback \o SubSeq(rows, 1, count),
                      !.screens = [u.screens EXCEPT ![u.current] = s]]
    BY <1>1 DEF scrollOff, Screen, TerminalFields
  <2>2. back = u.scrollback \o SubSeq(rows, 1, count)
    BY DEF Joined, Part
  <2> HIDE DEF v, s, back
  <2> QED BY <1>1, <2>1, <2>2 DEF TerminalFields
<1>3. RowsOK(rows) /\ Len(rows) \in Nat /\ Height(Screen(u)) = Len(rows)
  BY <1>1, RowsHeight DEF ScreenOK
<1>4. /\ ScreenOK(s) /\ SameCursor(Screen(u), s) /\ Height(s) = Height(Screen(u)) - count
      /\ s.rowsArray = Part(rows, count + 1, Height(Screen(u)))
  BY <1>1, ShiftOK
<1> HIDE DEF v, s
<1>11. Joined(back, s.rowsArray) = Joined(u.scrollback, rows)
  <2>1. IsSeq(u.scrollback) /\ IsSeq(rows) /\ count \in 0 .. Len(rows)
    BY <1>1, <1>3 DEF RowsOK
  <2> HIDE DEF rows
  <2>2. Joined(back, Part(rows, count + 1, Len(rows))) = Joined(u.scrollback, rows)
    BY Zenon, <2>1, OffRows
  <2> QED BY Zenon, <1>3, <1>4, <2>2
<1> HIDE DEF rows
<1>5. RowsOK(off) /\ Len(off) = count /\ NumberedFrom(off, Len(u.scrollback))
  <2>1. /\ 1 \in 1 .. Len(rows) + 1 /\ count \in 1 - 1 .. Len(rows) /\ Len(u.scrollback) \in Int
        /\ count - 1 + 1 = count /\ Len(u.scrollback) + 1 - 1 = Len(u.scrollback)
    BY <1>1, <1>3
  <2>2. RowsOK(off) /\ Len(off) = count - 1 + 1
    BY <1>3, <2>1, PartRows
  <2>3. NumberedFrom(off, Len(u.scrollback) + 1 - 1)
    BY <1>1, <1>3, <2>1, PartNumbers
  <2> QED BY <2>1, <2>2, <2>3
<1> HIDE DEF off
<1>6. RowsOK(back) /\ Len(back) = Len(u.scrollback) + count /\ NumberedFrom(back, 0)
  <2>1. 0 \in Int /\ 0 + Len(u.scrollback) = Len(u.scrollback)
    BY <1>1
  <2>2. NumberedFrom(off, 0 + Len(u.scrollback))
    BY <1>5, <2>1
  <2>3. NumberedFrom(back, 0)
    BY <1>1, <1>5, <2>1, <2>2, JoinedNumbers
  <2>4. RowsOK(back) /\ Len(back) = Len(u.scrollback) + Len(off)
    BY <1>1, <1>5, JoinedRows
  <2> QED BY <1>5, <2>3, <2>4
<1> HIDE DEF back
<1>7. Screen(v) = s /\ Beside(u, v)
  BY <1>1, <1>2 DEF Screen, Beside
<1>8. NumberedFrom(s.rowsArray, Len(v.scrollback))
  <2> DEFINE m == count + 1
  <2>1. /\ m \in 1 .. Len(rows) + 1 /\ Len(rows) \in m - 1 .. Len(rows)
        /\ Len(u.scrollback) \in Int /\ Len(u.scrollback) + m - 1 = Len(u.scrollback) + count
    BY <1>1, <1>3
  <2> HIDE DEF m
  <2>2. NumberedFrom(Part(rows, m, Len(rows)), Len(u.scrollback) + m - 1)
    BY <1>1, <1>3, <2>1, PartNumbers DEF rows
  <2>3. s.rowsArray = Part(rows, m, Len(rows))
    BY <1>3, <1>4 DEF m
  <2> QED BY <1>2, <1>6, <2>1, <2>2, <2>3
<1>9. u.tabStops \subseteq 0 .. u.width - 1
  BY DEF Base
<1>10. Base(v)
  BY <1>1, <1>2, <1>4, <1>6, <1>7, <1>8, <1>9, BaseChanged
<1>12. AllRows(v) = AllRows(u)
  BY Zenon, <1>2, <1>7, <1>11 DEF AllRows, Joined, rows
<1> QED BY <1>2, <1>4, <1>6, <1>7, <1>10, <1>12 DEF v, Within

\* A screen that got more rows at the bottom.
LEMMA GrownOK ==
  ASSUME NEW s, ScreenOK(s), NEW others, RowsOK(others)
  PROVE  LET r == [s EXCEPT !.rowsArray = Joined(s.rowsArray, others)]
         IN  /\ ScreenOK(r) /\ SameCursor(s, r) /\ Height(r) = Height(s) + Len(others)
             /\ r.rowsArray = Joined(s.rowsArray, others)
<1> DEFINE all == Joined(s.rowsArray, others)
           r == [s EXCEPT !.rowsArray = all]
<1>1. /\ RowsOK(s.rowsArray) /\ Height(s) = Len(s.rowsArray) /\ Height(s) \in Nat
      /\ s.rowNode \in 0 .. Height(s)
  BY RowsHeight DEF ScreenOK
<1>2. /\ RowsOK(all) /\ Len(all) = Len(s.rowsArray) + Len(others)
      /\ \A i \in 1 .. Len(s.rowsArray) : all[i] = s.rowsArray[i]
  BY <1>1, JoinedRows
<1>3. Len(others) \in Nat
  BY SeqDomain DEF RowsOK
<1> HIDE DEF all
<1>4. /\ DOMAIN r = ScreenFields /\ r.columnCount = s.columnCount /\ r.row = s.row
      /\ r.column = s.column /\ r.saved = s.saved /\ r.node = s.node /\ r.rowsArray = all
      /\ r.rowNode = s.rowNode /\ r.textAttributes = s.textAttributes
  BY DEF ScreenOK, ScreenFields
<1> HIDE DEF r
<1>5. r.rowNode \in 0 .. Len(r.rowsArray)
  BY <1>1, <1>2, <1>3, <1>4
<1>6. r.rowNode # 0 => r.rowsArray[r.rowNode].nodes = s.rowsArray[s.rowNode].nodes
  <2>1. r.rowNode # 0 => s.rowNode \in 1 .. Len(s.rowsArray)
    BY <1>1, <1>4
  <2> QED BY <1>2, <1>4, <2>1
<1>7. ScreenOK(r)
  BY <1>2, <1>4, <1>5, <1>6, RowsReplaced
<1> QED BY <1>2, <1>4, <1>7, <1>1 DEF SameCursor, Height, all, r

LEMMA NewRows ==
  ASSUME NEW count \in Nat, NEW first \in Int
  PROVE  LET rows == [i \in 1 .. count |-> NewRow(first + i - 1)]
         IN  RowsOK(rows) /\ Len(rows) = count /\ NumberedFrom(rows, first)
<1> DEFINE rows == [i \in 1 .. count |-> NewRow(first + i - 1)]
<1>1. IsSeq(rows) /\ Len(rows) = count
  <2>1. DOMAIN rows = 1 .. count /\ rows = [i \in DOMAIN rows |-> rows[i]]
    OBVIOUS
  <2> HIDE DEF rows
  <2> QED BY <2>1, SeqFunction
<1>2. ASSUME NEW i \in 1 .. count
      PROVE  RowOK(rows[i]) /\ rows[i].rowIndex = first + i - 1
  <2> DEFINE nodes == Only(TextNode(<<>>))
  <2>1. rows[i] = [nodes |-> nodes, overflow |-> FALSE, rowIndex |-> first + i - 1]
    BY DEF NewRow, Only
  <2>2. IsSeq(nodes) /\ Len(nodes) = 1
    BY OnlySeq
  <2> HIDE DEF nodes, rows
  <2> QED BY <2>1, <2>2 DEF RowOK
<1> HIDE DEF rows
<1>3. RowsOK(rows) /\ NumberedFrom(rows, first)
  BY <1>1, <1>2 DEF RowsOK, NumberedFrom
<1> QED BY <1>1, <1>3 DEF rows

LEMMA RowsTooMany ==
  ASSUME NEW h \in Nat, NEW count \in Nat, NEW height \in Nat, h + count >= height
  PROVE  /\ h + count - height \in 0 .. h + count /\ h + count - height \in Int
         /\ h + count - (h + count - height) = height
  OBVIOUS

LEMMA AppendFit ==
  ASSUME NEW u, Base(u), u.width > 0, u.height > 0, Screen(u).columnCount = u.width,
         NEW count \in Nat, Height(Screen(u)) <= u.height,
         Height(Screen(u)) + count >= u.height
  PROVE  LET v == appendRows_(u, count)
         IN  Fit(v) /\ Within(u, v) /\ OnIt(Screen(v)) /\ Column(v) < v.width
             /\ Texts(AllRows(v)) = Texts(AllRows(u))
<1> DEFINE h == Height(Screen(u))
           first == getRowCount(u)
           new == [i \in 1 .. count |-> NewRow(first + i - 1)]
           s == [Screen(u) EXCEPT !.rowsArray = Joined(Screen(u).rowsArray, new)]
           grown == OnScreen(u, s)
           extra == Max({h + count - u.height, 0})
           row == Min({h, h + count - extra - 1})
           off == scrollOff(grown, extra)
           v == appendRows_(u, count)
<1>1. /\ ScreenOK(Screen(u)) /\ NumberedFrom(Screen(u).rowsArray, Len(u.scrollback))
      /\ Len(u.scrollback) \in Nat /\ u.width \in Nat /\ u.height \in Nat
  BY ShownScreen
<1>2. /\ h \in Nat /\ RowsOK(Screen(u).rowsArray) /\ h = Len(Screen(u).rowsArray)
      /\ h <= u.height /\ h + count >= u.height
  BY <1>1, RowsHeight DEF ScreenOK
<1>3. v = setAbsoluteCursorPosition(off, row, 0)
  BY DEF appendRows_, Joined
<1> HIDE DEF v, off
<1>4. first \in Int /\ first = Len(u.scrollback) + h
  BY <1>1, <1>2 DEF getRowCount
<1> HIDE DEF first
<1>5. RowsOK(new) /\ Len(new) = count /\ NumberedFrom(new, first)
  BY <1>4, NewRows
<1>18. \A i \in 1 .. count : RowText(new[i]) = <<>>
  BY NewRowText
<1> HIDE DEF new
<1>6. /\ ScreenOK(s) /\ SameCursor(Screen(u), s) /\ Height(s) = h + count
      /\ s.rowsArray = Joined(Screen(u).rowsArray, new)
  BY <1>1, <1>5, GrownOK
<1> HIDE DEF s
<1>7. NumberedFrom(s.rowsArray, Len(u.scrollback))
  <2>1. first = Len(u.scrollback) + Len(Screen(u).rowsArray)
    BY <1>2, <1>4
  <2>2. NumberedFrom(new, Len(u.scrollback) + Len(Screen(u).rowsArray))
    BY <1>5, <2>1
  <2>3. Len(u.scrollback) \in Int
    BY <1>1
  <2> QED BY <1>1, <1>2, <1>5, <1>6, <2>2, <2>3, JoinedNumbers
<1>8. Base(grown) /\ Same(u, grown) /\ Screen(grown) = s
  BY <1>6, <1>7, OnScreenBase, OnScreenFields
<1> HIDE DEF grown
<1>9. extra = h + count - u.height
  <2>1. h + count - u.height \in Int /\ h + count - u.height >= 0
    BY <1>1, <1>2
  <2> QED BY <2>1, Max2
<1> HIDE DEF h, extra
<1>10. extra \in 0 .. Height(Screen(grown)) /\ Height(Screen(grown)) = h + count
  <2>1. Height(Screen(grown)) = h + count
    BY <1>6, <1>8
  <2>2. extra \in 0 .. h + count
    BY <1>1, <1>2, <1>9, RowsTooMany
  <2> QED BY <2>1, <2>2
<1>11. /\ Base(off) /\ Within(grown, off) /\ SameCursor(s, Screen(off))
       /\ Height(Screen(off)) = h + count - extra
  <2>1. /\ Base(off) /\ Within(grown, off) /\ SameCursor(Screen(grown), Screen(off))
        /\ Height(Screen(off)) = Height(Screen(grown)) - extra
    BY <1>8, <1>10, ScrollOffBase DEF off
  <2>2. Height(Screen(off)) = h + count - extra
    <3> DEFINE all == Height(Screen(grown))
               left == Height(Screen(off))
    <3>1. all = h + count /\ left = all - extra
      BY <1>10, <2>1
    <3> HIDE DEF all, left
    <3>2. left = h + count - extra
      BY <3>1, <1>1, <1>2, <1>9
    <3> QED BY <3>2 DEF left
  <2>3. SameCursor(s, Screen(off))
    BY <1>8, <2>1
  <2> QED BY <2>1, <2>2, <2>3
<1>12. Within(u, off)
  BY <1>8, <1>11, SameWithin, WithinWithin
<1>13. Fit(off)
  <2>1. Height(Screen(off)) = u.height
    <3>1. h + count - extra = u.height
      BY <1>1, <1>2, <1>9, RowsTooMany
    <3> QED BY <1>11, <3>1
  <2>2. Screen(off).columnCount = u.width
    BY <1>6, <1>11 DEF SameCursor
  <2> QED BY <1>11, <1>12, <2>1, <2>2 DEF Fit, Within
<1>14. row \in Int /\ 0 \in Int
  <2>1. h + count - extra - 1 \in Int /\ h \in Int
    BY <1>1, <1>2, <1>9
  <2> QED BY <2>1, Min2
<1> HIDE DEF row
<1>15. Fit(v) /\ Same(off, v) /\ OnIt(Screen(v)) /\ Column(v) < off.width
  BY <1>3, <1>13, <1>14, AbsoluteFit
<1>16. Within(u, v)
  BY <1>12, <1>15, SameWithin, WithinWithin
<1>17. Column(v) < v.width
  BY <1>15 DEF Same
<1>19. Texts(AllRows(grown)) = Texts(AllRows(u))
  <2> DEFINE rows == Screen(u).rowsArray
  <2>1. IsSeq(rows) /\ IsSeq(new) /\ IsSeq(u.scrollback)
    BY <1>1, <1>2, <1>5, ShownScreen DEF RowsOK
  <2> HIDE DEF rows
  <2>2. Extends(rows, Joined(rows, new))
    BY <1>5, <1>18, <2>1, AddedExtends
  <2>3. Texts(Joined(u.scrollback, Joined(rows, new))) = Texts(Joined(u.scrollback, rows))
    BY <2>1, <2>2, EmptyExtends, ExtendsTexts
  <2> QED BY Zenon, <1>6, <1>8, <2>3 DEF AllRows, Joined, Same, rows
<1>20. AllRows(v) = AllRows(grown)
  <2>1. AllRows(off) = AllRows(grown)
    BY <1>8, <1>10, ScrollOffBase DEF off
  <2> QED BY <1>3, <1>11, <2>1, AbsoluteRows
<1> QED BY <1>15, <1>16, <1>17, <1>19, <1>20 DEF v

LEMMA AppendGood ==
  ASSUME NEW u, Sound(u)
  PROVE  Good(appendRows_(u, 1)) /\ Within(u, appendRows_(u, 1))
<1> DEFINE v == appendRows_(u, 1)
<1>1. /\ Base(u) /\ u.width > 0 /\ u.height > 0 /\ Screen(u).columnCount = u.width
      /\ Height(Screen(u)) = u.height /\ u.height \in Nat
  BY SoundCursor DEF Sound, Fit
<1>2. Height(Screen(u)) <= u.height /\ Height(Screen(u)) + 1 >= u.height /\ 1 \in Nat
  BY <1>1
<1>3. Fit(v) /\ Within(u, v) /\ OnIt(Screen(v)) /\ Column(v) < v.width
  BY <1>1, <1>2, AppendFit
<1> HIDE DEF v
<1>4. RegionOK(v)
  BY <1>3, RegionWithin DEF Sound
<1> QED BY <1>3, <1>4 DEF Good, Sound, v

\* Rows of a screen numbered anew.
LEMMA RenumberBase ==
  ASSUME NEW u, Base(u), NEW s, ScreenOK(s), NEW start, NEW end,
         \A i \in 1 .. Height(s) : i - 1 \notin start .. end - 1 =>
           s.rowsArray[i].rowIndex = Len(u.scrollback) + i - 1
  PROVE  LET v == renumberRows_(OnScreen(u, s), start, end)
         IN  /\ Base(v) /\ Same(u, v) /\ SameCursor(s, Screen(v))
             /\ Height(Screen(v)) = Height(s) /\ Screen(v).rowNode = s.rowNode
<1> DEFINE w == OnScreen(u, s)
           r == RenumberedScreen(s, start, end, Len(u.scrollback))
           v == renumberRows_(w, start, end)
<1>1. Beside(u, w) /\ Same(u, w) /\ Screen(w) = s
  BY OnScreenFields
<1>2. v = OnScreen(u, r)
  <2>1. v = OnScreen(w, r)
    BY <1>1 DEF renumberRows_, Same
  <2>2. OnScreen(w, r) = OnScreen(u, r)
    BY DEF OnScreen, Base, TerminalFields, Names
  <2> QED BY <2>1, <2>2
<1> HIDE DEF v, w
<1>3. /\ ScreenOK(r) /\ SameCursor(s, r) /\ Height(r) = Height(s) /\ r.rowNode = s.rowNode
      /\ \A i \in 1 .. Height(s) :
           r.rowsArray[i].rowIndex = IF i - 1 \in start .. end - 1 THEN Len(u.scrollback) + i - 1
                                     ELSE s.rowsArray[i].rowIndex
  BY RenumberOK
<1> HIDE DEF r
<1>4. NumberedFrom(r.rowsArray, Len(u.scrollback))
  BY <1>3 DEF NumberedFrom, Height
<1>5. Base(v)
  BY <1>2, <1>3, <1>4, OnScreenBase
<1>6. Same(u, v) /\ Screen(v) = r
  BY <1>2, OnScreenFields
<1> QED BY <1>3, <1>5, <1>6 DEF v, w

LEMMA NewRowOK ==
  ASSUME NEW n
  PROVE  RowOK(NewRow(n))
<1> DEFINE nodes == Only(TextNode(<<>>))
           row == NewRow(n)
<1>1. row = [nodes |-> nodes, overflow |-> FALSE, rowIndex |-> n]
  BY DEF NewRow, Only
<1>2. IsSeq(nodes) /\ Len(nodes) = 1
  BY OnlySeq
<1> HIDE DEF nodes, row
<1>3. RowOK(row)
  BY <1>1, <1>2 DEF RowOK
<1> QED BY <1>3 DEF row

LEMMA InsertRowGood ==
  ASSUME NEW u, Sound(u)
  PROVE  Good(insertRow_(u)) /\ Within(u, insertRow_(u))
<1> DEFINE off == scrollOff(u, 1)
           row == Row(u)
           s == insertRow(Screen(off), row, NewRow(0))
           w == renumberRows_(OnScreen(off, s), row, Height(s))
           v == insertRow_(u)
<1>1. /\ Base(u) /\ row \in 0 .. u.height - 1 /\ row \in Int /\ u.height \in Nat /\ u.height > 0
      /\ Height(Screen(u)) = u.height /\ Screen(u).columnCount = u.width /\ u.width > 0
  BY SoundCursor DEF Sound, Fit
<1> HIDE DEF row
<1>2. /\ Base(off) /\ Within(u, off) /\ SameCursor(Screen(u), Screen(off))
      /\ Height(Screen(off)) = u.height - 1
  <2>1. 1 \in 0 .. Height(Screen(u))
    BY <1>1
  <2>2. /\ Base(off) /\ Within(u, off) /\ SameCursor(Screen(u), Screen(off))
        /\ Height(Screen(off)) = Height(Screen(u)) - 1
    BY <1>1, <2>1, ScrollOffBase
  <2> HIDE DEF off
  <2> QED BY <1>1, <2>2
<1> HIDE DEF off
<1>3. ScreenOK(Screen(off)) /\ NumberedFrom(Screen(off).rowsArray, Len(off.scrollback))
  BY <1>2, ShownScreen
<1>4. RowOK(NewRow(0))
  BY NewRowOK
<1>5. /\ ScreenOK(s) /\ SameCursor(Screen(off), s) /\ Height(s) = u.height
      /\ \A i \in 1 .. row : s.rowsArray[i] = Screen(off).rowsArray[i]
  <2> DEFINE new == NewRow(0)
  <2>1. row \in 0 .. Height(Screen(off)) /\ RowOK(new)
    BY <1>1, <1>2, <1>4
  <2> HIDE DEF new
  <2>2. LET r == insertRow(Screen(off), row, new)
        IN  /\ ScreenOK(r) /\ SameCursor(Screen(off), r) /\ Height(r) = Height(Screen(off)) + 1
            /\ \A i \in 1 .. row : r.rowsArray[i] = Screen(off).rowsArray[i]
    BY <1>3, <2>1, InsertRowOK
  <2>3. Height(Screen(off)) + 1 = u.height
    BY <1>1, <1>2
  <2> QED BY <2>2, <2>3 DEF new
<1>6. v = setAbsoluteCursorPosition(w, row, 0)
  <2>1. Screen(OnScreen(off, s)) = s
    BY <1>2, OnScreenFields
  <2>2. v = LET inserted == OnScreen(off, s)
            IN  setAbsoluteCursorPosition(
                  renumberRows_(inserted, row, Height(Screen(inserted))), row, 0)
    BY DEF insertRow_, off, row
  <2> HIDE DEF v, s
  <2> QED BY <2>1, <2>2
<1> HIDE DEF s, v
<1>7. \A i \in 1 .. Height(s) : i - 1 \notin row .. Height(s) - 1 =>
        s.rowsArray[i].rowIndex = Len(off.scrollback) + i - 1
  <2> TAKE i \in 1 .. Height(s)
  <2> HAVE i - 1 \notin row .. Height(s) - 1
  <2>1. i \in 1 .. row /\ i \in 1 .. Height(Screen(off))
    BY <1>1, <1>2, <1>5
  <2>2. Screen(off).rowsArray[i].rowIndex = Len(off.scrollback) + i - 1
    BY <1>3, <2>1 DEF NumberedFrom, Height
  <2> QED BY <1>5, <2>1, <2>2
<1>8. /\ Base(w) /\ Same(off, w) /\ SameCursor(s, Screen(w))
      /\ Height(Screen(w)) = Height(s)
  BY <1>2, <1>5, <1>7, RenumberBase
<1> HIDE DEF w
<1>9. Within(u, w)
  BY <1>2, <1>8, SameWithin, WithinWithin
<1>10. Fit(w)
  <2>1. Screen(w).columnCount = u.width
    BY <1>1, <1>2, <1>5, <1>8 DEF SameCursor
  <2> QED BY <1>1, <1>5, <1>8, <1>9, <2>1 DEF Fit, Within
<1>11. Fit(v) /\ Same(w, v) /\ OnIt(Screen(v)) /\ Column(v) < w.width
  BY <1>1, <1>6, <1>10, AbsoluteFit
<1>12. Within(u, v)
  BY <1>9, <1>11, SameWithin, WithinWithin
<1>13. RegionOK(v)
  BY <1>12, RegionWithin DEF Sound
<1>14. Good(v)
  BY <1>11, <1>13 DEF Good, Sound, Same
<1> QED BY <1>12, <1>14 DEF v

LEMMA MoveRowsSound ==
  ASSUME NEW u, Sound(u), NEW from \in Nat, NEW count \in Nat, NEW to \in Nat,
         from + count <= u.height, to + count <= u.height
  PROVE  LET v == moveRows_(u, from, count, to)
         IN  /\ Sound(v) /\ Same(u, v) /\ SameCursor(Screen(u), Screen(v))
<1> DEFINE old == Screen(u)
           h == u.height
           rows == old.rowsArray
           moved == Part(rows, from + 1, from + count)
           others == Joined(Part(rows, 1, from), Part(rows, from + count + 1, h))
           new == Joined(Joined(Part(others, 1, to), moved), Part(others, to + 1, Len(others)))
           NewPlace(i) == CASE i = 0 -> 0
                         [] i \in from + 1 .. from + count -> i - from + to
                         [] OTHER -> LET rest == IF i <= from THEN i ELSE i - count
                                     IN  IF rest <= to THEN rest ELSE rest + count
           place == NewPlace(old.rowNode)
           s == [old EXCEPT !.rowsArray = new, !.rowNode = place]
           start == Min({from, to})
           end == Max({from, to}) + count
           v == moveRows_(u, from, count, to)
<1>1. /\ Base(u) /\ ScreenOK(old) /\ Height(old) = h /\ h \in Nat /\ u.width > 0 /\ h > 0
      /\ old.columnCount = u.width /\ OnIt(old)
      /\ NumberedFrom(rows, Len(u.scrollback)) /\ Len(u.scrollback) \in Nat
  BY SoundCursor, ShownScreen DEF Sound, Fit
<1>2. /\ RowsOK(rows) /\ Len(rows) = h /\ old.rowNode \in 1 .. h /\ old.rowNode # 0
      /\ old.rowNode \in Int
  <2>1. RowsOK(rows)
    BY <1>1 DEF ScreenOK
  <2>2. old.rowNode # 0
    BY <1>1 DEF OnIt
  <2>3. Height(old) = Len(rows) /\ old.rowNode \in 1 .. Height(old)
    BY <1>1, <2>2, RowsHeight
  <2> HIDE DEF old
  <2> QED BY <1>1, <2>1, <2>2, <2>3
<1>3. v = renumberRows_(OnScreen(u, s), start, end)
  BY <1>2 DEF moveRows_, Part, Joined
<1> HIDE DEF v
<1>4. /\ RowsOK(new) /\ Len(new) = h
      /\ \A i \in 1 .. h : i <= from /\ i <= to => new[i] = rows[i]
      /\ \A i \in 1 .. h : i > from + count /\ i > to + count => new[i] = rows[i]
      /\ \A i \in 1 .. h :
           /\ i > from /\ i <= from + count => new[i - from + to] = rows[i]
           /\ i <= from /\ i > to => new[i + count] = rows[i]
           /\ i > from + count /\ i - count <= to => new[i - count] = rows[i]
  <2> HIDE DEF old, h, rows
  <2>1. h = Len(rows) /\ from + count <= h /\ to + count <= h
    BY <1>2 DEF h
  <2>2. RowsOK(rows)
    BY <1>2
  <2> HIDE <1>1, <1>2
  <2>3. new = Rearranged(rows, from, count, to)
    BY <2>1 DEF Rearranged, new
  <2> HIDE DEF new
  <2>4. IsRearranged(rows, new, h, from, count, to)
    BY <2>1, <2>2, <2>3, MovedRows
  <2> QED BY <2>4 DEF IsRearranged
<1> HIDE DEF new
<1>5. place \in 1 .. h /\ new[place] = rows[old.rowNode]
  <2> DEFINE n == old.rowNode
  <2>1. n \in 1 .. h
    BY <1>2
  <2> HIDE DEF n, rows
  <2>2. CASE n > from /\ n <= from + count
    <3>1. NewPlace(n) = n - from + to
      BY <1>1, <2>1, <2>2
    <3> HIDE DEF NewPlace, h
    <3>2. n - from + to \in 1 .. h
      BY <1>1, <2>1, <2>2 DEF h
    <3> QED BY <1>4, <2>1, <2>2, <3>1, <3>2 DEF n
  <2>3. CASE n <= from /\ n <= to
    <3>1. NewPlace(n) = n
      BY <1>1, <2>1, <2>3
    <3> HIDE DEF NewPlace
    <3> QED BY <1>4, <2>1, <2>3, <3>1 DEF n
  <2>4. CASE n <= from /\ n > to
    <3>0. n # 0 /\ n \notin from + 1 .. from + count /\ n <= from /\ ~(n <= to)
      BY <1>1, <2>1, <2>4
    <3>1. NewPlace(n) = n + count
      BY <3>0
    <3> HIDE DEF NewPlace, h
    <3>2. n + count \in 1 .. h
      BY <1>1, <2>1, <2>4 DEF h
    <3> QED BY <1>4, <2>1, <2>4, <3>1, <3>2 DEF n
  <2>5. CASE n > from + count /\ n - count <= to
    <3>1. NewPlace(n) = n - count
      BY <1>1, <2>1, <2>5
    <3> HIDE DEF NewPlace, h
    <3>2. n - count \in 1 .. h
      BY <1>1, <2>1, <2>5 DEF h
    <3> QED BY <1>4, <2>1, <2>5, <3>1, <3>2 DEF n
  <2>6. CASE n > from + count /\ n - count > to
    <3>1. NewPlace(n) = n
      BY <1>1, <2>1, <2>6
    <3>2. n > to + count
      BY <1>1, <2>1, <2>6
    <3> HIDE DEF NewPlace
    <3> QED BY <1>4, <2>1, <2>6, <3>1, <3>2 DEF n
  <2> QED BY <1>1, <2>1, <2>2, <2>3, <2>4, <2>5, <2>6
<1> HIDE DEF place
<1>6. /\ DOMAIN s = ScreenFields /\ s.columnCount = old.columnCount /\ s.row = old.row
      /\ s.column = old.column /\ s.saved = old.saved /\ s.node = old.node
      /\ s.rowsArray = new /\ s.rowNode = place /\ s.textAttributes = old.textAttributes
  <2> HIDE DEF old
  <2> QED BY <1>1 DEF ScreenOK, ScreenFields
<1> HIDE DEF s
<1>7. ScreenOK(s)
  <2>1. s.rowNode \in 0 .. Len(s.rowsArray)
    BY <1>1, <1>4, <1>5, <1>6
  <2>2. old.rowNode # 0 /\ s.rowsArray[s.rowNode].nodes = old.rowsArray[old.rowNode].nodes
    BY <1>2, <1>5, <1>6
  <2> QED BY <1>1, <1>4, <1>6, <2>1, <2>2, RowsReplaced
<1>8. Height(s) = h /\ s.rowNode # 0
  BY <1>1, <1>4, <1>5, <1>6 DEF Height
<1>9. /\ start = (IF from <= to THEN from ELSE to)
      /\ end = (IF from >= to THEN from ELSE to) + count
  <2>1. from \in Int /\ to \in Int
    OBVIOUS
  <2> QED BY <2>1, Min2, Max2
<1> HIDE DEF start, end
<1>10. \A i \in 1 .. Height(s) : i - 1 \notin start .. end - 1 =>
         s.rowsArray[i].rowIndex = Len(u.scrollback) + i - 1
  <2> TAKE i \in 1 .. Height(s)
  <2> HAVE i - 1 \notin start .. end - 1
  <2>1. i \in 1 .. h
    BY <1>8
  <2>2. (i <= from /\ i <= to) \/ (i > from + count /\ i > to + count)
    BY <1>1, <1>9, <2>1
  <2>3. new[i] = rows[i]
    BY <1>4, <2>1, <2>2
  <2>4. rows[i].rowIndex = Len(u.scrollback) + i - 1
    BY <1>1, <1>2, <2>1 DEF NumberedFrom
  <2> QED BY <1>6, <2>3, <2>4
<1>11. /\ Base(v) /\ Same(u, v) /\ SameCursor(s, Screen(v))
       /\ Height(Screen(v)) = Height(s) /\ Screen(v).rowNode = s.rowNode
  BY <1>1, <1>3, <1>7, <1>10, RenumberBase
<1>12. SameCursor(old, Screen(v))
  BY <1>6, <1>11 DEF SameCursor
<1>13. Fit(v) /\ OnIt(Screen(v))
  <2>1. Screen(v).row = old.row /\ Screen(v).column = old.column
        /\ Screen(v).columnCount = old.columnCount
    BY <1>12 DEF SameCursor
  <2>2. Height(Screen(v)) = Height(old) /\ Screen(v).rowNode # 0
    BY <1>1, <1>8, <1>11
  <2> HIDE DEF old
  <2>3. OnIt(Screen(v))
    BY <1>1, <2>1, <2>2 DEF OnIt
  <2> QED BY <1>1, <1>11, <2>1, <2>2, <2>3 DEF Fit, Same
<1>14. RegionOK(v)
  BY <1>11, RegionSame DEF Sound
<1> QED BY <1>11, <1>12, <1>13, <1>14 DEF Sound, v

LEMMA ClearRowsSound ==
  ASSUME NEW u, Sound(u), NEW rows, NEW last, rows # {} => last \in 0 .. u.height - 1
  PROVE  LET v == ClearRows(u, rows, last)
         IN  /\ Sound(v) /\ Same(u, v) /\ (Good(u) => Good(v))
             /\ rows # {} => Row(v) = last
             /\ rows = {} => Row(v) = Row(u)
<1> DEFINE r == ClearedRows(Screen(u), rows, last)
           v == ClearRows(u, rows, last)
<1>1. /\ ScreenOK(Screen(u)) /\ Height(Screen(u)) = u.height /\ OnIt(Screen(u))
      /\ u.width \in Nat /\ u.width > 0
  BY SoundCursor
<1>2. v = OnScreen(u, r)
  BY DEF ClearRows
<1>3. /\ Like(Screen(u), r) /\ (rows = {} => r = Screen(u))
      /\ rows # {} => OnIt(r) /\ r.row = last /\ r.column = 0
  <2>1. rows # {} => last \in 0 .. Height(Screen(u)) - 1
    BY <1>1
  <2> QED BY <1>1, <2>1, ClearedRowsLike
<1> HIDE DEF v, r
<1>4. OnIt(r)
  BY <1>1, <1>3
<1>5. Sound(v) /\ Same(u, v) /\ Screen(v) = r
  BY <1>2, <1>3, <1>4, DrawnSound
<1>6. Good(u) => Good(v)
  BY <1>1, <1>3, <1>5 DEF Good, Column, Same
<1> QED BY <1>3, <1>5, <1>6 DEF v, Row

LEMMA ClearCursorRowGood ==
  ASSUME NEW u, Sound(u)
  PROVE  Sound(ClearCursorRow(u)) /\ Same(u, ClearCursorRow(u))
<1> DEFINE r == clearCursorRow(Screen(u))
<1>1. ScreenOK(Screen(u)) /\ Screen(u).rowNode # 0 /\ OnIt(Screen(u))
  BY SoundCursor
<1>2. OnRow(Screen(u), r) /\ r.column = 0
  BY <1>1, ClearCursorRowLike
<1>3. ClearCursorRow(u) = OnScreen(u, r)
  BY DEF ClearCursorRow
<1> HIDE DEF r
<1>4. OnIt(r) /\ Like(Screen(u), r)
  BY <1>1, <1>2, OnRowOnIt DEF OnRow
<1> QED BY <1>3, <1>4, DrawnSound

----------------------------------------------------------------------------
\* Lines.

LEMMA InsertLinesGood ==
  ASSUME NEW u, Good(u), NEW count \in Nat, count > 0
  PROVE  Good(insertLines(u, count)) /\ Same(u, insertLines(u, count))
<1> DEFINE row == Row(u)
           bottom == getVTScrollBottom(u)
           lines == Min({count, bottom - row})
           stay == bottom - row - lines + 1
           to == row + lines
           rows == row .. row + lines - 1
           moved == moveRows_(u, row, stay, to)
<1>1. /\ Sound(u) /\ row \in Nat /\ row < u.height /\ bottom \in Nat /\ bottom < u.height
      /\ u.height \in Nat
  BY SoundCursor DEF Good
<1>2. insertLines(u, count) = ClearRows(moved, rows, row)
  BY DEF insertLines
<1> HIDE DEF row, bottom
<1>3. lines = IF count <= bottom - row THEN count ELSE bottom - row
  <2>1. count \in Int /\ bottom - row \in Int
    BY <1>1
  <2> QED BY <2>1, Min2
<1> HIDE DEF lines
<1>4. stay \in Nat /\ to \in Nat /\ row + stay <= u.height /\ to + stay <= u.height
  BY <1>1, <1>3
<1> HIDE DEF stay, to
<1>5. Sound(moved) /\ Same(u, moved) /\ SameCursor(Screen(u), Screen(moved))
  BY <1>1, <1>4, MoveRowsSound
<1> HIDE DEF moved
<1>6. Good(moved)
  BY <1>5 DEF Good, SameCursor, Same, Column
<1>7. rows # {} => row \in 0 .. moved.height - 1
  BY <1>1, <1>5 DEF Same
<1> HIDE DEF rows
<1>8. Good(ClearRows(moved, rows, row)) /\ Same(moved, ClearRows(moved, rows, row))
  BY <1>5, <1>6, <1>7, ClearRowsSound
<1> QED BY <1>2, <1>5, <1>8, SameSame

LEMMA DeleteLinesGood ==
  ASSUME NEW u, Good(u), NEW count \in Nat, count > 0
  PROVE  Good(deleteLines(u, count)) /\ Same(u, deleteLines(u, count))
<1> DEFINE cursor == saveCursor(u)
           row == Row(u)
           bottom == getVTScrollBottom(u)
           most == bottom - row + 1
           lines == Min({count, most})
           start == bottom - lines + 1
           rows == start .. bottom
           moved == IF lines = most THEN u ELSE moveRows_(u, row, lines, start)
           cleared == ClearRows(moved, rows, bottom)
           restored == restoreCursor(cleared, cursor)
           v == deleteLines(u, count)
<1>1. /\ Sound(u) /\ row \in Nat /\ row < u.height /\ bottom \in Nat /\ bottom < u.height
      /\ u.height \in Nat /\ cursor.row = row
  BY SoundCursor DEF Good, saveCursor
<1>2. v = clearCursorOverflow(restored)
  BY <1>1 DEF deleteLines
<1> HIDE DEF row, bottom, v
<1>3. lines = IF count <= most THEN count ELSE most
  <2>1. count \in Int /\ most \in Int
    BY <1>1
  <2> QED BY <2>1, Min2
<1> HIDE DEF lines
<1>4. Sound(moved) /\ Same(u, moved)
  <2>1. CASE lines = most
    BY <1>1, <2>1 DEF Same
  <2>2. CASE lines # most
    <3>1. /\ lines \in Nat /\ start \in Nat /\ row + lines <= u.height
          /\ start + lines <= u.height
      BY <1>1, <1>3, <2>2
    <3> HIDE DEF start, most
    <3>2. /\ Sound(moveRows_(u, row, lines, start)) /\ Same(u, moveRows_(u, row, lines, start))
      BY <1>1, <3>1, MoveRowsSound
    <3> QED BY <2>2, <3>2
  <2> QED BY <2>1, <2>2
<1> HIDE DEF moved
<1>5. rows # {} => bottom \in 0 .. moved.height - 1
  BY <1>1, <1>4 DEF Same
<1> HIDE DEF rows
<1>6. Sound(cleared) /\ Same(moved, cleared)
  BY <1>4, <1>5, ClearRowsSound
<1> HIDE DEF cleared
<1>7. Good(restored) /\ Same(cleared, restored)
  BY <1>1, <1>6, RestoreGood
<1> HIDE DEF restored
<1>8. Good(v) /\ Same(restored, v)
  BY <1>2, <1>7, ClearOverflowSound DEF Good
<1>9. Same(u, v)
  BY <1>4, <1>6, <1>7, <1>8, SameSame
<1> QED BY <1>8, <1>9 DEF v

LEMMA ScrollGood ==
  ASSUME NEW u, Good(u), NEW count \in Nat, count > 0
  PROVE  /\ Good(vtScrollUp(u, count)) /\ Same(u, vtScrollUp(u, count))
         /\ Good(vtScrollDown(u, count)) /\ Same(u, vtScrollDown(u, count))
<1>1. Sound(u) /\ getVTScrollTop(u) \in Int /\ 0 \in Int
  BY SoundCursor DEF Good
<1>2. Good(vtScrollUp(u, count)) /\ Same(u, vtScrollUp(u, count))
  <2> DEFINE w == setAbsoluteCursorRow(u, getVTScrollTop(u))
             r == deleteLines(w, count)
  <2>1. Good(w) /\ Same(u, w)
    BY <1>1, RowGood
  <2>2. vtScrollUp(u, count) = restoreCursor(r, saveCursor(u))
    BY DEF vtScrollUp
  <2> HIDE DEF w
  <2>3. Good(r) /\ Same(w, r)
    BY <2>1, DeleteLinesGood
  <2> HIDE DEF r
  <2>4. Good(restoreCursor(r, saveCursor(u))) /\ Same(r, restoreCursor(r, saveCursor(u)))
    BY <1>1, <2>3, RestoreGood DEF Good
  <2> QED BY <2>1, <2>2, <2>3, <2>4, SameSame
<1>3. Good(vtScrollDown(u, count)) /\ Same(u, vtScrollDown(u, count))
  <2> DEFINE w == setAbsoluteCursorPosition(u, getVTScrollTop(u), 0)
             r == insertLines(w, count)
  <2>1. Good(w) /\ Same(u, w)
    BY <1>1, AbsoluteGood
  <2>2. vtScrollDown(u, count) = restoreCursor(r, saveCursor(u))
    BY DEF vtScrollDown
  <2> HIDE DEF w
  <2>3. Good(r) /\ Same(w, r)
    BY <2>1, InsertLinesGood
  <2> HIDE DEF r
  <2>4. Good(restoreCursor(r, saveCursor(u))) /\ Same(r, restoreCursor(r, saveCursor(u)))
    BY <1>1, <2>3, RestoreGood DEF Good
  <2> QED BY <2>1, <2>2, <2>3, <2>4, SameSame
<1> QED BY <1>2, <1>3

LEMMA NewLineGood ==
  ASSUME NEW u, Good(u)
  PROVE  Good(newLine(u)) /\ Within(u, newLine(u))
<1> DEFINE endOfScreen == Row(u) = Height(Screen(u)) - 1
           endOfRegion == Row(u) = getVTScrollBottom(u)
<1>1. Sound(u) /\ Row(u) \in Int /\ Row(u) + 1 \in Int /\ 0 \in Int
  BY SoundCursor DEF Good
<1>2. CASE u.top # Null /\ endOfRegion
  <2> DEFINE w == vtScrollUp(u, 1)
  <2>1. newLine(u) = setAbsoluteCursorPosition(w, Row(u), 0)
    BY <1>2 DEF newLine
  <2>2. Good(w) /\ Same(u, w)
    <3>1. 1 \in Nat /\ 1 > 0
      OBVIOUS
    <3> QED BY <3>1, ScrollGood
  <2> HIDE DEF w
  <2>3. /\ Good(setAbsoluteCursorPosition(w, Row(u), 0))
        /\ Same(w, setAbsoluteCursorPosition(w, Row(u), 0))
    BY <1>1, <2>2, AbsoluteGood DEF Good
  <2> QED BY <2>1, <2>2, <2>3, SameSame, SameWithin
<1>3. CASE ~(u.top # Null /\ endOfRegion) /\ endOfScreen
  <2>1. newLine(u) = appendRows_(u, 1)
    BY <1>3 DEF newLine
  <2> QED BY <1>1, <2>1, AppendGood
<1>4. CASE u.top = Null /\ ~endOfScreen /\ endOfRegion
  <2>1. newLine(u) = insertRow_(u)
    BY <1>4 DEF newLine
  <2> QED BY <1>1, <2>1, InsertRowGood
<1>5. CASE /\ ~(u.top # Null /\ endOfRegion) /\ ~endOfScreen
           /\ ~(u.top = Null /\ ~endOfScreen /\ endOfRegion)
  <2>1. newLine(u) = setAbsoluteCursorPosition(u, Row(u) + 1, 0)
    BY <1>5 DEF newLine
  <2>2. /\ Good(setAbsoluteCursorPosition(u, Row(u) + 1, 0))
        /\ Same(u, setAbsoluteCursorPosition(u, Row(u) + 1, 0))
    BY <1>1, AbsoluteGood
  <2> QED BY <2>1, <2>2, SameWithin
<1> QED BY <1>2, <1>3, <1>4, <1>5

LEMMA LineFeedGood ==
  ASSUME NEW u, Good(u)
  PROVE  Good(lineFeed(u)) /\ Good(formFeed(u)) /\ Good(reverseLineFeed(u))
<1>1. Sound(u) /\ Row(u) \in Int /\ Column(u) \in Int /\ Row(u) - 1 \in Int
  BY SoundCursor DEF Good
<1>2. Sound(newLine(u))
  BY NewLineGood DEF Good
<1>3. Good(lineFeed(u))
  BY <1>1, <1>2, ColumnGood DEF lineFeed
<1>4. Good(formFeed(u))
  <2> DEFINE column == IF "autoCarriageReturn" \in u.options THEN 0 ELSE Column(u)
  <2>1. column \in Int
    BY <1>1
  <2>2. formFeed(u) = setCursorColumn(newLine(u), column)
    BY DEF formFeed
  <2> HIDE DEF column
  <2> QED BY <1>2, <2>1, <2>2, ColumnGood
<1>5. Good(reverseLineFeed(u))
  <2>1. Good(insertLines(u, 1))
    <3>1. 1 \in Nat /\ 1 > 0
      OBVIOUS
    <3> QED BY <3>1, InsertLinesGood
  <2>2. Good(setAbsoluteCursorRow(u, Row(u) - 1))
    BY <1>1, RowGood
  <2> QED BY <2>1, <2>2 DEF reverseLineFeed
<1> QED BY <1>3, <1>4, <1>5

----------------------------------------------------------------------------
\* Printing.

\* A sequence of texts.
TextsOK(texts) == IsSeq(texts) /\ \A i \in 1 .. Len(texts) : IsSeq(texts[i])

LEMMA AddToLastOK ==
  ASSUME NEW texts, TextsOK(texts), Len(texts) > 0, NEW ch
  PROVE  TextsOK(AddToLast(texts, ch)) /\ Len(AddToLast(texts, ch)) = Len(texts)
<1> DEFINE n == Len(texts)
           front == Front(texts)
           last == Added(Last(texts), ch)
           r == Added(front, last)
<1>1. AddToLast(texts, ch) = r
  BY DEF AddToLast, Added
<1>2. n \in Nat /\ IsSeq(texts)
  BY SeqDomain DEF TextsOK
<1>3. IsSeq(front) /\ Len(front) = n - 1 /\ \A i \in 1 .. n - 1 : front[i] = texts[i]
  BY <1>2, FrontSeq
<1> HIDE DEF front
<1>4. IsSeq(last)
  <2>1. Last(texts) = texts[n]
    BY DEF Last
  <2>2. IsSeq(Last(texts))
    BY <1>2, <2>1 DEF TextsOK
  <2> QED BY <2>2, AddedSeq
<1> HIDE DEF last
<1>5. /\ IsSeq(r) /\ Len(r) = Len(front) + 1
      /\ \A i \in 1 .. Len(front) : r[i] = front[i]
      /\ r[Len(front) + 1] = last
  BY <1>3, AddedSeq
<1> HIDE DEF r
<1>6. Len(r) = n
  BY <1>2, <1>3, <1>5
<1>7. ASSUME NEW i \in 1 .. n PROVE IsSeq(r[i])
  <2>1. CASE i = n
    <3>1. r[i] = last
      BY <1>2, <1>3, <1>5, <2>1
    <3> QED BY <1>4, <3>1
  <2>2. CASE i # n
    <3>1. i \in 1 .. n - 1
      BY <1>2, <2>2
    <3>2. r[i] = texts[i]
      BY <1>3, <1>5, <3>1
    <3> QED BY <3>2 DEF TextsOK
  <2> QED BY <2>1, <2>2
<1> HIDE DEF n
<1>8. TextsOK(r)
  BY <1>5, <1>6, <1>7 DEF TextsOK
<1> QED BY <1>1, <1>6, <1>8 DEF n

LEMMA AddedText ==
  ASSUME NEW texts, TextsOK(texts), NEW text, IsSeq(text)
  PROVE  TextsOK(Added(texts, text)) /\ Len(Added(texts, text)) = Len(texts) + 1
<1> DEFINE r == Added(texts, text)
           n == Len(texts)
<1>1. /\ IsSeq(r) /\ Len(r) = n + 1 /\ n \in Nat
      /\ \A i \in 1 .. n : r[i] = texts[i]
      /\ r[n + 1] = text
  BY AddedSeq, SeqDomain DEF TextsOK
<1> HIDE DEF r, n
<1>2. ASSUME NEW i \in 1 .. n + 1 PROVE IsSeq(r[i])
  <2>1. CASE i = n + 1
    BY <1>1, <2>1
  <2>2. CASE i # n + 1
    <3>1. i \in 1 .. n
      BY <1>1, <2>2
    <3> QED BY <1>1, <3>1 DEF TextsOK, n
  <2> QED BY <2>1, <2>2
<1>3. TextsOK(r)
  BY <1>1, <1>2 DEF TextsOK
<1> QED BY <1>1, <1>3 DEF r, n

\* The pieces of a text, one character after another.
LEMMA PiecesSteps ==
  ASSUME NEW str, IsSeq(str)
  PROVE  \E f : /\ f[0] = <<>>
                /\ \A i \in 1 .. Len(str) : f[i] = AddPiece(f[i - 1], str, i)
                /\ str # <<>> => splitWidecharString(str) = f[Len(str)]
<1> DEFINE N == Len(str)
           Step(f, i) == IF i = 0 THEN <<>> ELSE AddPiece(f[i - 1], str, i)
           Upto(n, f) == f = [i \in 0 .. n |-> Step(f, i)]
           S == {n \in Nat : \E f : Upto(n, f)}
<1>0. N \in Nat
  BY SeqDomain
<1>1. 0 \in S
  <2> DEFINE f == [i \in 0 .. 0 |-> <<>>]
  <2>1. Upto(0, f)
    OBVIOUS
  <2> QED BY <2>1
<1>2. ASSUME NEW n \in Nat, n \in S PROVE n + 1 \in S
  <2>1. PICK f : Upto(n, f)
    BY <1>2
  <2> DEFINE g == [i \in 0 .. n + 1 |-> IF i = n + 1 THEN Step(f, n + 1) ELSE f[i]]
  <2>2. ASSUME NEW i \in 0 .. n + 1 PROVE g[i] = Step(g, i)
    <3>1. i # 0 => i - 1 \in 0 .. n /\ g[i - 1] = f[i - 1]
      OBVIOUS
    <3>2. CASE i = n + 1
      <4>1. g[i] = Step(f, i)
        BY <3>2
      <4>2. i # 0
        BY <3>2
      <4> HIDE DEF g
      <4> QED BY <4>1, <4>2, <3>1
    <3>3. CASE i # n + 1
      <4>1. i \in 0 .. n /\ g[i] = f[i]
        BY <3>3
      <4>2. f[i] = Step(f, i)
        BY <2>1, <4>1
      <4> HIDE DEF g
      <4> QED BY <4>1, <4>2, <3>1
    <3> QED BY <3>2, <3>3
  <2> HIDE DEF Step
  <2>3. Upto(n + 1, g)
    BY <2>2
  <2>4. n + 1 \in Nat
    OBVIOUS
  <2> HIDE DEF g, Upto
  <2> QED BY <2>3, <2>4
<1>3. N \in S
  <2> HIDE DEF S, N
  <2> QED BY <1>0, <1>1, <1>2, SetInduction
<1> DEFINE taken == CHOOSE f : Upto(N, f)
<1>4. Upto(N, taken)
  BY <1>3
<1>5. str # <<>> => splitWidecharString(str) = taken[Len(str)]
  BY DEF splitWidecharString, Iterate
<1> HIDE DEF taken
<1>6. taken[0] = <<>>
  BY <1>0, <1>4
<1>7. ASSUME NEW i \in 1 .. N PROVE taken[i] = AddPiece(taken[i - 1], str, i)
  <2>1. i # 0 /\ i \in 0 .. N
    BY <1>0
  <2> HIDE DEF N, Step
  <2>2. taken[i] = Step(taken, i)
    BY <1>4, <2>1
  <2> QED BY <2>1, <2>2 DEF Step
<1> QED BY <1>5, <1>6, <1>7

LEMMA PiecesOK ==
  ASSUME NEW str, IsSeq(str)
  PROVE  TextsOK(splitWidecharString(str))
<1>1. CASE str = <<>>
  <2>1. splitWidecharString(str) = Only(str)
    BY <1>1 DEF splitWidecharString, Only
  <2> QED BY <2>1, OnlySeq DEF TextsOK
<1>2. CASE str # <<>>
  <2> DEFINE n == Len(str)
  <2>1. n \in Nat /\ n # 0
    BY <1>2, SeqDomain
  <2>2. PICK f : /\ f[0] = <<>>
                 /\ \A i \in 1 .. n : f[i] = AddPiece(f[i - 1], str, i)
                 /\ str # <<>> => splitWidecharString(str) = f[n]
    BY PiecesSteps
  <2> HIDE DEF n
  <2> DEFINE S == {i \in Nat : i <= n => TextsOK(f[i]) /\ (i > 0 => Len(f[i]) > 0)}
  <2>3. 0 \in S
    BY <2>2, EmptySequence DEF TextsOK
  <2>4. ASSUME NEW i \in Nat, i \in S PROVE i + 1 \in S
    <3> SUFFICES ASSUME i + 1 <= n PROVE TextsOK(f[i + 1]) /\ Len(f[i + 1]) > 0
      OBVIOUS
    <3> DEFINE j == i + 1
               old == f[i]
    <3>1. j \in 1 .. n /\ j - 1 = i
      BY <2>1
    <3>2. f[j] = AddPiece(old, str, j)
      BY <2>2, <3>1
    <3>3. TextsOK(old) /\ (i > 0 => Len(old) > 0)
      BY <2>1, <2>4
    <3>4. j > 1 => i > 0
      OBVIOUS
    <3> HIDE DEF old, j
    <3>5. CASE j > 1 /\ "WIDE" \notin {str[j - 1], str[j]}
      <4>1. f[j] = AddToLast(old, str[j])
        BY <3>2, <3>5 DEF AddPiece
      <4>2. Len(old) > 0
        BY <3>3, <3>4, <3>5
      <4> QED BY <3>3, <4>1, <4>2, AddToLastOK DEF j
    <3>6. CASE ~(j > 1 /\ "WIDE" \notin {str[j - 1], str[j]})
      <4> DEFINE one == Only(str[j])
      <4>1. f[j] = Added(old, one)
        BY <3>2, <3>6 DEF AddPiece, Added, Only
      <4>2. IsSeq(one)
        BY OnlySeq
      <4> HIDE DEF one
      <4>3. TextsOK(f[j]) /\ Len(f[j]) = Len(old) + 1
        BY <3>3, <4>1, <4>2, AddedText
      <4>4. Len(old) \in Nat
        BY <3>3, SeqDomain DEF TextsOK
      <4> QED BY <4>3, <4>4 DEF j
    <3> QED BY <3>5, <3>6
  <2> HIDE DEF S
  <2>5. n \in S
    BY <2>1, <2>3, <2>4, SetInduction
  <2> QED BY <1>2, <2>1, <2>2, <2>5 DEF S
<1> QED BY <1>1, <1>2

\* Pieces written one after another.
LEMMA WrittenSteps ==
  ASSUME NEW u, NEW pieces, IsSeq(pieces)
  PROVE  \E f : /\ f[0] = Screen(u)
                /\ \A i \in 1 .. Len(pieces) : f[i] = Write(f[i - 1], pieces[i], "insertMode" \in u.options)
                /\ WriteAll(u, pieces) = OnScreen(u, f[Len(pieces)])
<1> DEFINE N == Len(pieces)
           Step(f, i) == IF i = 0 THEN Screen(u) ELSE Write(f[i - 1], pieces[i], "insertMode" \in u.options)
           Upto(n, f) == f = [i \in 0 .. n |-> Step(f, i)]
           S == {n \in Nat : \E f : Upto(n, f)}
<1>0. N \in Nat
  BY SeqDomain
<1>1. 0 \in S
  <2> DEFINE f == [i \in 0 .. 0 |-> Screen(u)]
  <2>1. Upto(0, f)
    OBVIOUS
  <2> QED BY <2>1
<1>2. ASSUME NEW n \in Nat, n \in S PROVE n + 1 \in S
  <2>1. PICK f : Upto(n, f)
    BY <1>2
  <2> DEFINE g == [i \in 0 .. n + 1 |-> IF i = n + 1 THEN Step(f, n + 1) ELSE f[i]]
  <2>2. ASSUME NEW i \in 0 .. n + 1 PROVE g[i] = Step(g, i)
    <3>1. i # 0 => i - 1 \in 0 .. n /\ g[i - 1] = f[i - 1]
      OBVIOUS
    <3>2. CASE i = n + 1
      <4>1. g[i] = Step(f, i)
        BY <3>2
      <4>2. i # 0
        BY <3>2
      <4> HIDE DEF g
      <4> QED BY <4>1, <4>2, <3>1
    <3>3. CASE i # n + 1
      <4>1. i \in 0 .. n /\ g[i] = f[i]
        BY <3>3
      <4>2. f[i] = Step(f, i)
        BY <2>1, <4>1
      <4> HIDE DEF g
      <4> QED BY <4>1, <4>2, <3>1
    <3> QED BY <3>2, <3>3
  <2> HIDE DEF Step
  <2>3. Upto(n + 1, g)
    BY <2>2
  <2>4. n + 1 \in Nat
    OBVIOUS
  <2> HIDE DEF g, Upto
  <2> QED BY <2>3, <2>4
<1>3. N \in S
  <2> HIDE DEF S, N
  <2> QED BY <1>0, <1>1, <1>2, SetInduction
<1> DEFINE taken == CHOOSE f : Upto(N, f)
<1>4. Upto(N, taken)
  BY <1>3
<1>5. WriteAll(u, pieces) = OnScreen(u, taken[Len(pieces)])
  BY DEF WriteAll, Iterate
<1> HIDE DEF taken
<1>6. taken[0] = Screen(u)
  BY <1>0, <1>4
<1>7. ASSUME NEW i \in 1 .. N PROVE taken[i] = Write(taken[i - 1], pieces[i], "insertMode" \in u.options)
  <2>1. i # 0 /\ i \in 0 .. N
    BY <1>0
  <2> HIDE DEF N, Step
  <2>2. taken[i] = Step(taken, i)
    BY <1>4, <2>1
  <2> QED BY <2>1, <2>2 DEF Step
<1> QED BY <1>5, <1>6, <1>7

\* A text printed part by part.
LEMMA PrintSteps ==
  ASSUME NEW u, NEW str, IsSeq(str)
  PROVE  \E f : /\ f[0] = [t |-> u, startOffset |-> 0]
                /\ \A i \in 1 .. strWidth(str) : f[i] = PrintNext(f[i - 1], str)
                /\ print(u, str) = f[strWidth(str)].t
<1> DEFINE N == strWidth(str)
           Step(f, i) == IF i = 0 THEN [t |-> u, startOffset |-> 0] ELSE PrintNext(f[i - 1], str)
           Upto(n, f) == f = [i \in 0 .. n |-> Step(f, i)]
           S == {n \in Nat : \E f : Upto(n, f)}
<1>0. N \in Nat
  BY WidthNat
<1>1. 0 \in S
  <2> DEFINE f == [i \in 0 .. 0 |-> [t |-> u, startOffset |-> 0]]
  <2>1. Upto(0, f)
    OBVIOUS
  <2> QED BY <2>1
<1>2. ASSUME NEW n \in Nat, n \in S PROVE n + 1 \in S
  <2>1. PICK f : Upto(n, f)
    BY <1>2
  <2> DEFINE g == [i \in 0 .. n + 1 |-> IF i = n + 1 THEN Step(f, n + 1) ELSE f[i]]
  <2>2. ASSUME NEW i \in 0 .. n + 1 PROVE g[i] = Step(g, i)
    <3>1. i # 0 => i - 1 \in 0 .. n /\ g[i - 1] = f[i - 1]
      OBVIOUS
    <3>2. CASE i = n + 1
      <4>1. g[i] = Step(f, i)
        BY <3>2
      <4>2. i # 0
        BY <3>2
      <4> HIDE DEF g
      <4> QED BY <4>1, <4>2, <3>1
    <3>3. CASE i # n + 1
      <4>1. i \in 0 .. n /\ g[i] = f[i]
        BY <3>3
      <4>2. f[i] = Step(f, i)
        BY <2>1, <4>1
      <4> HIDE DEF g
      <4> QED BY <4>1, <4>2, <3>1
    <3> QED BY <3>2, <3>3
  <2> HIDE DEF Step
  <2>3. Upto(n + 1, g)
    BY <2>2
  <2>4. n + 1 \in Nat
    OBVIOUS
  <2> HIDE DEF g, Upto
  <2> QED BY <2>3, <2>4
<1>3. N \in S
  <2> HIDE DEF S, N
  <2> QED BY <1>0, <1>1, <1>2, SetInduction
<1> DEFINE taken == CHOOSE f : Upto(N, f)
<1>4. Upto(N, taken)
  BY <1>3
<1>5. print(u, str) = taken[strWidth(str)].t
  BY DEF print, Iterate
<1> HIDE DEF taken
<1>6. taken[0] = [t |-> u, startOffset |-> 0]
  BY <1>0, <1>4
<1>7. ASSUME NEW i \in 1 .. N PROVE taken[i] = PrintNext(taken[i - 1], str)
  <2>1. i # 0 /\ i \in 0 .. N
    BY <1>0
  <2> HIDE DEF N, Step
  <2>2. taken[i] = Step(taken, i)
    BY <1>4, <2>1
  <2> QED BY <2>1, <2>2 DEF Step
<1> QED BY <1>5, <1>6, <1>7

LEMMA WriteLike ==
  ASSUME NEW s, ScreenOK(s), OnIt(s), NEW str, IsSeq(str), NEW inserts
  PROVE  /\ OnRow(s, Write(s, str, inserts)) /\ OnIt(Write(s, str, inserts))
  BY InsertLike, OverwriteLike DEF Write

LEMMA WriteAllSound ==
  ASSUME NEW u, Sound(u), NEW pieces, TextsOK(pieces)
  PROVE  Sound(WriteAll(u, pieces)) /\ Same(u, WriteAll(u, pieces))
<1> DEFINE n == Len(pieces)
           inserts == "insertMode" \in u.options
           s == Screen(u)
<1>1. n \in Nat /\ IsSeq(pieces)
  BY SeqDomain DEF TextsOK
<1>2. ScreenOK(s) /\ OnIt(s)
  BY SoundCursor
<1>3. PICK f : /\ f[0] = s
               /\ \A i \in 1 .. n : f[i] = Write(f[i - 1], pieces[i], inserts)
               /\ WriteAll(u, pieces) = OnScreen(u, f[n])
  BY <1>1, WrittenSteps
<1> HIDE DEF n, inserts, s
<1> DEFINE S == {i \in Nat : i <= n => OnRow(s, f[i]) /\ OnIt(f[i])}
<1>4. 0 \in S
  BY <1>2, <1>3, OnRowItself
<1>5. ASSUME NEW i \in Nat, i \in S PROVE i + 1 \in S
  <2> SUFFICES ASSUME i + 1 <= n PROVE OnRow(s, f[i + 1]) /\ OnIt(f[i + 1])
    OBVIOUS
  <2> DEFINE j == i + 1
             old == f[i]
  <2>1. j \in 1 .. n /\ j - 1 = i
    BY <1>1
  <2>2. f[j] = Write(old, pieces[j], inserts)
    BY <1>3, <2>1
  <2>3. OnRow(s, old) /\ OnIt(old)
    BY <1>1, <1>5
  <2>4. IsSeq(pieces[j])
    BY <2>1 DEF TextsOK, n
  <2> HIDE DEF old, j
  <2>5. ScreenOK(old)
    BY <2>3 DEF OnRow, Like, SameRows
  <2>6. OnRow(old, f[j]) /\ OnIt(f[j])
    BY <2>2, <2>3, <2>4, <2>5, WriteLike
  <2>7. OnRow(s, f[j])
    BY <2>3, <2>6, OnRowOnRow
  <2> QED BY <2>6, <2>7 DEF j
<1> HIDE DEF S
<1>6. n \in S
  BY <1>1, <1>4, <1>5, SetInduction
<1>7. OnRow(s, f[n]) /\ OnIt(f[n])
  BY <1>1, <1>6 DEF S
<1> QED BY <1>3, <1>7, DrawnSound DEF OnRow, s

LEMMA ClippedGood ==
  ASSUME NEW u, Sound(u)
  PROVE  Good(Clipped(u)) /\ Same(u, Clipped(u))
<1> DEFINE r == maybeClipCurrentRow(Screen(u))
           v == Clipped(u)
<1>1. /\ ScreenOK(Screen(u)) /\ OnIt(Screen(u)) /\ Screen(u).columnCount = u.width
      /\ u.width > 0 /\ u.width \in Nat
  BY SoundCursor
<1>2. Like(Screen(u), r) /\ OnIt(r) /\ r.column < u.width
  BY <1>1, ClipLike
<1>3. v = OnScreen(u, r)
  BY DEF Clipped
<1> HIDE DEF r, v
<1>4. Sound(v) /\ Same(u, v) /\ Screen(v) = r
  BY <1>2, <1>3, DrawnSound
<1> QED BY <1>2, <1>4 DEF Good, Column, Same, v

LEMMA PrintPartGood ==
  ASSUME NEW u, Good(u), NEW str, IsSeq(str), NEW startOffset
  PROVE  Good(PrintPart(u, str, startOffset).t)
<1> DEFINE left == strWidth(str) - startOffset
           space == u.width - Column(u)
           full == left >= space
           count == IF full THEN space ELSE left
           drops == full /\ "wraparound" \notin u.options
           begin == substr(str, startOffset, count - 1)
           end == Remainder(str, strWidth(str) - 1)
           part == IF drops THEN Joined(begin, end) ELSE substr(str, startOffset, count)
<1>1. PrintPart(u, str, startOffset).t = Clipped(WriteAll(u, splitWidecharString(part)))
  BY DEF PrintPart, Joined
<1>2. IsSeq(part)
  <2>1. IsSeq(begin) /\ IsSeq(end) /\ IsSeq(substr(str, startOffset, count))
    BY CutSeq, RemainderSeq
  <2> HIDE DEF begin, end, drops, count
  <2>2. IsSeq(Joined(begin, end))
    BY <2>1, JoinedSeq
  <2> QED BY <2>1, <2>2
<1> HIDE DEF part
<1>3. TextsOK(splitWidecharString(part))
  BY <1>2, PiecesOK
<1> DEFINE w == WriteAll(u, splitWidecharString(part))
<1>4. Sound(w)
  BY <1>3, WriteAllSound DEF Good
<1> HIDE DEF w
<1> QED BY <1>1, <1>4, ClippedGood DEF w

LEMMA WrapGood ==
  ASSUME NEW u, Good(u)
  PROVE  Good(wrapLine(u))
<1> DEFINE r == commitLineOverflow(Screen(u))
           w == OnScreen(u, r)
<1>1. ScreenOK(Screen(u)) /\ OnIt(Screen(u)) /\ Screen(u).rowNode # 0 /\ Sound(u)
      /\ Screen(u).column \in Nat
  BY SoundCursor DEF Good, OnIt
<1>2. OnRow(Screen(u), r) /\ r.column = Screen(u).column
  BY <1>1, CommitLike
<1> HIDE DEF r
<1>3. Like(Screen(u), r) /\ OnIt(r)
  BY <1>1, <1>2, OnRowOnIt DEF OnRow
<1>4. Sound(w) /\ Same(u, w) /\ Screen(w) = r
  BY <1>1, <1>3, DrawnSound
<1> HIDE DEF w
<1>5. Good(w)
  BY <1>2, <1>4 DEF Good, Same, Column
<1>6. Good(newLine(w))
  BY <1>5, NewLineGood
<1> QED BY <1>6 DEF wrapLine, w, r

LEMMA PrintGood ==
  ASSUME NEW u, Good(u), NEW str, IsSeq(str)
  PROVE  Good(print(u, str))
<1> DEFINE n == strWidth(str)
           first == [t |-> u, startOffset |-> 0]
<1>1. n \in Nat
  BY WidthNat
<1>2. PICK f : /\ f[0] = first
               /\ \A i \in 1 .. n : f[i] = PrintNext(f[i - 1], str)
               /\ print(u, str) = f[n].t
  BY PrintSteps
<1>3. Good(first.t)
  OBVIOUS
<1> HIDE DEF n, first
<1> DEFINE S == {i \in Nat : i <= n => Good(f[i].t)}
<1>4. 0 \in S
  BY <1>2, <1>3
<1>5. ASSUME NEW i \in Nat, i \in S PROVE i + 1 \in S
  <2> SUFFICES ASSUME i + 1 <= n PROVE Good(f[i + 1].t)
    OBVIOUS
  <2> DEFINE j == i + 1
             old == f[i]
  <2>1. j \in 1 .. n /\ j - 1 = i
    BY <1>1
  <2>2. f[j] = PrintNext(old, str)
    BY <1>2, <2>1
  <2>3. Good(old.t)
    BY <1>1, <1>5
  <2> HIDE DEF old, j
  <2>4. Good(wrapLine(old.t))
    BY <2>3, WrapGood
  <2>5. Good(PrintPart(wrapLine(old.t), str, old.startOffset).t)
    BY <2>4, PrintPartGood
  <2>6. Good(f[j].t)
    BY <2>2, <2>3, <2>5 DEF PrintNext
  <2> QED BY <2>6 DEF j
<1> HIDE DEF S
<1>6. n \in S
  BY <1>1, <1>4, <1>5, SetInduction
<1> QED BY <1>1, <1>2, <1>6 DEF S

----------------------------------------------------------------------------
\* Erasing.

LEMMA OverwriteSound ==
  ASSUME NEW u, Sound(u), NEW str, IsSeq(str)
  PROVE  /\ Sound(Overwrite(u, str)) /\ Same(u, Overwrite(u, str))
         /\ Sound(Insert(u, str)) /\ Same(u, Insert(u, str))
<1>1. ScreenOK(Screen(u)) /\ OnIt(Screen(u))
  BY SoundCursor
<1> DEFINE r == overwriteString(Screen(u), str)
           q == insertString(Screen(u), str)
<1>2. OnRow(Screen(u), r) /\ OnIt(r)
  BY <1>1, OverwriteLike
<1>3. OnRow(Screen(u), q) /\ OnIt(q)
  BY <1>1, InsertLike
<1>4. Overwrite(u, str) = OnScreen(u, r) /\ Insert(u, str) = OnScreen(u, q)
  BY DEF Overwrite, Insert
<1> HIDE DEF r, q
<1> QED BY <1>2, <1>3, <1>4, DrawnSound DEF OnRow

LEMMA EraseToLeftGood ==
  ASSUME NEW u, Sound(u)
  PROVE  Good(eraseToLeft(u)) /\ Same(u, eraseToLeft(u)) /\ Row(eraseToLeft(u)) = Row(u)
<1> DEFINE w == setCursorColumn(u, 0)
           blanks == Blanks(Column(u) + 1)
           r == Overwrite(w, blanks)
           v == restoreCursor(r, saveCursor(u))
<1>1. Column(u) + 1 \in Int /\ 0 \in Int
  BY SoundCursor
<1>2. eraseToLeft(u) = v
  BY DEF eraseToLeft
<1>3. Sound(w) /\ Same(u, w)
  BY <1>1, ColumnGood DEF Good
<1>4. IsSeq(blanks)
  BY <1>1, BlanksSeq
<1> HIDE DEF w, blanks
<1>5. Sound(r) /\ Same(w, r)
  BY <1>3, <1>4, OverwriteSound
<1> HIDE DEF r
<1>6. Same(u, r) /\ r.height = u.height
  BY <1>3, <1>5, SameSame DEF Same
<1>7. Good(v) /\ Same(r, v) /\ Row(v) = Row(u)
  BY <1>5, <1>6, RestoreGood
<1> HIDE DEF v
<1> QED BY <1>2, <1>6, <1>7, SameSame

LEMMA DeletedSound ==
  ASSUME NEW u, Sound(u), NEW count
  PROVE  LET v == OnScreen(u, ScreenDeleteChars(Screen(u), count))
         IN  Sound(v) /\ Same(u, v) /\ Row(v) = Row(u) /\ (Good(u) => Good(v))
<1> DEFINE r == ScreenDeleteChars(Screen(u), count)
           v == OnScreen(u, r)
<1>1. /\ ScreenOK(Screen(u)) /\ OnIt(Screen(u)) /\ Screen(u).rowNode # 0
      /\ Screen(u).column \in Nat
  BY SoundCursor DEF OnIt
<1>2. OnRow(Screen(u), r) /\ r.column = Screen(u).column
  BY <1>1, DeleteLike
<1> HIDE DEF r
<1>3. Like(Screen(u), r) /\ OnIt(r) /\ r.row = Screen(u).row
  BY <1>1, <1>2, OnRowOnIt DEF OnRow
<1>4. Sound(v) /\ Same(u, v) /\ Screen(v) = r
  BY <1>3, DrawnSound
<1> HIDE DEF v
<1>5. Row(v) = Row(u) /\ (Good(u) => Good(v))
  BY <1>2, <1>3, <1>4 DEF Good, Same, Column, Row
<1> QED BY <1>4, <1>5 DEF v, r

LEMMA EraseToRightGood ==
  ASSUME NEW u, Good(u), NEW columns \in Int
  PROVE  /\ Good(eraseToRight(u, columns)) /\ Same(u, eraseToRight(u, columns))
         /\ Row(eraseToRight(u, columns)) = Row(u)
<1> DEFINE count == Min({columns, u.width - Column(u)})
           screen == Screen(u)
           deletes == /\ ~SetsBackground(screen.textAttributes)
                      /\ RowWidth(screen.rowsArray[Row(u) + 1]) <= Column(u) + count
           v == eraseToRight(u, columns)
<1>1. Sound(u) /\ u.width - Column(u) \in Int
  BY SoundCursor DEF Good
<1>2. count \in Int
  BY <1>1, Min2
<1>3. CASE screen.overflow
  <2>1. v = u
    BY <1>3 DEF eraseToRight
  <2> QED BY <1>1, <2>1 DEF Same
<1>4. CASE ~screen.overflow /\ deletes
  <2> DEFINE w == OnScreen(u, ScreenDeleteChars(Screen(u), count))
  <2>1. v = clearCursorOverflow(w)
    BY <1>4 DEF eraseToRight
  <2>2. Sound(w) /\ Same(u, w) /\ Row(w) = Row(u) /\ Good(w)
    BY <1>1, DeletedSound
  <2> HIDE DEF w, v
  <2>3. Good(v) /\ Same(w, v) /\ Row(v) = Row(w)
    BY <2>1, <2>2, ClearOverflowSound
  <2> QED BY <2>2, <2>3, SameSame DEF v
<1>5. CASE ~screen.overflow /\ ~deletes
  <2> DEFINE blanks == Blanks(count)
             w == Overwrite(u, blanks)
             r == restoreCursor(w, saveCursor(u))
  <2>1. v = clearCursorOverflow(r)
    BY <1>5 DEF eraseToRight
  <2>2. IsSeq(blanks)
    BY <1>2, BlanksSeq
  <2> HIDE DEF blanks
  <2>3. Sound(w) /\ Same(u, w)
    BY <1>1, <2>2, OverwriteSound
  <2> HIDE DEF w, v
  <2>4. Good(r) /\ Same(w, r) /\ Row(r) = Row(u)
    <3>1. w.height = u.height
      BY <2>3 DEF Same
    <3> QED BY <1>1, <2>3, <3>1, RestoreGood
  <2> HIDE DEF r
  <2>5. Good(v) /\ Same(r, v) /\ Row(v) = Row(r)
    BY <2>1, <2>4, ClearOverflowSound DEF Good
  <2> QED BY <2>3, <2>4, <2>5, SameSame DEF v
<1> QED BY <1>3, <1>4, <1>5

LEMMA EraseWholeRightGood ==
  ASSUME NEW u, Good(u)
  PROVE  /\ Good(eraseWholeRight(u)) /\ Same(u, eraseWholeRight(u))
         /\ Row(eraseWholeRight(u)) = Row(u)
<1>1. u.width \in Int
  BY GoodStops
<1> QED BY <1>1, EraseToRightGood DEF eraseWholeRight

\* Rows cleared and the cursor put back.
LEMMA ClearedBackGood ==
  ASSUME NEW u, Sound(u), NEW w, Sound(w), NEW rows, NEW last,
         rows # {} => last \in 0 .. w.height - 1
  PROVE  Good(clearCursorOverflow(restoreCursor(ClearRows(w, rows, last), saveCursor(u))))
<1> DEFINE r == ClearRows(w, rows, last)
           v == restoreCursor(r, saveCursor(u))
<1>1. Sound(r)
  BY ClearRowsSound
<1> HIDE DEF r
<1>2. Good(v)
  BY <1>1, RestoreGood
<1> HIDE DEF v
<1>3. Good(clearCursorOverflow(v))
  BY <1>2, ClearOverflowSound DEF Good
<1> QED BY <1>3 DEF v, r

LEMMA EraseGood ==
  ASSUME NEW u, Good(u)
  PROVE  Good(eraseLine(u)) /\ Good(eraseAbove(u)) /\ Good(eraseBelow(u))
<1>1. /\ Sound(u) /\ Row(u) \in 0 .. u.height - 1 /\ u.height \in Nat /\ u.height > 0
  BY SoundCursor DEF Good
<1>2. Good(eraseLine(u))
  <2> DEFINE w == ClearCursorRow(u)
             v == restoreCursor(w, saveCursor(u))
  <2>1. eraseLine(u) = clearCursorOverflow(v)
    BY DEF eraseLine
  <2>2. Sound(w)
    BY <1>1, ClearCursorRowGood
  <2> HIDE DEF w
  <2>3. Good(v)
    BY <1>1, <2>2, RestoreGood
  <2> HIDE DEF v
  <2> QED BY <2>1, <2>3, ClearOverflowSound DEF Good
<1>3. Good(eraseAbove(u))
  <2> DEFINE w == eraseToLeft(u)
             rows == 0 .. Row(u) - 1
             last == Row(u) - 1
  <2>1. eraseAbove(u) = clearCursorOverflow(restoreCursor(ClearRows(w, rows, last), saveCursor(u)))
    BY DEF eraseAbove
  <2>2. Sound(w) /\ w.height = u.height
    BY <1>1, EraseToLeftGood DEF Good, Same
  <2> HIDE DEF w
  <2>3. rows # {} => last \in 0 .. w.height - 1
    BY <1>1, <2>2
  <2> HIDE DEF rows, last
  <2> QED BY <1>1, <2>1, <2>2, <2>3, ClearedBackGood
<1>4. Good(eraseBelow(u))
  <2> DEFINE w == eraseWholeRight(u)
             rows == Row(u) + 1 .. u.height - 1
             last == u.height - 1
  <2>1. eraseBelow(u) = clearCursorOverflow(restoreCursor(ClearRows(w, rows, last), saveCursor(u)))
    BY DEF eraseBelow
  <2>2. Sound(w) /\ w.height = u.height
    BY EraseWholeRightGood DEF Good, Same
  <2> HIDE DEF w
  <2>3. rows # {} => last \in 0 .. w.height - 1
    BY <1>1, <2>2
  <2> HIDE DEF rows, last
  <2> QED BY <1>1, <2>1, <2>2, <2>3, ClearedBackGood
<1> QED BY <1>2, <1>3, <1>4

LEMMA FillCellLike ==
  ASSUME NEW s, ScreenOK(s), Height(s) > 0, s.columnCount > 0, NEW row \in Int,
         NEW column \in Int, NEW ch
  PROVE  Like(s, FillCell(s, row, column, ch)) /\ OnIt(FillCell(s, row, column, ch))
<1> DEFINE r == ScreenSetCursorPosition(s, row, column)
           text == Only(ch)
<1>1. FillCell(s, row, column, ch) = overwriteString(r, text)
  BY DEF FillCell, Only
<1>2. Like(s, r) /\ OnIt(r) /\ ScreenOK(r)
  BY SetCursorLike DEF Like, SameRows
<1>3. IsSeq(text)
  BY OnlySeq
<1> HIDE DEF r, text
<1>4. OnRow(r, overwriteString(r, text)) /\ OnIt(overwriteString(r, text))
  BY <1>2, <1>3, OverwriteLike
<1> QED BY <1>1, <1>2, <1>4, LikeLike DEF OnRow

\* The cells of the screen filled one after another.
LEMMA FillSteps ==
  ASSUME NEW u, NEW ch, u.width * u.height \in Nat
  PROVE  \E f : /\ f[0] = Screen(u)
                /\ \A i \in 1 .. (u.width * u.height) : f[i] = FillCell(f[i - 1], (i - 1) \div u.width, (i - 1) % u.width, ch)
                /\ fill(u, ch) = restoreCursor(OnScreen(u, f[u.width * u.height]), saveCursor(u))
<1> DEFINE N == (u.width * u.height)
           Step(f, i) == IF i = 0 THEN Screen(u) ELSE FillCell(f[i - 1], (i - 1) \div u.width, (i - 1) % u.width, ch)
           Upto(n, f) == f = [i \in 0 .. n |-> Step(f, i)]
           S == {n \in Nat : \E f : Upto(n, f)}
<1>0. N \in Nat
  OBVIOUS
<1>1. 0 \in S
  <2> DEFINE f == [i \in 0 .. 0 |-> Screen(u)]
  <2>1. Upto(0, f)
    OBVIOUS
  <2> QED BY <2>1
<1>2. ASSUME NEW n \in Nat, n \in S PROVE n + 1 \in S
  <2>1. PICK f : Upto(n, f)
    BY <1>2
  <2> DEFINE g == [i \in 0 .. n + 1 |-> IF i = n + 1 THEN Step(f, n + 1) ELSE f[i]]
  <2>2. ASSUME NEW i \in 0 .. n + 1 PROVE g[i] = Step(g, i)
    <3>1. i # 0 => i - 1 \in 0 .. n /\ g[i - 1] = f[i - 1]
      OBVIOUS
    <3>2. CASE i = n + 1
      <4>1. g[i] = Step(f, i)
        BY <3>2
      <4>2. i # 0
        BY <3>2
      <4> HIDE DEF g
      <4> QED BY <4>1, <4>2, <3>1
    <3>3. CASE i # n + 1
      <4>1. i \in 0 .. n /\ g[i] = f[i]
        BY <3>3
      <4>2. f[i] = Step(f, i)
        BY <2>1, <4>1
      <4> HIDE DEF g
      <4> QED BY <4>1, <4>2, <3>1
    <3> QED BY <3>2, <3>3
  <2> HIDE DEF Step
  <2>3. Upto(n + 1, g)
    BY <2>2
  <2>4. n + 1 \in Nat
    OBVIOUS
  <2> HIDE DEF g, Upto
  <2> QED BY <2>3, <2>4
<1>3. N \in S
  <2> HIDE DEF S, N
  <2> QED BY <1>0, <1>1, <1>2, SetInduction
<1> DEFINE taken == CHOOSE f : Upto(N, f)
<1>4. Upto(N, taken)
  BY <1>3
<1>5. fill(u, ch) = restoreCursor(OnScreen(u, taken[u.width * u.height]), saveCursor(u))
  BY DEF fill, Iterate
<1> HIDE DEF taken
<1>6. taken[0] = Screen(u)
  BY <1>0, <1>4
<1>7. ASSUME NEW i \in 1 .. N PROVE taken[i] = FillCell(taken[i - 1], (i - 1) \div u.width, (i - 1) % u.width, ch)
  <2>1. i # 0 /\ i \in 0 .. N
    BY <1>0
  <2> HIDE DEF N, Step
  <2>2. taken[i] = Step(taken, i)
    BY <1>4, <2>1
  <2> QED BY <2>1, <2>2 DEF Step
<1> QED BY <1>5, <1>6, <1>7

LEMMA FillGood ==
  ASSUME NEW u, Good(u), NEW ch
  PROVE  Good(fill(u, ch))
<1> DEFINE n == u.width * u.height
           s == Screen(u)
           Cell(i) == FillCell(s, (i - 1) \div u.width, (i - 1) % u.width, ch)
<1>1. /\ Sound(u) /\ ScreenOK(s) /\ OnIt(s) /\ u.width \in Nat /\ u.height \in Nat
      /\ u.width > 0 /\ u.height > 0 /\ Height(s) = u.height /\ s.columnCount = u.width
  BY SoundCursor DEF Good
<1>2. n \in Nat
  BY <1>1
<1>3. PICK f : /\ f[0] = s
               /\ \A i \in 1 .. n :
                    f[i] = FillCell(f[i - 1], (i - 1) \div u.width, (i - 1) % u.width, ch)
               /\ fill(u, ch) = restoreCursor(OnScreen(u, f[n]), saveCursor(u))
  BY <1>2, FillSteps
<1> HIDE DEF n, s
<1> DEFINE S == {i \in Nat : i <= n => Like(s, f[i]) /\ OnIt(f[i])}
<1>4. 0 \in S
  BY <1>1, <1>3, LikeItself
<1>5. ASSUME NEW i \in Nat, i \in S PROVE i + 1 \in S
  <2> SUFFICES ASSUME i + 1 <= n PROVE Like(s, f[i + 1]) /\ OnIt(f[i + 1])
    OBVIOUS
  <2> DEFINE j == i + 1
             old == f[i]
             row == (j - 1) \div u.width
             column == (j - 1) % u.width
  <2>1. j \in 1 .. n /\ j - 1 = i
    BY <1>2
  <2>2. f[j] = FillCell(old, row, column, ch)
    BY <1>3, <2>1
  <2>3. Like(s, old)
    BY <1>2, <1>5
  <2>4. row \in Int /\ column \in Int
    BY <1>1, <2>1
  <2> HIDE DEF old, j, row, column
  <2>5. ScreenOK(old) /\ Height(old) > 0 /\ old.columnCount > 0
    BY <1>1, <2>3 DEF Like, SameRows
  <2>6. Like(old, f[j]) /\ OnIt(f[j])
    BY <2>2, <2>4, <2>5, FillCellLike
  <2>7. Like(s, f[j])
    BY <2>3, <2>6, LikeLike
  <2> QED BY <2>6, <2>7 DEF j
<1> HIDE DEF S
<1>6. n \in S
  BY <1>2, <1>4, <1>5, SetInduction
<1>7. Like(s, f[n]) /\ OnIt(f[n])
  BY <1>2, <1>6 DEF S
<1>8. Sound(OnScreen(u, f[n]))
  BY <1>1, <1>7, DrawnSound DEF s
<1> QED BY <1>1, <1>3, <1>8, RestoreGood

LEMMA ClearGood ==
  ASSUME NEW u, Good(u)
  PROVE  Good(clear(u)) /\ Same(u, clear(u))
<1> DEFINE r == clearHome(Screen(u))
           q == ScreenSetCursorPosition(r, Row(u), Column(u))
           v == clear(u)
<1>1. /\ Sound(u) /\ ScreenOK(Screen(u)) /\ u.width \in Nat /\ u.height \in Nat
      /\ u.width > 0 /\ u.height > 0 /\ Height(Screen(u)) = u.height
      /\ Screen(u).columnCount = u.width /\ Row(u) \in Int /\ Column(u) \in Int
  BY SoundCursor DEF Good
<1>2. v = OnScreen(u, q)
  BY DEF clear
<1>3. Like(Screen(u), r)
  BY <1>1, ClearHomeLike
<1> HIDE DEF r, v
<1>4. ScreenOK(r) /\ Height(r) > 0 /\ r.columnCount > 0 /\ r.columnCount = u.width
  BY <1>1, <1>3 DEF Like, SameRows
<1>5. Like(r, q) /\ OnIt(q) /\ q.column < u.width
  BY <1>1, <1>4, SetCursorLike
<1>6. Like(Screen(u), q)
  BY <1>3, <1>5, LikeLike
<1> HIDE DEF q
<1>7. Sound(v) /\ Same(u, v) /\ Screen(v) = q
  BY <1>1, <1>2, <1>5, <1>6, DrawnSound
<1> QED BY <1>5, <1>7 DEF Good, Column, Same, v

LEMMA ClearScrollbackGood ==
  ASSUME NEW u, Good(u)
  PROVE  Good(clearScrollback(u)) /\ clearScrollback(u).scrollback = <<>>
<1> DEFINE New(name) == RenumberedScreen(u.screens[name], 0, Height(u.screens[name]), 0)
           v == clearScrollback(u)
<1>1. Sound(u) /\ Base(u) /\ DOMAIN u = TerminalFields /\ DOMAIN u.screens = Names
      /\ u.current \in Names
  BY DEF Good, Sound, Fit, Base
<1>2. /\ DOMAIN v = TerminalFields /\ v.current = u.current /\ v.scrollback = <<>>
      /\ v.width = u.width /\ v.height = u.height /\ v.top = u.top /\ v.bottom = u.bottom
      /\ v.tabStops = u.tabStops /\ v.colors = u.colors /\ v.vt = u.vt
      /\ DOMAIN v.screens = Names /\ \A name \in Names : v.screens[name] = New(name)
  <2>1. v = [u EXCEPT !.scrollback = <<>>, !.screens = [name \in DOMAIN @ |-> New(name)]]
    BY DEF clearScrollback
  <2> HIDE DEF New, v
  <2> QED BY <1>1, <2>1 DEF TerminalFields
<1> HIDE DEF v
<1>3. ASSUME NEW name \in Names
      PROVE  /\ ScreenOK(v.screens[name]) /\ SameCursor(u.screens[name], v.screens[name])
             /\ Height(v.screens[name]) = Height(u.screens[name])
             /\ v.screens[name].rowNode = u.screens[name].rowNode
             /\ NumberedFrom(v.screens[name].rowsArray, 0)
             /\ Len(v.screens[name].rowsArray) > 0 =>
                  NumberedFrom(v.screens[name].rowsArray, v.screens[name].rowsArray[1].rowIndex)
  <2> DEFINE s == u.screens[name]
             r == New(name)
             h == Height(s)
  <2>1. ScreenOK(s) /\ v.screens[name] = r
    BY <1>1, <1>2 DEF Base
  <2> HIDE DEF s
  <2>2. h \in Nat
    BY <2>1, RowsHeight
  <2>3. r = RenumberedScreen(s, 0, h, 0)
    BY DEF s
  <2> HIDE DEF h, r
  <2>4. /\ ScreenOK(r) /\ SameCursor(s, r) /\ Height(r) = Height(s) /\ r.rowNode = s.rowNode
        /\ \A i \in 1 .. Height(s) :
             r.rowsArray[i].rowIndex = IF i - 1 \in 0 .. h - 1 THEN 0 + i - 1
                                       ELSE s.rowsArray[i].rowIndex
    BY <2>1, <2>3, RenumberOK
  <2>5. ASSUME NEW i \in 1 .. h PROVE r.rowsArray[i].rowIndex = 0 + i - 1
    <3>1. i - 1 \in 0 .. h - 1 /\ i \in 1 .. Height(s)
      BY <2>2, <2>5 DEF h
    <3> QED BY <2>4, <3>1
  <2>6. Len(r.rowsArray) = h
    BY <2>4 DEF h, Height
  <2>7. NumberedFrom(r.rowsArray, 0)
    BY <2>5, <2>6 DEF NumberedFrom
  <2>8. Len(r.rowsArray) > 0 => NumberedFrom(r.rowsArray, r.rowsArray[1].rowIndex)
    <3>1. h > 0 => 1 \in 1 .. h
      BY <2>2
    <3>2. h > 0 => r.rowsArray[1].rowIndex = 0
      BY <2>5, <3>1
    <3> QED BY <2>6, <2>7, <3>2
  <2> QED BY <2>1, <2>4, <2>7, <2>8 DEF s
<1> HIDE DEF New
<1>4. RowsOK(v.scrollback) /\ NumberedFrom(v.scrollback, 0) /\ Len(v.scrollback) = 0
  BY <1>2, EmptySequence DEF RowsOK, NumberedFrom
<1>5. Numbered(v)
  <2>1. NumberedFrom(Screen(v).rowsArray, Len(v.scrollback))
    BY <1>1, <1>2, <1>3, <1>4 DEF Screen
  <2> QED BY <1>3, <1>4, <2>1 DEF Numbered
<1>6. ShowsPalette(v)
  BY <1>1, <1>2 DEF Base, ShowsPalette, ShownColor, getColorPalette, Overrides
<1>7. Base(v)
  BY <1>1, <1>2, <1>3, <1>4, <1>5, <1>6 DEF Base
<1>8. /\ SameCursor(Screen(u), Screen(v)) /\ Height(Screen(v)) = Height(Screen(u))
      /\ Screen(v).rowNode = Screen(u).rowNode
  BY <1>1, <1>2, <1>3 DEF Screen
<1>9. Fit(v)
  BY <1>1, <1>2, <1>7, <1>8 DEF Fit, Sound, SameCursor
<1>10. OnIt(Screen(v))
  BY <1>1, <1>8 DEF Sound, OnIt, SameCursor
<1>11. RegionOK(v)
  BY <1>1, <1>2 DEF Sound, RegionOK, getVTScrollTop, getVTScrollBottom
<1>12. Column(v) < v.width
  BY <1>2, <1>8 DEF Good, Column, SameCursor
<1> QED BY <1>2, <1>9, <1>10, <1>11, <1>12 DEF Good, Sound, v

LEMMA InsertSpaceGood ==
  ASSUME NEW u, Good(u), NEW count \in Int
  PROVE  Good(insertSpace(u, count))
<1> DEFINE blanks == Blanks(count)
           w == Insert(u, blanks)
           r == Clipped(w)
           v == restoreCursor(r, saveCursor(u))
<1>1. insertSpace(u, count) = clearCursorOverflow(v)
  BY DEF insertSpace
<1>2. IsSeq(blanks)
  BY BlanksSeq
<1> HIDE DEF blanks
<1>3. Sound(w) /\ Sound(u)
  BY <1>2, OverwriteSound DEF Good
<1> HIDE DEF w
<1>4. Sound(r)
  BY <1>3, ClippedGood DEF Good
<1> HIDE DEF r
<1>5. Good(v)
  BY <1>3, <1>4, RestoreGood
<1> HIDE DEF v
<1> QED BY <1>1, <1>5, ClearOverflowSound DEF Good

LEMMA BlanksBackGood ==
  ASSUME NEW u, Good(u), NEW number \in Int
  PROVE  Good(BlanksForDeleted(u, number))
<1> DEFINE w == setCursorColumn(u, u.width - number)
           blanks == Blanks(number)
           r == Insert(w, blanks)
           v == restoreCursor(r, saveCursor(u))
<1>1. BlanksForDeleted(u, number) = u \/ BlanksForDeleted(u, number) = v
  BY DEF BlanksForDeleted
<1>2. Sound(u) /\ u.width - number \in Int
  BY SoundCursor DEF Good
<1>3. Sound(w)
  BY <1>2, ColumnGood DEF Good
<1>4. IsSeq(blanks)
  BY BlanksSeq
<1> HIDE DEF w, blanks
<1>5. Sound(r)
  BY <1>3, <1>4, OverwriteSound
<1> HIDE DEF r
<1>6. Good(v)
  BY <1>2, <1>5, RestoreGood
<1> QED BY <1>1, <1>6

LEMMA DeleteCharsGood ==
  ASSUME NEW u, Good(u), NEW count \in Int
  PROVE  Good(deleteChars(u, count))
<1> DEFINE number == DeletedCount(Screen(u), count)
           w == OnScreen(u, ScreenDeleteChars(Screen(u), count))
           v == BlanksForDeleted(w, number)
<1>1. deleteChars(u, count) = clearCursorOverflow(v)
  BY DEF deleteChars
<1>2. Sound(u) /\ Screen(u).columnCount \in Int /\ Screen(u).column \in Int
  BY SoundCursor DEF Good, Column
<1>3. number \in Int
  <2>1. Screen(u).columnCount - Screen(u).column \in Int
    BY <1>2
  <2> QED BY <2>1, Min2 DEF DeletedCount
<1>4. Good(w)
  BY <1>2, DeletedSound
<1> HIDE DEF w, number
<1>5. Good(v)
  BY <1>3, <1>4, BlanksBackGood
<1> HIDE DEF v
<1> QED BY <1>1, <1>5, ClearOverflowSound DEF Good

----------------------------------------------------------------------------
\* Settings of the terminal and of its screens.

OtherScreen(u, name, s) == [u EXCEPT !.screens[name] = s]

\* One of the screens changes, its rows keep their numbers.
LEMMA ScreenChanged ==
  ASSUME NEW u, Base(u), NEW name \in Names, NEW s, Like(u.screens[name], s)
  PROVE  LET v == OtherScreen(u, name, s)
         IN  /\ Base(v) /\ Same(u, v) /\ v.screens[name] = s
             /\ \A other \in Names : other # name => v.screens[other] = u.screens[other]
             /\ Fit(u) => Fit(v)
             /\ v.tabStops = u.tabStops /\ v.colors = u.colors /\ v.vt = u.vt
<1> DEFINE v == OtherScreen(u, name, s)
<1>1. /\ DOMAIN v = TerminalFields /\ DOMAIN v.screens = Names /\ v.screens[name] = s
      /\ \A other \in Names : other # name => v.screens[other] = u.screens[other]
      /\ Same(u, v) /\ v.colors = u.colors /\ v.vt = u.vt /\ v.tabStops = u.tabStops
  BY DEF OtherScreen, Base, TerminalFields, Same
<1> HIDE DEF v
<1>2. ScreenOK(s) /\ SameRows(u.screens[name], s)
  BY DEF Like, SameRows
<1>3. ASSUME NEW other \in Names PROVE ScreenOK(v.screens[other])
  BY <1>1, <1>2 DEF Base
<1>4. NumberedFrom(Screen(v).rowsArray, Len(v.scrollback))
  <2>1. CASE u.current = name
    BY <1>1, <1>2, <2>1, LikeNumbered, ShownScreen DEF Screen, Same
  <2>2. CASE u.current # name
    BY <1>1, <2>2, ShownScreen DEF Screen, Same
  <2> QED BY <2>1, <2>2
<1>5. ASSUME NEW other \in Names, Len(v.screens[other].rowsArray) > 0
      PROVE  NumberedFrom(v.screens[other].rowsArray, v.screens[other].rowsArray[1].rowIndex)
  <2>1. CASE other = name
    <3> DEFINE old == u.screens[name]
    <3>1. ScreenOK(old) /\ Len(old.rowsArray) = Len(s.rowsArray)
      BY <1>2 DEF Base, SameRows, Height
    <3>2. Len(old.rowsArray) \in Nat /\ Len(old.rowsArray) > 0
      BY <1>1, <1>5, <2>1, <3>1, SeqDomain DEF ScreenOK, RowsOK
    <3>3. NumberedFrom(old.rowsArray, old.rowsArray[1].rowIndex)
      BY <3>2 DEF Base, Numbered
    <3>4. 1 \in 1 .. Len(old.rowsArray)
      BY <3>2
    <3>5. s.rowsArray[1].rowIndex = old.rowsArray[1].rowIndex
      BY <1>2, <3>4 DEF SameRows, Height
    <3>6. NumberedFrom(s.rowsArray, old.rowsArray[1].rowIndex)
      BY <1>2, <3>3, LikeNumbered
    <3> QED BY <1>1, <2>1, <3>5, <3>6
  <2>2. CASE other # name
    BY <1>1, <1>5, <2>2 DEF Base, Numbered
  <2> QED BY <2>1, <2>2
<1>6. Numbered(v)
  BY <1>1, <1>4, <1>5, ShownScreen DEF Numbered, Same
<1>7. ShowsPalette(v)
  BY <1>1 DEF Base, ShowsPalette, ShownColor, getColorPalette, Overrides, Same
<1>8. Base(v)
  BY <1>1, <1>3, <1>6, <1>7 DEF Base, Same
<1>9. Fit(u) => Fit(v)
  <2>1. CASE u.current = name
    BY <1>1, <1>8, <2>1 DEF Fit, Screen, Same, Like, SameRows
  <2>2. CASE u.current # name
    BY <1>1, <1>8, <2>2 DEF Fit, Screen, Same, Base
  <2> QED BY <2>1, <2>2
<1> QED BY <1>1, <1>8, <1>9 DEF v

\* A screen with other attributes, or another saved cursor.
Marked(old, screen) ==
  /\ Like(old, screen)
  /\ screen.row = old.row /\ screen.column = old.column /\ screen.rowNode = old.rowNode

LEMMA MarkedGood ==
  ASSUME NEW u, Base(u), NEW name \in Names, NEW s, Marked(u.screens[name], s)
  PROVE  LET v == OtherScreen(u, name, s)
         IN  /\ Base(v) /\ Same(u, v) /\ v.tabStops = u.tabStops
             /\ v.colors = u.colors /\ v.vt = u.vt
             /\ Fit(u) => Fit(v)
             /\ Sound(u) => Sound(v)
             /\ Good(u) => Good(v)
             /\ Row(v) = Row(u) /\ Column(v) = Column(u)
<1> DEFINE v == OtherScreen(u, name, s)
<1>1. /\ Base(v) /\ Same(u, v) /\ v.screens[name] = s
      /\ \A other \in Names : other # name => v.screens[other] = u.screens[other]
      /\ Fit(u) => Fit(v)
      /\ v.tabStops = u.tabStops /\ v.colors = u.colors /\ v.vt = u.vt
  BY ScreenChanged DEF Marked
<1> HIDE DEF v
<1>2. u.current \in Names /\ v.current = u.current
  BY <1>1 DEF Base, Same
<1>3. /\ Screen(v).row = Screen(u).row /\ Screen(v).column = Screen(u).column
      /\ Screen(v).rowNode = Screen(u).rowNode /\ Height(Screen(v)) = Height(Screen(u))
  <2>1. CASE u.current = name
    BY <1>1, <1>2, <2>1 DEF Screen, Marked, Like, SameRows
  <2>2. CASE u.current # name
    BY <1>1, <1>2, <2>2 DEF Screen
  <2> QED BY <2>1, <2>2
<1>4. Sound(u) => Sound(v)
  BY <1>1, <1>3, RegionSame DEF Sound, OnIt
<1>5. Good(u) => Good(v)
  BY <1>1, <1>3, <1>4 DEF Good, Column, Same
<1> QED BY <1>1, <1>3, <1>4, <1>5 DEF v, Row, Column

LEMMA AttributesMarked ==
  ASSUME NEW s, ScreenOK(s), NEW attrs
  PROVE  Marked(s, [s EXCEPT !.textAttributes = attrs])
<1> DEFINE r == [s EXCEPT !.textAttributes = attrs]
<1>1. /\ DOMAIN r = ScreenFields /\ r.rowsArray = s.rowsArray /\ r.row = s.row
      /\ r.column = s.column /\ r.columnCount = s.columnCount /\ r.saved = s.saved
      /\ r.node = s.node /\ r.rowNode = s.rowNode
  BY DEF ScreenOK, ScreenFields
<1> HIDE DEF r
<1>2. ScreenOK(r) /\ Height(r) = Height(s)
  BY <1>1 DEF ScreenOK, Height
<1> QED BY <1>1, <1>2 DEF r, Marked, Like, SameRows

LEMMA SavedMarked ==
  ASSUME NEW s, ScreenOK(s), NEW saved, saved.row \in Int, saved.column \in Int
  PROVE  Marked(s, [s EXCEPT !.saved = saved])
<1> DEFINE r == [s EXCEPT !.saved = saved]
<1>1. /\ DOMAIN r = ScreenFields /\ r.rowsArray = s.rowsArray /\ r.row = s.row
      /\ r.column = s.column /\ r.columnCount = s.columnCount /\ r.saved = saved
      /\ r.node = s.node /\ r.rowNode = s.rowNode
  BY DEF ScreenOK, ScreenFields
<1> HIDE DEF r
<1>2. ScreenOK(r) /\ Height(r) = Height(s)
  BY <1>1 DEF ScreenOK, Height
<1> QED BY <1>1, <1>2 DEF r, Marked, Like, SameRows

LEMMA AttributesGood ==
  ASSUME NEW u, Good(u), NEW attrs
  PROVE  LET v == [u EXCEPT !.screens[u.current].textAttributes = attrs]
         IN  Good(v) /\ Same(u, v) /\ v.vt = u.vt
<1> DEFINE s == [Screen(u) EXCEPT !.textAttributes = attrs]
           w == OtherScreen(u, u.current, s)
<1>1. Base(u) /\ u.current \in Names /\ ScreenOK(u.screens[u.current])
  BY DEF Good, Sound, Fit, Base
<1>2. [u EXCEPT !.screens[u.current].textAttributes = attrs] = w
  BY DEF Screen, OtherScreen
<1>3. Marked(u.screens[u.current], s)
  BY <1>1, AttributesMarked DEF Screen
<1> HIDE DEF s
<1>4. Good(w) /\ Same(u, w) /\ w.vt = u.vt
  BY <1>1, <1>3, MarkedGood
<1> QED BY <1>2, <1>4

LEMMA SavedInScreen ==
  ASSUME NEW u, Base(u), NEW name \in Names
  PROVE  LET v == SaveInScreen(u, name)
         IN  /\ Base(v) /\ Same(u, v) /\ v.tabStops = u.tabStops
             /\ v.colors = u.colors /\ v.vt = u.vt
             /\ Fit(u) => Fit(v)
             /\ Sound(u) => Sound(v)
             /\ Good(u) => Good(v)
             /\ Row(v) = Row(u) /\ Column(v) = Column(u)
<1> DEFINE saved == [row |-> Row(u), column |-> Column(u), overflow |-> Screen(u).overflow,
                     textAttributes |-> u.screens[name].textAttributes,
                     charsets |-> u.charsets]
           s == [u.screens[name] EXCEPT !.saved = saved]
<1>1. SaveInScreen(u, name) = OtherScreen(u, name, s)
  BY DEF SaveInScreen, OtherScreen
<1>2. saved.row \in Int /\ saved.column \in Int
  BY ShownScreen
<1>3. ScreenOK(u.screens[name])
  BY DEF Base
<1> HIDE DEF saved
<1>4. Marked(u.screens[name], s)
  BY <1>2, <1>3, SavedMarked
<1> HIDE DEF s
<1> QED BY <1>1, <1>4, MarkedGood

LEMMA SaveGood ==
  ASSUME NEW u, Good(u)
  PROVE  LET v == saveCursorAndState(u)
         IN  Good(v) /\ Same(u, v) /\ v.vt = u.vt
<1>1. Base(u) /\ u.current \in Names
  BY DEF Good, Sound, Fit, Base
<1> QED BY <1>1, SavedInScreen DEF saveCursorAndState

LEMMA RestoreStateFit ==
  ASSUME NEW u, Fit(u), RegionOK(u), NEW saved, saved.row \in Int, saved.column \in Int
  PROVE  LET v == RestoreState(u, saved)
         IN  Good(v) /\ Same(u, v)
<1> DEFINE cursor == [row |-> saved.row, column |-> saved.column, overflow |-> saved.overflow]
           w == restoreCursor(u, cursor)
           attrs == syncColors(saved.textAttributes)
           x == [w EXCEPT !.screens[w.current].textAttributes = attrs]
           v == RestoreState(u, saved)
<1>1. cursor.row \in Int /\ cursor.column \in Int
  OBVIOUS
<1>2. v = [restoreCursor(u, cursor) EXCEPT !.screens[u.current].textAttributes = attrs,
                                          !.charsets = saved.charsets]
  BY DEF RestoreState
<1> HIDE DEF cursor, attrs, v
<1>3. Good(w) /\ Same(u, w)
  BY <1>1, RestoreFit
<1>4. v = [x EXCEPT !.charsets = saved.charsets]
  BY <1>2, <1>3 DEF Same
<1> HIDE DEF w
<1>5. Good(x) /\ Same(w, x)
  BY <1>3, AttributesGood
<1> HIDE DEF x
<1>6. /\ DOMAIN v = TerminalFields /\ v.screens = x.screens /\ v.current = x.current
      /\ v.scrollback = x.scrollback /\ v.width = x.width /\ v.height = x.height
      /\ v.tabStops = x.tabStops /\ v.colors = x.colors /\ v.vt = x.vt
      /\ v.top = x.top /\ v.bottom = x.bottom /\ v.options = x.options
      /\ v.tabStops \subseteq 0 .. x.width - 1 /\ ParserOK(v.vt)
  BY <1>4, <1>5 DEF Good, Sound, Fit, Base, TerminalFields
<1>7. Good(v)
  BY <1>5, <1>6, SettingsGood
<1>8. Same(u, v)
  BY <1>3, <1>5, <1>6 DEF Same
<1> QED BY <1>7, <1>8 DEF v

LEMMA RestoreAllGood ==
  ASSUME NEW u, Good(u)
  PROVE  LET v == restoreCursorAndState(u)
         IN  Good(v) /\ Same(u, v)
<1>1. Screen(u).saved.row \in Int /\ Screen(u).saved.column \in Int /\ Fit(u) /\ RegionOK(u)
  BY ShownScreen DEF Good, Sound, Fit, ScreenOK
<1> QED BY <1>1, RestoreStateFit DEF restoreCursorAndState

\* Settings that bear on nothing the theorems speak of.
Aside(u, v) ==
  /\ DOMAIN v = TerminalFields /\ v.screens = u.screens /\ v.current = u.current
  /\ v.scrollback = u.scrollback /\ v.width = u.width /\ v.height = u.height
  /\ v.top = u.top /\ v.bottom = u.bottom /\ v.tabStops = u.tabStops
  /\ v.colors = u.colors

LEMMA AsideGood ==
  ASSUME NEW u, NEW v, Aside(u, v), ParserOK(v.vt)
  PROVE  /\ Base(u) => Base(v)
         /\ Fit(u) => Fit(v)
         /\ Sound(u) => Sound(v)
         /\ Good(u) => Good(v)
<1>1. ASSUME Base(u) PROVE v.tabStops \subseteq 0 .. u.width - 1
  BY <1>1 DEF Base, Aside
<1> QED BY <1>1, SettingsGood DEF Aside, Good, Sound, Fit

LEMMA OptionGood ==
  ASSUME NEW u, Good(u), NEW option, NEW on
  PROVE  Good(setOption(u, option, on))
<1> DEFINE new == IF on THEN u.options \cup {option} ELSE u.options \ {option}
           v == [u EXCEPT !.options = new]
<1>1. setOption(u, option, on) = v
  BY DEF setOption
<1> HIDE DEF new
<1>2. Aside(u, v) /\ v.vt = u.vt
  BY DEF Good, Sound, Fit, Base, TerminalFields, Aside
<1> HIDE DEF v
<1>3. ParserOK(v.vt)
  BY <1>2 DEF Good, Sound, Fit, Base
<1> QED BY <1>1, <1>2, <1>3, AsideGood

LEMMA OptionsGood ==
  ASSUME NEW u, Good(u), NEW options
  PROVE  Good([u EXCEPT !.options = options])
<1> DEFINE v == [u EXCEPT !.options = options]
<1>2. Aside(u, v) /\ v.vt = u.vt
  BY DEF Good, Sound, Fit, Base, TerminalFields, Aside
<1> HIDE DEF v
<1>3. ParserOK(v.vt)
  BY <1>2 DEF Good, Sound, Fit, Base
<1>4. Good(v)
  BY <1>2, <1>3, AsideGood
<1> QED BY <1>4 DEF v

LEMMA OriginGood ==
  ASSUME NEW u, Good(u), NEW on
  PROVE  Good(setOriginMode(u, on))
<1>1. Good(setOption(u, "originMode", on))
  BY OptionGood
<1> HIDE DEF setOption
<1>2. Sound(setOption(u, "originMode", on))
  BY <1>1 DEF Good
<1> QED BY <1>2, PositionGood DEF setOriginMode

LEMMA CharsetsGood ==
  ASSUME NEW u, Good(u), NEW charsets
  PROVE  Good([u EXCEPT !.charsets = charsets])
<1> DEFINE v == [u EXCEPT !.charsets = charsets]
<1>2. Aside(u, v) /\ v.vt = u.vt
  BY DEF Good, Sound, Fit, Base, TerminalFields, Aside
<1> HIDE DEF v
<1>3. ParserOK(v.vt)
  BY <1>2 DEF Good, Sound, Fit, Base
<1>4. Good(v)
  BY <1>2, <1>3, AsideGood
<1> QED BY <1>4 DEF v

LEMMA EncodingGood ==
  ASSUME NEW u, Good(u), NEW encoding
  PROVE  Good([u EXCEPT !.encoding = encoding])
<1> DEFINE v == [u EXCEPT !.encoding = encoding]
<1>2. Aside(u, v) /\ v.vt = u.vt
  BY DEF Good, Sound, Fit, Base, TerminalFields, Aside
<1> HIDE DEF v
<1>3. ParserOK(v.vt)
  BY <1>2 DEF Good, Sound, Fit, Base
<1>4. Good(v)
  BY <1>2, <1>3, AsideGood
<1> QED BY <1>4 DEF v

LEMMA TitleGood ==
  ASSUME NEW u, Good(u), NEW title
  PROVE  Good(setWindowTitle(u, title))
<1> DEFINE v == setWindowTitle(u, title)
<1>2. Aside(u, v) /\ v.vt = u.vt
  BY DEF setWindowTitle, Good, Sound, Fit, Base, TerminalFields, Aside
<1> HIDE DEF v
<1>3. ParserOK(v.vt)
  BY <1>2 DEF Good, Sound, Fit, Base
<1>4. Good(v)
  BY <1>2, <1>3, AsideGood
<1> QED BY <1>4 DEF v

LEMMA ShapeGood ==
  ASSUME NEW u, Good(u), NEW shape
  PROVE  Good(setCursorShape(u, shape))
<1> DEFINE v == setCursorShape(u, shape)
<1>2. Aside(u, v) /\ v.vt = u.vt
  BY DEF setCursorShape, Good, Sound, Fit, Base, TerminalFields, Aside
<1> HIDE DEF v
<1>3. ParserOK(v.vt)
  BY <1>2 DEF Good, Sound, Fit, Base
<1>4. Good(v)
  BY <1>2, <1>3, AsideGood
<1> QED BY <1>4 DEF v

LEMMA RegionFields ==
  ASSUME NEW u, DOMAIN u = TerminalFields, NEW top, NEW bottom
  PROVE  LET v == setVTScrollRegion(u, top, bottom)
         IN  /\ DOMAIN v = TerminalFields /\ v.screens = u.screens /\ v.current = u.current
             /\ v.scrollback = u.scrollback /\ v.width = u.width /\ v.height = u.height
             /\ v.tabStops = u.tabStops /\ v.colors = u.colors /\ v.vt = u.vt
             /\ v.options = u.options
             /\ v.top = (IF bottom = u.height - 1 /\ top = 0 THEN Null ELSE top)
             /\ v.bottom = (IF bottom = u.height - 1 THEN Null ELSE bottom)
  BY DEF setVTScrollRegion, TerminalFields

\* A new scroll region, of rows on the screen.
LEMMA RegionGood ==
  ASSUME NEW u, Good(u), NEW top \in Int, NEW bottom \in Int,
         top = Null \/ top >= 0, bottom < u.height,
         bottom >= 0, top <= bottom
  PROVE  Good(setVTScrollRegion(u, top, bottom))
<1> DEFINE v == setVTScrollRegion(u, top, bottom)
<1>1. /\ DOMAIN v = TerminalFields /\ v.screens = u.screens /\ v.current = u.current
      /\ v.scrollback = u.scrollback /\ v.width = u.width /\ v.height = u.height
      /\ v.tabStops = u.tabStops /\ v.colors = u.colors /\ v.vt = u.vt
      /\ v.top = (IF bottom = u.height - 1 /\ top = 0 THEN Null ELSE top)
      /\ v.bottom = (IF bottom = u.height - 1 THEN Null ELSE bottom)
  BY RegionFields DEF Good, Sound, Fit, Base
<1> HIDE DEF v
<1>2. v.tabStops \subseteq 0 .. u.width - 1 /\ ParserOK(v.vt)
  BY <1>1 DEF Good, Sound, Fit, Base
<1>3. Fit(u) /\ OnIt(Screen(u)) /\ Column(u) < u.width /\ u.height \in Nat /\ u.height > 0
  BY DEF Good, Sound, Fit, Base
<1>4. Fit(v)
  BY <1>1, <1>2, <1>3, SettingsGood
<1>5. RegionOK(v)
  <2>1. /\ v.top \in Int /\ v.bottom \in Int /\ v.height = u.height
        /\ getVTScrollBottom(v) = bottom
        /\ getVTScrollTop(v) = IF top = Null THEN 0 ELSE top
    BY <1>1, <1>3 DEF getVTScrollTop, getVTScrollBottom, Null
  <2> QED BY <1>3, <2>1 DEF RegionOK, Null
<1>6. Sound(v) /\ Column(v) < v.width
  BY <1>1, <1>3, <1>4, <1>5 DEF Sound, Screen, Column
<1> QED BY <1>6 DEF Good, v

LEMMA NoRegionFit ==
  ASSUME NEW u, Fit(u)
  PROVE  LET v == setVTScrollRegion(u, Null, Null)
         IN  Fit(v) /\ RegionOK(v) /\ v.current = u.current /\ v.screens = u.screens
             /\ v.width = u.width /\ v.height = u.height /\ v.options = u.options
             /\ v.scrollback = u.scrollback /\ v.tabStops = u.tabStops /\ v.vt = u.vt
<1> DEFINE v == setVTScrollRegion(u, Null, Null)
<1>0. u.height \in Nat /\ u.height > 0
  BY DEF Fit, Base
<1>1. /\ DOMAIN v = TerminalFields /\ v.screens = u.screens /\ v.current = u.current
      /\ v.scrollback = u.scrollback /\ v.width = u.width /\ v.height = u.height
      /\ v.tabStops = u.tabStops /\ v.colors = u.colors /\ v.vt = u.vt
      /\ v.options = u.options /\ v.top = Null /\ v.bottom = Null
  <2>1. Null # 0 /\ Null # u.height - 1
    BY <1>0 DEF Null
  <2> QED BY <2>1, RegionFields DEF Fit, Base
<1> HIDE DEF v
<1>2. v.tabStops \subseteq 0 .. u.width - 1 /\ ParserOK(v.vt)
  BY <1>1 DEF Fit, Base
<1>3. Fit(v)
  BY <1>1, <1>2, SettingsGood
<1>4. RegionOK(v)
  BY <1>0, <1>1 DEF RegionOK, getVTScrollTop, getVTScrollBottom, Null
<1> QED BY <1>1, <1>3, <1>4 DEF v

----------------------------------------------------------------------------
\* The parser is left alone.

LEMMA OnScreenParser ==
  ASSUME NEW u, DOMAIN u = TerminalFields, NEW s
  PROVE  DOMAIN OnScreen(u, s) = TerminalFields /\ OnScreen(u, s).vt = u.vt
  BY DEF OnScreen, TerminalFields

LEMMA ScrollOffParser ==
  ASSUME NEW u, DOMAIN u = TerminalFields, NEW count
  PROVE  DOMAIN scrollOff(u, count) = TerminalFields /\ scrollOff(u, count).vt = u.vt
<1> DEFINE back == u.scrollback \o SubSeq(Screen(u).rowsArray, 1, count)
           screens == [u.screens EXCEPT ![u.current] = shiftRows(@, count)]
<1>1. scrollOff(u, count) = [u EXCEPT !.scrollback = back, !.screens = screens]
  BY DEF scrollOff, TerminalFields
<1> HIDE DEF back, screens
<1> QED BY <1>1 DEF TerminalFields

LEMMA AbsoluteParser ==
  ASSUME NEW u, DOMAIN u = TerminalFields, NEW row, NEW column
  PROVE  /\ DOMAIN setAbsoluteCursorPosition(u, row, column) = TerminalFields
         /\ setAbsoluteCursorPosition(u, row, column).vt = u.vt
  BY OnScreenParser DEF setAbsoluteCursorPosition

LEMMA OverflowParser ==
  ASSUME NEW u, DOMAIN u = TerminalFields, NEW name, NEW overflow
  PROVE  LET v == [u EXCEPT !.screens[name].overflow = overflow]
         IN  DOMAIN v = TerminalFields /\ v.vt = u.vt
<1> DEFINE screens == [u.screens EXCEPT ![name].overflow = overflow]
<1>1. [u EXCEPT !.screens[name].overflow = overflow] = [u EXCEPT !.screens = screens]
  OBVIOUS
<1> HIDE DEF screens
<1> QED BY <1>1 DEF TerminalFields

LEMMA RestoreParser ==
  ASSUME NEW u, DOMAIN u = TerminalFields, NEW cursor
  PROVE  /\ DOMAIN restoreCursor(u, cursor) = TerminalFields
         /\ restoreCursor(u, cursor).vt = u.vt
  BY AbsoluteParser, OverflowParser DEF restoreCursor

LEMMA AppendParser ==
  ASSUME NEW u, DOMAIN u = TerminalFields, NEW count
  PROVE  DOMAIN appendRows_(u, count) = TerminalFields /\ appendRows_(u, count).vt = u.vt
<1> DEFINE height == Height(Screen(u))
           grown == OnScreen(u, [Screen(u) EXCEPT !.rowsArray =
                      @ \o [i \in 1 .. count |-> NewRow(getRowCount(u) + i - 1)]])
           extra == Max({height + count - u.height, 0})
           row == Min({height, height + count - extra - 1})
           off == scrollOff(grown, extra)
<1>1. appendRows_(u, count) = setAbsoluteCursorPosition(off, row, 0)
  BY DEF appendRows_
<1>2. DOMAIN grown = TerminalFields /\ grown.vt = u.vt
  BY OnScreenParser
<1> HIDE DEF grown, extra, row
<1>3. DOMAIN off = TerminalFields /\ off.vt = u.vt
  BY <1>2, ScrollOffParser
<1> HIDE DEF off
<1> QED BY <1>1, <1>3, AbsoluteParser

----------------------------------------------------------------------------
\* Sizes.

\* All but the rows, the cursor, and what a size changes.
Elsewhere(u, v) == v.current = u.current /\ v.vt = u.vt

LEMMA WidthBase ==
  ASSUME NEW u, Base(u), NEW count \in Nat, count > 0,
         u.width = count \/ u.width = Screen(u).columnCount
  PROVE  LET v == realizeWidth_(u, count)
         IN  /\ Base(v) /\ Elsewhere(u, v)
             /\ v.width = count /\ Screen(v).columnCount = count
             /\ v.height = u.height /\ v.top = u.top /\ v.bottom = u.bottom
             /\ SameRows(Screen(u), Screen(v))
             /\ OnIt(Screen(u)) => OnIt(Screen(v))
             /\ OnIt(Screen(u)) /\ count # Screen(u).columnCount => Column(v) < count
             /\ AllRows(v) = AllRows(u)
<1> DEFINE old == Screen(u).columnCount
           s == setColumnCount(Screen(u), count)
           wide == [u EXCEPT !.width = count]
           wider == OnScreen([u EXCEPT !.width = count], s)
           fewer == {stop \in wider.tabStops : stop < count}
           v == realizeWidth_(u, count)
<1>1. /\ ScreenOK(Screen(u)) /\ NumberedFrom(Screen(u).rowsArray, Len(u.scrollback))
      /\ Len(u.scrollback) \in Nat /\ RowsOK(u.scrollback) /\ NumberedFrom(u.scrollback, 0)
      /\ DOMAIN u = TerminalFields /\ DOMAIN u.screens = Names /\ u.current \in Names
      /\ u.width \in Nat /\ u.height \in Nat
  BY ShownScreen
<1>2. /\ SameRows(Screen(u), s) /\ s.columnCount = count
      /\ OnIt(Screen(u)) => OnIt(s)
      /\ OnIt(Screen(u)) => s.column < count
  BY <1>1, ColumnCountLike
<1>3. old \in Nat
  BY <1>1 DEF ScreenOK
<1>12. s.rowsArray = Screen(u).rowsArray
  <2> DEFINE resized == [Screen(u) EXCEPT !.columnCount = count]
  <2>1. DOMAIN resized = ScreenFields /\ resized.rowsArray = Screen(u).rowsArray
    BY <1>1 DEF ScreenOK, ScreenFields
  <2> HIDE DEF resized
  <2>2. s = resized \/ s = ScreenSetCursorPosition(resized, Screen(u).row, count - 1)
    BY DEF setColumnCount, resized
  <2> QED BY <2>1, <2>2, SetCursorRows
<1> HIDE DEF s
<1>4. /\ DOMAIN wide = TerminalFields /\ wide.screens = u.screens /\ wide.current = u.current
      /\ wide.width = count /\ wide.height = u.height /\ wide.top = u.top
      /\ wide.bottom = u.bottom /\ wide.tabStops = u.tabStops /\ wide.colors = u.colors
      /\ wide.vt = u.vt /\ wide.scrollback = u.scrollback
  BY <1>1 DEF TerminalFields
<1> HIDE DEF wide
<1>5. /\ DOMAIN wider = TerminalFields /\ wider.screens = [u.screens EXCEPT ![u.current] = s]
      /\ wider.current = u.current
      /\ wider.width = count /\ wider.height = u.height /\ wider.top = u.top
      /\ wider.bottom = u.bottom /\ wider.tabStops = u.tabStops /\ wider.colors = u.colors
      /\ wider.vt = u.vt /\ wider.scrollback = u.scrollback
  <2>1. wider = OnScreen(wide, s)
    BY DEF wide
  <2> HIDE DEF wider
  <2> QED BY <1>4, <2>1 DEF OnScreen, TerminalFields
<1>6. u.tabStops \subseteq 0 .. u.width - 1
  BY DEF Base
<1> HIDE DEF wider
<1>7. ASSUME NEW w, DOMAIN w = TerminalFields, w.screens = wider.screens,
             w.current = wider.current, w.scrollback = wider.scrollback,
             w.width = wider.width, w.height = wider.height, w.top = wider.top,
             w.bottom = wider.bottom, w.colors = wider.colors, w.vt = wider.vt,
             w.tabStops \subseteq 0 .. count - 1
      PROVE  /\ Base(w) /\ Elsewhere(u, w)
             /\ w.width = count /\ Screen(w).columnCount = count
             /\ w.height = u.height /\ w.top = u.top /\ w.bottom = u.bottom
             /\ SameRows(Screen(u), Screen(w))
             /\ OnIt(Screen(u)) => OnIt(Screen(w))
             /\ OnIt(Screen(u)) => Column(w) < count
             /\ AllRows(w) = AllRows(u)
  <2>1. Screen(w) = s /\ Beside(u, w)
    BY <1>1, <1>5, <1>7 DEF Screen, Beside
  <2>2. ScreenOK(s) /\ NumberedFrom(s.rowsArray, Len(w.scrollback))
    <3>1. ScreenOK(s)
      BY <1>2 DEF SameRows
    <3>2. w.scrollback = u.scrollback
      BY <1>5, <1>7
    <3> QED BY <1>1, <1>2, <3>1, <3>2, LikeNumbered
  <2>3. RowsOK(w.scrollback) /\ NumberedFrom(w.scrollback, 0) /\ w.width = count /\ w.height = u.height
    BY <1>1, <1>5, <1>7
  <2>4. Base(w)
    BY <1>1, <1>7, <2>1, <2>2, <2>3, BaseChanged
  <2>5. AllRows(w) = AllRows(u)
    BY <1>5, <1>7, <1>12, <2>1, RowsKept
  <2> QED BY <1>2, <1>5, <1>7, <2>1, <2>4, <2>5 DEF Elsewhere, Column
<1>8. CASE count = old
  <2>1. v = u
    BY <1>8 DEF realizeWidth_
  <2>2. SameRows(Screen(u), Screen(u))
    BY <1>1, LikeItself DEF Like
  <2> QED BY <1>8, <2>1, <2>2 DEF Elsewhere
<1>9. CASE count > old /\ u.defaultTabStops
  <2>1. v = setDefaultTabStops(wider, old)
    BY <1>3, <1>9 DEF realizeWidth_, wider, s
  <2>2. u.width <= count /\ wider.tabStops \subseteq 0 .. u.width - 1 /\ u.width <= wider.width
        /\ wider.width \in Nat
    BY <1>1, <1>3, <1>5, <1>6, <1>9
  <2> HIDE DEF v, old
  <2>3. /\ DOMAIN v = TerminalFields /\ v.screens = wider.screens /\ v.current = wider.current
        /\ v.scrollback = wider.scrollback /\ v.width = wider.width /\ v.height = wider.height
        /\ v.colors = wider.colors /\ v.vt = wider.vt /\ v.top = wider.top
        /\ v.bottom = wider.bottom
        /\ v.tabStops \subseteq 0 .. wider.width - 1
    BY <1>1, <1>3, <1>5, <2>1, <2>2, DefaultStops
  <2>4. v.tabStops \subseteq 0 .. count - 1
    BY <1>5, <2>3
  <2> QED BY <1>7, <2>3, <2>4 DEF v
<1>10. CASE count > old /\ ~u.defaultTabStops
  <2>1. v = wider
    BY <1>3, <1>10 DEF realizeWidth_, wider, s
  <2>2. u.width <= count
    BY <1>1, <1>3, <1>10
  <2>3. wider.tabStops \subseteq 0 .. count - 1
    BY <1>1, <1>5, <1>6, <2>2
  <2> HIDE DEF v
  <2> QED BY <1>5, <1>7, <2>1, <2>3 DEF v
<1>11. CASE count < old
  <2>1. v = [wider EXCEPT !.tabStops = fewer]
    BY <1>3, <1>11 DEF realizeWidth_, wider, s
  <2>2. fewer \subseteq 0 .. count - 1
    BY <1>1, <1>5, <1>6
  <2> HIDE DEF v, fewer
  <2>3. /\ DOMAIN v = TerminalFields /\ v.screens = wider.screens /\ v.current = wider.current
        /\ v.scrollback = wider.scrollback /\ v.width = wider.width /\ v.height = wider.height
        /\ v.colors = wider.colors /\ v.vt = wider.vt /\ v.top = wider.top
        /\ v.bottom = wider.bottom /\ v.tabStops = fewer
    BY <1>5, <2>1 DEF TerminalFields
  <2> QED BY <1>7, <2>2, <2>3 DEF v
<1> QED BY <1>3, <1>8, <1>9, <1>10, <1>11

LEMMA SettleGood ==
  ASSUME NEW u, Fit(u), NEW cursor, cursor.column \in Int, DOMAIN cursor = {"row", "column", "overflow"},
         NEW row \in Int
  PROVE  LET v == Settle(u, cursor, row)
         IN  /\ Good(v) /\ Elsewhere(u, v) /\ v.width = u.width /\ v.height = u.height
             /\ AllRows(v) = AllRows(u)
<1> DEFINE w == setVTScrollRegion(u, Null, Null)
           to == [cursor EXCEPT !.row = row]
           v == Settle(u, cursor, row)
<1>1. /\ Fit(w) /\ RegionOK(w) /\ w.current = u.current /\ w.vt = u.vt
      /\ w.width = u.width /\ w.height = u.height
      /\ w.screens = u.screens /\ w.scrollback = u.scrollback
  BY NoRegionFit
<1>2. v = restoreCursor(w, to)
  BY DEF Settle
<1>3. to.row \in Int /\ to.column \in Int
  OBVIOUS
<1> HIDE DEF w, to, v
<1>4. Good(v) /\ Same(w, v)
  BY <1>1, <1>2, <1>3, RestoreFit
<1>5. v.vt = w.vt
  BY <1>1, <1>2, RestoreParser DEF Fit, Base
<1>6. AllRows(v) = AllRows(w)
  BY <1>1, <1>2, RestoreRows DEF Fit
<1>7. AllRows(w) = AllRows(u)
  BY <1>1, RowsKept DEF Screen
<1> QED BY <1>1, <1>4, <1>5, <1>6, <1>7 DEF Elsewhere, Same, v

LEMMA EmptyBelowRange ==
  ASSUME NEW u, NEW most \in Nat, IsSeq(Screen(u).rowsArray)
  PROVE  /\ EmptyBelow(u, most) \in 0 .. most
         /\ \A i \in Height(Screen(u)) - EmptyBelow(u, most) + 1 .. Height(Screen(u)) :
              RowText(Screen(u).rowsArray[i]) = <<>>
<1> DEFINE rows == Screen(u).rowsArray
           found == {n \in 0 .. most :
                       \A i \in Len(rows) - n + 1 .. Len(rows) :
                         i - 1 # Row(u) /\ RowText(rows[i]) = <<>>}
<1>1. Len(rows) \in Nat
  BY SeqDomain
<1>2. 0 \in found
  <2>1. Len(rows) - 0 + 1 .. Len(rows) = {}
    BY <1>1
  <2> QED BY <2>1
<1>3. \A n \in found : n \in Int /\ n <= most
  OBVIOUS
<1>4. EmptyBelow(u, most) = Max(found)
  BY DEF EmptyBelow
<1>5. \A n \in found :
        n \in 0 .. most /\ \A i \in Len(rows) - n + 1 .. Len(rows) : RowText(rows[i]) = <<>>
  OBVIOUS
<1> HIDE DEF found
<1>6. Max(found) \in found
  BY <1>2, <1>3, GreatestNumber
<1> QED BY <1>4, <1>5, <1>6 DEF Height

\* A terminal with another height, yet without the rows for it.
LEMMA SizedBase ==
  ASSUME NEW u, Base(u), NEW height \in Nat
  PROVE  LET v == [u EXCEPT !.height = height]
         IN  /\ Base(v) /\ Elsewhere(u, v) /\ Screen(v) = Screen(u)
             /\ v.width = u.width /\ v.height = height /\ v.scrollback = u.scrollback
             /\ v.tabStops = u.tabStops /\ v.screens = u.screens /\ v.colors = u.colors
<1> DEFINE v == [u EXCEPT !.height = height]
<1>1. /\ ScreenOK(Screen(u)) /\ NumberedFrom(Screen(u).rowsArray, Len(u.scrollback))
      /\ RowsOK(u.scrollback) /\ NumberedFrom(u.scrollback, 0)
      /\ DOMAIN u = TerminalFields /\ DOMAIN u.screens = Names /\ u.current \in Names
      /\ u.width \in Nat /\ u.tabStops \subseteq 0 .. u.width - 1
  BY ShownScreen DEF Base
<1>2. /\ DOMAIN v = TerminalFields /\ v.screens = u.screens /\ v.current = u.current
      /\ v.width = u.width /\ v.height = height /\ v.scrollback = u.scrollback
      /\ v.tabStops = u.tabStops /\ v.colors = u.colors /\ v.vt = u.vt
  BY <1>1 DEF TerminalFields
<1> HIDE DEF v
<1>3. Beside(u, v) /\ Screen(v) = Screen(u)
  BY <1>1, <1>2 DEF Beside, Screen
<1>4. Base(v)
  BY <1>1, <1>2, <1>3, BaseChanged
<1> QED BY <1>2, <1>3, <1>4 DEF Elsewhere, v

\* Rows taken away at the bottom.
LEMMA PopBase ==
  ASSUME NEW u, Base(u), NEW count \in 0 .. Height(Screen(u))
  PROVE  LET v == OnScreen(u, popRows(Screen(u), count))
         IN  /\ Base(v) /\ Same(u, v) /\ SameCursor(Screen(u), Screen(v))
             /\ Height(Screen(v)) = Height(Screen(u)) - count /\ v.vt = u.vt
             /\ (\A i \in Height(Screen(u)) - count + 1 .. Height(Screen(u)) :
                   RowText(Screen(u).rowsArray[i]) = <<>>)
                => Texts(AllRows(v)) = Texts(AllRows(u))
<1> DEFINE rows == Screen(u).rowsArray
           s == popRows(Screen(u), count)
           v == OnScreen(u, s)
           m == Height(Screen(u)) - count
<1>1. /\ ScreenOK(Screen(u)) /\ NumberedFrom(rows, Len(u.scrollback))
      /\ Len(u.scrollback) \in Nat
  BY ShownScreen
<1>2. /\ ScreenOK(s) /\ SameCursor(Screen(u), s) /\ Height(s) = m
      /\ s.rowsArray = Part(rows, 1, m)
  BY <1>1, PopOK
<1>3. RowsOK(rows) /\ Len(rows) \in Nat /\ Height(Screen(u)) = Len(rows)
  BY <1>1, RowsHeight DEF ScreenOK
<1>4. /\ 1 \in 1 .. Len(rows) + 1 /\ m \in 1 - 1 .. Len(rows) /\ Len(u.scrollback) \in Int
      /\ Len(u.scrollback) + 1 - 1 = Len(u.scrollback)
  BY <1>1, <1>3
<1>8. ASSUME \A i \in m + 1 .. Height(Screen(u)) : RowText(rows[i]) = <<>>
      PROVE  Texts(Joined(u.scrollback, Part(rows, 1, m))) = Texts(Joined(u.scrollback, rows))
  <2>1. m \in 0 .. Len(rows) /\ IsSeq(rows) /\ IsSeq(u.scrollback)
    BY <1>3, ShownScreen DEF RowsOK
  <2>2. /\ IsSeq(Part(rows, 1, m)) /\ Len(Part(rows, 1, m)) = m
        /\ \A i \in 1 .. m : Part(rows, 1, m)[i] = rows[i]
    <3> HIDE DEF m, rows
    <3>1. 1 \in Int /\ m \in Int /\ 1 <= 1 /\ m <= Len(rows) /\ (1 > m => m = 0) /\ m - 1 + 1 = m
      BY <1>3, <2>1
    <3> QED BY <2>1, <3>1, PartSeq
  <2> HIDE DEF m, rows
  <2>3. Extends(Part(rows, 1, m), rows)
    BY <1>3, <1>8, <2>1, <2>2 DEF Extends
  <2> QED BY <2>1, <2>3, EmptyExtends, ExtendsTexts
<1> HIDE DEF s, m, rows
<1>5. NumberedFrom(Part(rows, 1, m), Len(u.scrollback) + 1 - 1)
  BY <1>1, <1>3, <1>4, PartNumbers
<1>6. NumberedFrom(s.rowsArray, Len(u.scrollback))
  BY <1>2, <1>4, <1>5
<1>7. Base(v) /\ Same(u, v) /\ Screen(v) = s /\ v.vt = u.vt
  BY <1>2, <1>6, OnScreenBase, OnScreenFields DEF Beside
<1> HIDE DEF v
<1>9. /\ AllRows(v) = Joined(u.scrollback, Part(rows, 1, m))
      /\ AllRows(u) = Joined(u.scrollback, rows)
  BY Zenon, <1>2, <1>7 DEF AllRows, Joined, Same, rows
<1> QED BY <1>2, <1>7, <1>8, <1>9 DEF v, s, m, rows

LEMMA KeptNumbers ==
  ASSUME NEW n \in Nat, NEW kept \in 0 .. n
  PROVE  /\ kept + 1 \in 1 .. n + 1 /\ n \in (kept + 1) - 1 .. n /\ 1 \in 1 .. n + 1
         /\ kept \in 1 - 1 .. n /\ kept \in Nat /\ 0 + (kept + 1) - 1 = kept
         /\ n - (kept + 1) + 1 = n - kept /\ kept - 1 + 1 = kept
  OBVIOUS

\* Rows taken back from the scrollback.
BackRows(u, kept) ==
  unshiftRows(Screen(u), SubSeq(u.scrollback, kept + 1, Len(u.scrollback)))

TakenBack(u, kept) ==
  [u EXCEPT !.scrollback = SubSeq(@, 1, kept), !.screens[u.current] = BackRows(u, kept)]

LEMMA BackBase ==
  ASSUME NEW u, Base(u), NEW kept \in 0 .. Len(u.scrollback), NEW v, v = TakenBack(u, kept)
  PROVE  /\ Base(v)
         /\ v.width = u.width /\ v.height = u.height /\ v.vt = u.vt /\ v.current = u.current
         /\ SameCursor(Screen(u), Screen(v))
         /\ Height(Screen(v)) = Len(u.scrollback) - kept + Height(Screen(u))
         /\ AllRows(v) = AllRows(u)
<1> DEFINE s == BackRows(u, kept)
           rows == Screen(u).rowsArray
           n == Len(u.scrollback)
           first == kept + 1
           taken == Part(u.scrollback, first, n)
           left == Part(u.scrollback, 1, kept)
<1>1. /\ ScreenOK(Screen(u)) /\ u.current \in Names /\ NumberedFrom(rows, n)
      /\ n \in Nat /\ RowsOK(u.scrollback) /\ NumberedFrom(u.scrollback, 0)
      /\ DOMAIN u = TerminalFields /\ DOMAIN u.screens = Names
      /\ u.width \in Nat /\ u.height \in Nat
  BY ShownScreen
<1>2. /\ first \in 1 .. n + 1 /\ n \in first - 1 .. n /\ 1 \in 1 .. n + 1
      /\ kept \in 1 - 1 .. n /\ 0 \in Int /\ kept \in Nat /\ 0 + first - 1 = kept
      /\ n - first + 1 = n - kept /\ kept - 1 + 1 = kept /\ 0 + 1 - 1 = 0
  <2> HIDE DEF n
  <2>1. kept \in 0 .. n
    BY DEF n
  <2> QED BY <1>1, <2>1, KeptNumbers
<1>3. s = unshiftRows(Screen(u), taken)
  BY DEF Part, BackRows
<1> HIDE DEF s
<1>4. /\ DOMAIN v = TerminalFields /\ v.scrollback = left
      /\ v.screens = [u.screens EXCEPT ![u.current] = s]
      /\ v.current = u.current /\ v.width = u.width
      /\ v.height = u.height /\ v.top = u.top /\ v.bottom = u.bottom /\ v.options = u.options
      /\ v.tabStops = u.tabStops /\ v.colors = u.colors /\ v.vt = u.vt
  <2>1. v = [u EXCEPT !.scrollback = left, !.screens = [u.screens EXCEPT ![u.current] = s]]
    BY <1>1 DEF TakenBack, TerminalFields, Part, s
  <2> HIDE DEF left
  <2> QED BY <1>1, <2>1 DEF TerminalFields
<1>14. Joined(left, Joined(taken, Screen(u).rowsArray)) = Joined(u.scrollback, Screen(u).rowsArray)
  <2>1. IsSeq(u.scrollback) /\ IsSeq(Screen(u).rowsArray) /\ kept \in 0 .. n
    BY <1>1 DEF RowsOK, ScreenOK
  <2> QED BY <2>1, TakenRows
<1> HIDE DEF first, rows, n
<1>5. RowsOK(taken) /\ Len(taken) = n - kept /\ NumberedFrom(taken, kept)
  <2>1. RowsOK(taken) /\ Len(taken) = n - first + 1
    BY <1>1, <1>2, PartRows DEF n
  <2>2. NumberedFrom(taken, 0 + first - 1)
    BY <1>1, <1>2, PartNumbers DEF n
  <2> QED BY <1>2, <2>1, <2>2
<1>6. RowsOK(left) /\ Len(left) = kept /\ NumberedFrom(left, 0)
  <2>1. RowsOK(left) /\ Len(left) = kept - 1 + 1
    BY <1>1, <1>2, PartRows DEF n
  <2>2. NumberedFrom(left, 0 + 1 - 1)
    BY <1>1, <1>2, PartNumbers DEF n
  <2> QED BY <1>2, <2>1, <2>2
<1> HIDE DEF taken, left
<1>7. /\ ScreenOK(s) /\ SameCursor(Screen(u), s) /\ Height(s) = Len(taken) + Height(Screen(u))
      /\ s.rowsArray = Joined(taken, Screen(u).rowsArray)
  BY <1>1, <1>3, <1>5, UnshiftOK
<1>8. NumberedFrom(s.rowsArray, kept)
  <2>1. kept + Len(taken) = n /\ kept \in Int
    BY <1>1, <1>2, <1>5
  <2>2. NumberedFrom(Screen(u).rowsArray, kept + Len(taken))
    BY <1>1, <2>1 DEF rows
  <2>3. RowsOK(Screen(u).rowsArray)
    BY <1>1 DEF ScreenOK
  <2> QED BY <1>5, <1>7, <2>1, <2>2, <2>3, JoinedNumbers
<1>9. Screen(v) = s /\ Beside(u, v)
  BY <1>1, <1>4 DEF Screen, Beside
<1>10. NumberedFrom(Screen(v).rowsArray, Len(v.scrollback))
  BY <1>4, <1>6, <1>8, <1>9
<1>11. u.tabStops \subseteq 0 .. u.width - 1
  BY DEF Base
<1>12. Base(v)
  BY <1>1, <1>4, <1>6, <1>7, <1>9, <1>10, <1>11, BaseChanged
<1>13. Height(Screen(v)) = n - kept + Height(Screen(u))
  BY <1>5, <1>7, <1>9
<1>15. AllRows(v) = AllRows(u)
  BY Zenon, <1>4, <1>7, <1>9, <1>14 DEF AllRows, Joined
<1> QED BY <1>4, <1>7, <1>9, <1>12, <1>13, <1>15 DEF n

\* What the numbers of rows come to, when a screen gets lower.
LEMMA LowerNumbers ==
  ASSUME NEW old \in Nat, NEW rowCount \in Nat, rowCount < old, NEW empty \in 0 .. old - rowCount
  PROVE  /\ old - rowCount \in Nat /\ empty \in 0 .. old
         /\ old - rowCount - empty \in 0 .. old - empty
         /\ old - rowCount - empty \in Int
         /\ old - empty - (old - rowCount - empty) = rowCount
  OBVIOUS

LEMMA HeightFit ==
  ASSUME NEW u, Base(u), u.width > 0, Screen(u).columnCount = u.width,
         NEW rowCount \in Nat, rowCount > 0,
         u.height = rowCount \/ u.height = Height(Screen(u))
  PROVE  LET v == realizeHeight_(u, rowCount)
         IN  /\ Fit(v) /\ Elsewhere(u, v) /\ v.width = u.width /\ v.height = rowCount
             /\ rowCount = Height(Screen(u)) => v = u
             /\ rowCount # Height(Screen(u)) => Good(v)
             /\ Texts(AllRows(v)) = Texts(AllRows(u))
<1> DEFINE old == Height(Screen(u))
           cursor == saveCursor(u)
           sized == [u EXCEPT !.height = rowCount]
           empty == EmptyBelow(u, old - rowCount)
           off == old - rowCount - empty
           popped == OnScreen(sized, popRows(Screen(sized), empty))
           lower == scrollOff(popped, off)
           missing == rowCount - old
           kept == Len(u.scrollback) - missing
           back == TakenBack(sized, kept)
           v == realizeHeight_(u, rowCount)
<1>1. /\ ScreenOK(Screen(u)) /\ Len(u.scrollback) \in Nat /\ u.current \in Names
      /\ DOMAIN u = TerminalFields /\ DOMAIN u.screens = Names
      /\ u.width \in Nat /\ u.height \in Nat
  BY ShownScreen
<1>2. old \in Nat /\ IsSeq(Screen(u).rowsArray)
  BY <1>1, RowsHeight
<1>3. /\ cursor.row \in Int /\ cursor.column \in Int
      /\ DOMAIN cursor = {"row", "column", "overflow"}
  BY SavedCursor DEF saveCursor
<1>4. /\ Base(sized) /\ Elsewhere(u, sized) /\ Screen(sized) = Screen(u)
      /\ sized.width = u.width /\ sized.height = rowCount /\ sized.scrollback = u.scrollback
      /\ sized.screens = u.screens /\ sized.current = u.current
      /\ AllRows(sized) = AllRows(u)
  BY SizedBase, RowsKept DEF Elsewhere
<1>5. CASE rowCount = old
  <2>1. v = u
    BY <1>5 DEF realizeHeight_
  <2>2. u.height > 0 /\ Height(Screen(u)) = u.height
    BY <1>5
  <2>3. Fit(u)
    BY <2>2 DEF Fit
  <2> HIDE DEF v
  <2> QED BY <1>5, <2>1, <2>2, <2>3 DEF Elsewhere, v
<1>6. CASE rowCount < old
  <2>1. v = Settle(lower, cursor, Max({cursor.row - off, 0}))
    BY <1>2, <1>6 DEF realizeHeight_
  <2> HIDE DEF v, old, sized
  <2>2. old - rowCount \in Nat
    BY <1>2, <1>6
  <2>3. /\ empty \in 0 .. old - rowCount
        /\ \A i \in old - empty + 1 .. old : RowText(Screen(u).rowsArray[i]) = <<>>
    BY <1>2, <2>2, EmptyBelowRange DEF old
  <2> HIDE DEF empty
  <2>4. /\ empty \in 0 .. old /\ off \in 0 .. old - empty /\ off \in Int
        /\ old - empty - off = rowCount
    BY <1>2, <1>6, <2>3, LowerNumbers
  <2>5. Max({cursor.row - off, 0}) \in Int
    <3> HIDE DEF cursor, off
    <3>1. cursor.row - off \in Int
      BY <1>3, <2>4
    <3> QED BY <3>1, Max2
  <2> HIDE DEF off
  <2>6. /\ Base(popped) /\ Same(sized, popped) /\ SameCursor(Screen(u), Screen(popped))
        /\ Height(Screen(popped)) = old - empty /\ popped.vt = sized.vt
        /\ Texts(AllRows(popped)) = Texts(AllRows(u))
    <3>1. empty \in 0 .. Height(Screen(sized))
      BY <1>4, <2>4 DEF old
    <3>2. /\ Base(popped) /\ Same(sized, popped) /\ SameCursor(Screen(sized), Screen(popped))
          /\ Height(Screen(popped)) = Height(Screen(sized)) - empty /\ popped.vt = sized.vt
          /\ Texts(AllRows(popped)) = Texts(AllRows(sized))
      BY <1>4, <2>3, <3>1, PopBase DEF old
    <3> QED BY <1>4, <3>2 DEF old
  <2> HIDE DEF popped
  <2>7. /\ Base(lower) /\ Within(popped, lower) /\ SameCursor(Screen(popped), Screen(lower))
        /\ Height(Screen(lower)) = Height(Screen(popped)) - off
        /\ AllRows(lower) = AllRows(popped)
    <3>1. off \in 0 .. Height(Screen(popped))
      BY <2>4, <2>6
    <3> QED BY <2>6, <3>1, ScrollOffBase
  <2>8. lower.vt = popped.vt
    BY <2>6, ScrollOffParser DEF Base
  <2> HIDE DEF lower
  <2>9. Height(Screen(lower)) = rowCount
    BY <2>4, <2>6, <2>7
  <2>10. /\ lower.width = u.width /\ lower.height = rowCount /\ Elsewhere(u, lower)
         /\ Screen(lower).columnCount = u.width
    BY <1>4, <2>6, <2>7, <2>8 DEF Same, Within, SameCursor, Elsewhere
  <2>11. Fit(lower)
    BY <2>7, <2>9, <2>10 DEF Fit
  <2>12. /\ Good(v) /\ Elsewhere(lower, v) /\ v.width = lower.width /\ v.height = lower.height
         /\ AllRows(v) = AllRows(lower)
    <3> HIDE DEF cursor
    <3> QED BY <1>3, <2>1, <2>5, <2>11, SettleGood
  <2> QED BY <1>2, <1>6, <2>6, <2>7, <2>10, <2>12 DEF Elsewhere, Good, Sound, v, old
<1>7. CASE rowCount > old /\ kept >= 0
  <2>1. v = Settle(back, cursor, cursor.row + missing)
    <3> DEFINE rows == SubSeq(u.scrollback, kept + 1, Len(u.scrollback))
               same == [sized EXCEPT
                          !.scrollback = SubSeq(@, 1, kept),
                          !.screens[u.current] = unshiftRows(@, rows)]
    <3>1. v = Settle(same, cursor, cursor.row + missing)
      BY <1>2, <1>7 DEF realizeHeight_
    <3>2. same = back
      <4>1. Screen(u) = u.screens[u.current]
        BY DEF Screen
      <4>2. unshiftRows(sized.screens[u.current], rows) = BackRows(sized, kept)
        BY <1>4, <4>1 DEF BackRows
      <4>3. DOMAIN sized = TerminalFields
        BY <1>4 DEF Base
      <4> HIDE DEF rows, kept, sized
      <4> QED BY <1>4, <4>2, <4>3 DEF TakenBack, TerminalFields
    <3> HIDE DEF v, same, back
    <3> QED BY <3>1, <3>2
  <2> HIDE DEF v, old
  <2>2. /\ kept \in 0 .. Len(u.scrollback) /\ missing \in Int
        /\ Len(u.scrollback) - kept + old = rowCount
    BY <1>1, <1>2, <1>7
  <2>3. cursor.row + missing \in Int
    BY <1>3, <2>2
  <2> HIDE DEF kept, missing, sized
  <2>4. /\ Base(back) /\ back.width = sized.width /\ back.height = sized.height
        /\ back.vt = sized.vt /\ back.current = sized.current
        /\ SameCursor(Screen(sized), Screen(back))
        /\ Height(Screen(back)) = Len(sized.scrollback) - kept + Height(Screen(sized))
        /\ AllRows(back) = AllRows(sized)
    <3>1. kept \in 0 .. Len(sized.scrollback)
      BY <1>4, <2>2
    <3> QED BY <1>4, <3>1, BackBase
  <2> HIDE DEF back
  <2>5. /\ back.width = u.width /\ back.height = rowCount /\ Elsewhere(u, back)
        /\ Screen(back).columnCount = u.width /\ Height(Screen(back)) = rowCount
    BY <1>4, <2>2, <2>4 DEF SameCursor, Elsewhere, old
  <2>6. Fit(back)
    BY <2>4, <2>5 DEF Fit
  <2>7. /\ Good(v) /\ Elsewhere(back, v) /\ v.width = back.width /\ v.height = back.height
        /\ AllRows(v) = AllRows(back)
    <3> HIDE DEF cursor
    <3> QED BY <1>3, <2>1, <2>3, <2>6, SettleGood
  <2> QED BY <1>2, <1>4, <1>7, <2>4, <2>5, <2>7 DEF Elsewhere, Good, Sound, v, old
<1>8. CASE rowCount > old /\ kept < 0
  <2> DEFINE grown == appendRows_(sized, missing)
  <2>1. v = Settle(grown, cursor, cursor.row)
    BY <1>1, <1>2, <1>8 DEF realizeHeight_
  <2> HIDE DEF v
  <2>2. /\ missing \in Nat /\ Height(Screen(sized)) <= sized.height
        /\ Height(Screen(sized)) + missing >= sized.height
        /\ sized.width > 0 /\ sized.height > 0 /\ Screen(sized).columnCount = sized.width
    BY <1>2, <1>4, <1>8
  <2> HIDE DEF missing, sized
  <2>3. Fit(grown) /\ Within(sized, grown) /\ Texts(AllRows(grown)) = Texts(AllRows(sized))
    BY <1>4, <2>2, AppendFit
  <2>4. grown.vt = sized.vt
    BY <1>4, AppendParser DEF Base
  <2> HIDE DEF grown
  <2>5. /\ Good(v) /\ Elsewhere(grown, v) /\ v.width = grown.width /\ v.height = grown.height
        /\ AllRows(v) = AllRows(grown)
    <3> HIDE DEF cursor
    <3> QED BY <1>3, <2>1, <2>3, SettleGood
  <2> QED BY <1>2, <1>4, <1>8, <2>3, <2>4, <2>5 DEF Elsewhere, Good, Sound, Within, v, old
<1>9. kept \in Int
  BY <1>1, <1>2
<1> QED BY <1>2, <1>5, <1>6, <1>7, <1>8, <1>9

\* A new size of the window.
LEMMA SizeGood ==
  ASSUME NEW u, Good(u), NEW columnCount \in Nat, columnCount > 0,
         NEW rowCount \in Nat, rowCount > 0
  PROVE  LET v == realizeSize_(u, columnCount, rowCount)
         IN  Good(v) /\ Elsewhere(u, v) /\ Texts(AllRows(v)) = Texts(AllRows(u))
<1> DEFINE wide == IF columnCount # u.width THEN realizeWidth_(u, columnCount) ELSE u
           v == realizeSize_(u, columnCount, rowCount)
<1>1. /\ Base(u) /\ Screen(u).columnCount = u.width /\ Height(Screen(u)) = u.height
      /\ OnIt(Screen(u)) /\ RegionOK(u) /\ u.width > 0 /\ u.height > 0
  BY DEF Good, Sound, Fit
<1>2. v = IF rowCount # u.height THEN realizeHeight_(wide, rowCount) ELSE wide
  BY DEF realizeSize_
<1> HIDE DEF v
<1>3. /\ Good(wide) /\ Elsewhere(u, wide) /\ wide.height = u.height
      /\ AllRows(wide) = AllRows(u)
  <2>1. CASE columnCount # u.width
    <3> DEFINE w == realizeWidth_(u, columnCount)
    <3>1. wide = w
      BY <2>1
    <3>2. /\ Base(w) /\ Elsewhere(u, w)
          /\ w.width = columnCount /\ Screen(w).columnCount = columnCount
          /\ w.height = u.height /\ w.top = u.top /\ w.bottom = u.bottom
          /\ SameRows(Screen(u), Screen(w)) /\ OnIt(Screen(w)) /\ Column(w) < columnCount
          /\ AllRows(w) = AllRows(u)
      BY <1>1, <2>1, WidthBase
    <3> HIDE DEF w
    <3>3. Fit(w)
      BY <1>1, <3>2 DEF Fit, SameRows
    <3>4. RegionOK(w)
      BY <1>1, <3>2 DEF RegionOK, getVTScrollTop, getVTScrollBottom
    <3> QED BY <3>1, <3>2, <3>3, <3>4 DEF Good, Sound
  <2>2. CASE columnCount = u.width
    BY <2>2 DEF Elsewhere
  <2> QED BY <2>1, <2>2
<1> HIDE DEF wide
<1>4. CASE rowCount # u.height
  <2>1. /\ Base(wide) /\ wide.width > 0 /\ Screen(wide).columnCount = wide.width
        /\ Height(Screen(wide)) = wide.height
    BY <1>3 DEF Good, Sound, Fit
  <2>2. /\ Good(realizeHeight_(wide, rowCount)) /\ Elsewhere(wide, realizeHeight_(wide, rowCount))
        /\ Texts(AllRows(realizeHeight_(wide, rowCount))) = Texts(AllRows(wide))
    BY <1>3, <1>4, <2>1, HeightFit
  <2> QED BY <1>2, <1>3, <1>4, <2>2 DEF Elsewhere, v
<1>5. CASE rowCount = u.height
  BY <1>2, <1>3, <1>5 DEF v
<1> QED BY <1>4, <1>5

----------------------------------------------------------------------------
\* Colours.

\* A terminal of which only the colours have changed, and settings.
Painted(u, v) ==
  /\ DOMAIN v = TerminalFields /\ v.screens = u.screens /\ v.current = u.current
  /\ v.scrollback = u.scrollback /\ v.width = u.width /\ v.height = u.height
  /\ v.top = u.top /\ v.bottom = u.bottom /\ v.tabStops = u.tabStops
  /\ v.vt = u.vt

LEMMA PaintedGood ==
  ASSUME NEW u, NEW v, Painted(u, v), ColorsOK(v.colors), ShowsPalette(v)
  PROVE  /\ Base(u) => Base(v)
         /\ Fit(u) => Fit(v)
         /\ Sound(u) => Sound(v)
         /\ Good(u) => Good(v)
<1>1. ASSUME Base(u) PROVE Base(v)
  BY <1>1 DEF Base, Numbered, Screen, Painted
<1>2. ASSUME Fit(u) PROVE Fit(v)
  BY <1>1, <1>2 DEF Fit, Screen, Painted
<1>3. ASSUME Sound(u) PROVE Sound(v)
  BY <1>2, <1>3 DEF Sound, Screen, RegionOK, getVTScrollTop, getVTScrollBottom, Painted
<1>4. ASSUME Good(u) PROVE Good(v)
  BY <1>3, <1>4 DEF Good, Column, Screen, Painted
<1> QED BY <1>1, <1>2, <1>3, <1>4

LEMMA RecoloredAt ==
  ASSUME NEW palette, NEW new
  PROVE  /\ DOMAIN Recolored(palette, new) = DOMAIN palette \cup DOMAIN new
         /\ \A i \in DOMAIN new : Recolored(palette, new)[i] = new[i]
         /\ \A i \in DOMAIN palette : i \notin DOMAIN new => Recolored(palette, new)[i] = palette[i]
  BY DEF Recolored

\* The colours, with another palette.
PaletteSet(colors, palette, name, overrides) ==
  [colors EXCEPT !.css.palette = palette, !.overrides[name] = overrides]

LEMMA PaletteFields ==
  ASSUME NEW colors, ColorsOK(colors), NEW palette, NEW name \in Names, NEW overrides
  PROVE  LET new == PaletteSet(colors, palette, name, overrides)
         IN  /\ ColorsOK(new) /\ new.css.palette = palette
             /\ new.overrides[name] = overrides
  BY DEF ColorsOK, PaletteSet, Names

LEMMA ColorsChanged ==
  ASSUME NEW u, DOMAIN u = TerminalFields, NEW colors
  PROVE  LET v == [u EXCEPT !.colors = colors]
         IN  Painted(u, v) /\ v.colors = colors
  BY DEF Painted, TerminalFields

\* What is shown of a place only depends on the palette and the overrides.
LEMMA ShownBy ==
  ASSUME NEW u, ShowsPalette(u), NEW i \in DOMAIN u.colors.css.palette \cup DOMAIN Overrides(u)
  PROVE  ShownColor(u, i) = getColorPalette(u, i)
  BY DEF ShowsPalette

LEMMA SetPaletteGood ==
  ASSUME NEW u, Good(u), NEW i, NEW rgb
  PROVE  Good(setColorPalette(u, i, rgb))
<1> DEFINE new == [place \in {i} |-> rgb]
           css == Recolored(u.colors.css.palette, new)
           own == Recolored(Overrides(u), new)
           colors == PaletteSet(u.colors, css, u.current, own)
           w == [u EXCEPT !.colors = colors]
<1>1. /\ DOMAIN u = TerminalFields /\ ColorsOK(u.colors) /\ ShowsPalette(u)
      /\ u.current \in Names
  BY DEF Good, Sound, Fit, Base
<1>2. CASE i \in 0 .. 255
  <2>1. setColorPalette(u, i, rgb) = w
    BY <1>1, <1>2 DEF setColorPalette, PaletteSet, TerminalFields, ColorsOK, Overrides
  <2>2. DOMAIN new = {i} /\ new[i] = rgb
    OBVIOUS
  <2> HIDE DEF new
  <2>3. /\ DOMAIN css = DOMAIN u.colors.css.palette \cup {i} /\ css[i] = rgb
        /\ \A j \in DOMAIN u.colors.css.palette : j # i => css[j] = u.colors.css.palette[j]
    <3>1. /\ DOMAIN css = DOMAIN u.colors.css.palette \cup DOMAIN new
          /\ \A j \in DOMAIN new : css[j] = new[j]
          /\ \A j \in DOMAIN u.colors.css.palette :
               j \notin DOMAIN new => css[j] = u.colors.css.palette[j]
      BY RecoloredAt
    <3> HIDE DEF css
    <3> QED BY <2>2, <3>1
  <2>4. /\ DOMAIN own = DOMAIN Overrides(u) \cup {i} /\ own[i] = rgb
        /\ \A j \in DOMAIN Overrides(u) : j # i => own[j] = Overrides(u)[j]
    <3>1. /\ DOMAIN own = DOMAIN Overrides(u) \cup DOMAIN new
          /\ \A j \in DOMAIN new : own[j] = new[j]
          /\ \A j \in DOMAIN Overrides(u) : j \notin DOMAIN new => own[j] = Overrides(u)[j]
      BY RecoloredAt
    <3> HIDE DEF own
    <3> QED BY <2>2, <3>1
  <2> HIDE DEF css, own
  <2>5. /\ ColorsOK(colors) /\ colors.css.palette = css /\ colors.overrides[u.current] = own
    BY <1>1, PaletteFields
  <2> HIDE DEF colors
  <2>6. Painted(u, w) /\ w.colors = colors
    BY <1>1, ColorsChanged
  <2> HIDE DEF w
  <2>7. w.colors.css.palette = css /\ Overrides(w) = own
    BY <2>5, <2>6 DEF Overrides, Painted
  <2>8. ASSUME NEW j \in DOMAIN css \cup DOMAIN own
        PROVE  ShownColor(w, j) = getColorPalette(w, j)
    <3>1. CASE j = i
      BY <2>3, <2>4, <2>7, <3>1 DEF ShownColor, getColorPalette
    <3>2. CASE j # i
      <4>1. j \in DOMAIN u.colors.css.palette \cup DOMAIN Overrides(u)
        BY <2>3, <2>4, <3>2
      <4>2. ShownColor(u, j) = getColorPalette(u, j)
        BY <1>1, <4>1, ShownBy
      <4>3. ShownColor(w, j) = ShownColor(u, j)
        BY <2>3, <2>7, <3>2 DEF ShownColor
      <4>4. getColorPalette(w, j) = getColorPalette(u, j)
        BY <2>4, <2>7, <3>2 DEF getColorPalette
      <4> QED BY <4>2, <4>3, <4>4
    <3> QED BY <3>1, <3>2
  <2>9. ShowsPalette(w)
    BY <2>7, <2>8 DEF ShowsPalette
  <2> QED BY <2>1, <2>5, <2>6, <2>9, PaintedGood
<1>3. CASE i \notin 0 .. 255
  BY <1>3 DEF setColorPalette
<1> QED BY <1>2, <1>3

\* Places of the palette taken back.
LEMMA ResetColorsPainted ==
  ASSUME NEW u, DOMAIN u = TerminalFields, ColorsOK(u.colors), ShowsPalette(u),
         u.current \in Names, NEW places
  PROVE  LET v == resetColors(u, places)
         IN  /\ Painted(u, v) /\ ColorsOK(v.colors) /\ ShowsPalette(v)
             /\ DOMAIN v.colors.css.palette = DOMAIN u.colors.css.palette \cup places
             /\ \A i \in places : ShownColor(v, i) = stockPalette[i]
             /\ \A i : i \notin places => ShownColor(v, i) = ShownColor(u, i)
<1> DEFINE new == [i \in places |-> stockPalette[i]]
           css == Recolored(u.colors.css.palette, new)
           old == Overrides(u)
           own == [i \in DOMAIN old \ places |-> old[i]]
           colors == PaletteSet(u.colors, css, u.current, own)
           w == [u EXCEPT !.colors = colors]
           v == resetColors(u, places)
<1> HIDE DEF stockPalette
<1>1. v = w
  BY DEF resetColors, WithoutOverrides, PaletteSet, TerminalFields, ColorsOK, Overrides
<1> HIDE DEF v
<1>2. DOMAIN new = places /\ \A i \in places : new[i] = stockPalette[i]
  OBVIOUS
<1> HIDE DEF new
<1>3. /\ DOMAIN css = DOMAIN u.colors.css.palette \cup places
      /\ \A i \in places : css[i] = stockPalette[i]
      /\ \A i \in DOMAIN u.colors.css.palette : i \notin places => css[i] = u.colors.css.palette[i]
  <2>1. /\ DOMAIN css = DOMAIN u.colors.css.palette \cup DOMAIN new
        /\ \A i \in DOMAIN new : css[i] = new[i]
        /\ \A i \in DOMAIN u.colors.css.palette :
             i \notin DOMAIN new => css[i] = u.colors.css.palette[i]
    BY RecoloredAt
  <2> HIDE DEF css
  <2> QED BY <1>2, <2>1
<1>4. DOMAIN own = DOMAIN old \ places /\ \A i \in DOMAIN own : own[i] = old[i]
  OBVIOUS
<1> HIDE DEF css, own
<1>5. /\ ColorsOK(colors) /\ colors.css.palette = css /\ colors.overrides[u.current] = own
  BY PaletteFields
<1> HIDE DEF colors
<1>6. Painted(u, w) /\ w.colors = colors
  BY ColorsChanged
<1> HIDE DEF w
<1>7. w.colors.css.palette = css /\ Overrides(w) = own
  BY <1>5, <1>6 DEF Overrides, Painted
<1>8. /\ \A i \in places : ShownColor(w, i) = stockPalette[i]
      /\ \A i : i \notin places => ShownColor(w, i) = ShownColor(u, i)
  BY <1>3, <1>7 DEF ShownColor
<1>9. ASSUME NEW j \in DOMAIN css \cup DOMAIN own
      PROVE  ShownColor(w, j) = getColorPalette(w, j)
  <2>1. CASE j \in places
    BY <1>4, <1>7, <1>8, <2>1 DEF getColorPalette
  <2>2. CASE j \notin places
    <3>1. j \in DOMAIN u.colors.css.palette \cup DOMAIN Overrides(u)
      BY <1>3, <1>4, <2>2
    <3>2. ShownColor(u, j) = getColorPalette(u, j)
      BY <3>1, ShownBy
    <3>3. getColorPalette(w, j) = getColorPalette(u, j)
      BY <1>4, <1>7, <2>2 DEF getColorPalette
    <3> QED BY <1>8, <2>2, <3>2, <3>3
  <2> QED BY <2>1, <2>2
<1>10. ShowsPalette(w)
  BY <1>7, <1>9 DEF ShowsPalette
<1> QED BY <1>1, <1>3, <1>5, <1>6, <1>7, <1>8, <1>10 DEF v

LEMMA ResetColorsGood ==
  ASSUME NEW u, Good(u), NEW places
  PROVE  Good(resetColors(u, places))
<1>1. /\ DOMAIN u = TerminalFields /\ ColorsOK(u.colors) /\ ShowsPalette(u)
      /\ u.current \in Names
  BY DEF Good, Sound, Fit, Base
<1>2. LET v == resetColors(u, places)
      IN  Painted(u, v) /\ ColorsOK(v.colors) /\ ShowsPalette(v)
  BY <1>1, ResetColorsPainted
<1> QED BY <1>2, PaintedGood

LEMMA ResetPaletteGood ==
  ASSUME NEW u, Good(u)
  PROVE  Good(resetColorPalette(u))
  BY ResetColorsGood DEF resetColorPalette

\* Colours outside of the palette.
LEMMA OtherColorsGood ==
  ASSUME NEW u, Good(u), NEW colors, ColorsOK(colors),
         colors.css.palette = u.colors.css.palette, colors.overrides = u.colors.overrides,
         NEW v, Painted(u, v), v.colors = colors
  PROVE  Good(v)
<1>1. ShowsPalette(v)
  BY DEF Good, Sound, Fit, Base, ShowsPalette, ShownColor, getColorPalette, Overrides, Painted
<1> QED BY <1>1, PaintedGood

LEMMA ForegroundGood ==
  ASSUME NEW u, Good(u), NEW rgb
  PROVE  Good(setForegroundColor(u, rgb))
<1> DEFINE colors == [u.colors EXCEPT !.foregroundColor_ = rgb, !.css.foreground = rgb]
           v == [u EXCEPT !.colors = colors]
<1>1. DOMAIN u = TerminalFields /\ ColorsOK(u.colors)
  BY DEF Good, Sound, Fit, Base
<1>2. setForegroundColor(u, rgb) = v
  BY <1>1 DEF setForegroundColor, TerminalFields, ColorsOK
<1>3. /\ ColorsOK(colors) /\ colors.css.palette = u.colors.css.palette
      /\ colors.overrides = u.colors.overrides
  BY <1>1 DEF ColorsOK
<1> HIDE DEF colors
<1>4. Painted(u, v) /\ v.colors = colors
  BY <1>1, ColorsChanged
<1> HIDE DEF v
<1> QED BY <1>2, <1>3, <1>4, OtherColorsGood

LEMMA BackgroundGood ==
  ASSUME NEW u, Good(u), NEW rgb
  PROVE  Good(setBackgroundColor(u, rgb))
<1> DEFINE colors == [u.colors EXCEPT !.backgroundColor_ = rgb, !.css.background = rgb]
           v == [u EXCEPT !.colors = colors]
<1>1. DOMAIN u = TerminalFields /\ ColorsOK(u.colors)
  BY DEF Good, Sound, Fit, Base
<1>2. setBackgroundColor(u, rgb) = v
  BY <1>1 DEF setBackgroundColor, TerminalFields, ColorsOK
<1>3. /\ ColorsOK(colors) /\ colors.css.palette = u.colors.css.palette
      /\ colors.overrides = u.colors.overrides
  BY <1>1 DEF ColorsOK
<1> HIDE DEF colors
<1>4. Painted(u, v) /\ v.colors = colors
  BY <1>1, ColorsChanged
<1> HIDE DEF v
<1> QED BY <1>2, <1>3, <1>4, OtherColorsGood

LEMMA CursorColorGood ==
  ASSUME NEW u, Good(u), NEW rgb
  PROVE  Good(setCursorColor(u, rgb))
<1> DEFINE colors == [u.colors EXCEPT !.css.cursor = rgb]
           v == [u EXCEPT !.colors = colors]
<1>1. DOMAIN u = TerminalFields /\ ColorsOK(u.colors)
  BY DEF Good, Sound, Fit, Base
<1>2. setCursorColor(u, rgb) = v
  BY <1>1 DEF setCursorColor, TerminalFields, ColorsOK
<1>3. /\ ColorsOK(colors) /\ colors.css.palette = u.colors.css.palette
      /\ colors.overrides = u.colors.overrides
  BY <1>1 DEF ColorsOK
<1> HIDE DEF colors
<1>4. Painted(u, v) /\ v.colors = colors
  BY <1>1, ColorsChanged
<1> HIDE DEF v
<1> QED BY <1>2, <1>3, <1>4, OtherColorsGood

LEMMA ReverseVideoGood ==
  ASSUME NEW u, Good(u), NEW on
  PROVE  Good(setReverseVideo(u, on))
<1> DEFINE w == setOption(u, "reverseVideo", on)
           back == w.colors.backgroundColor_
           fore == w.colors.foregroundColor_
           one == IF on THEN back ELSE fore
           two == IF on THEN fore ELSE back
           colors == [w.colors EXCEPT !.css.foreground = one, !.css.background = two]
           v == [w EXCEPT !.colors = colors]
<1>0. Good(w)
  BY OptionGood
<1>1. setReverseVideo(u, on) = SwapColors(w, on)
  BY DEF setReverseVideo
<1> HIDE DEF w
<1>2. DOMAIN w = TerminalFields /\ ColorsOK(w.colors)
  BY <1>0 DEF Good, Sound, Fit, Base
<1>3. SwapColors(w, on) = v
  BY <1>2 DEF SwapColors, TerminalFields, ColorsOK
<1> HIDE DEF one, two
<1>4. /\ ColorsOK(colors) /\ colors.css.palette = w.colors.css.palette
      /\ colors.overrides = w.colors.overrides
  BY <1>2 DEF ColorsOK
<1> HIDE DEF colors
<1>5. Painted(w, v) /\ v.colors = colors
  BY <1>2, ColorsChanged
<1> HIDE DEF v
<1>6. Good(v)
  BY <1>0, <1>4, <1>5, OtherColorsGood
<1> QED BY <1>1, <1>3, <1>6

----------------------------------------------------------------------------
\* The other screen.

\* Its colours are shown.
LEMMA SwappedPalette ==
  ASSUME NEW u, DOMAIN u = TerminalFields, ColorsOK(u.colors), ShowsPalette(u),
         u.current \in Names, NEW other \in Names
  PROVE  LET v == ShowPalette([u EXCEPT !.current = other], Overrides(u))
         IN  /\ DOMAIN v = TerminalFields /\ v.screens = u.screens /\ v.current = other
             /\ v.scrollback = u.scrollback /\ v.width = u.width /\ v.height = u.height
             /\ v.top = u.top /\ v.bottom = u.bottom /\ v.tabStops = u.tabStops
             /\ v.vt = u.vt /\ v.options = u.options
             /\ ColorsOK(v.colors) /\ ShowsPalette(v)
<1> DEFINE w == [u EXCEPT !.current = other]
           new == [i \in DOMAIN Overrides(u) \cup DOMAIN Overrides(w) |-> getColorPalette(w, i)]
           css == Recolored(w.colors.css.palette, new)
           colors == [w.colors EXCEPT !.css.palette = css]
           v == ShowPalette(w, Overrides(u))
<1>1. /\ DOMAIN w = TerminalFields /\ w.screens = u.screens /\ w.current = other
      /\ w.scrollback = u.scrollback /\ w.width = u.width /\ w.height = u.height
      /\ w.top = u.top /\ w.bottom = u.bottom /\ w.tabStops = u.tabStops
      /\ w.vt = u.vt /\ w.colors = u.colors /\ w.options = u.options
  BY DEF TerminalFields
<1> HIDE DEF w
<1>2. v = [w EXCEPT !.colors = colors]
  BY <1>1 DEF ShowPalette, TerminalFields, ColorsOK
<1>3. /\ DOMAIN new = DOMAIN Overrides(u) \cup DOMAIN Overrides(w)
      /\ \A i \in DOMAIN new : new[i] = getColorPalette(w, i)
  OBVIOUS
<1> HIDE DEF new, v
<1>4. /\ DOMAIN css = DOMAIN w.colors.css.palette \cup DOMAIN new
      /\ \A i \in DOMAIN new : css[i] = new[i]
      /\ \A i \in DOMAIN w.colors.css.palette :
           i \notin DOMAIN new => css[i] = w.colors.css.palette[i]
  BY RecoloredAt
<1> HIDE DEF css
<1>5. ColorsOK(colors) /\ colors.css.palette = css /\ colors.overrides = u.colors.overrides
  BY <1>1 DEF ColorsOK
<1> HIDE DEF colors
<1>6. /\ DOMAIN v = TerminalFields /\ v.screens = u.screens /\ v.current = other
      /\ v.scrollback = u.scrollback /\ v.width = u.width /\ v.height = u.height
      /\ v.top = u.top /\ v.bottom = u.bottom /\ v.tabStops = u.tabStops
      /\ v.vt = u.vt /\ v.colors = colors /\ v.options = u.options
  BY <1>1, <1>2 DEF TerminalFields
<1>7. Overrides(v) = Overrides(w) /\ v.colors.css.palette = css
  BY <1>1, <1>5, <1>6 DEF Overrides
<1>8. ASSUME NEW i \in DOMAIN css \cup DOMAIN Overrides(v)
      PROVE  ShownColor(v, i) = getColorPalette(v, i)
  <2>1. CASE i \in DOMAIN new
    BY <1>3, <1>4, <1>7, <2>1 DEF ShownColor, getColorPalette
  <2>2. CASE i \notin DOMAIN new
    <3>1. i \in DOMAIN u.colors.css.palette /\ i \notin DOMAIN Overrides(u)
          /\ i \notin DOMAIN Overrides(v)
      BY <1>1, <1>3, <1>4, <1>7, <2>2
    <3>2. ShownColor(u, i) = getColorPalette(u, i)
      BY <3>1, ShownBy
    <3>3. ShownColor(v, i) = ShownColor(u, i)
      BY <1>1, <1>4, <1>7, <2>2, <3>1 DEF ShownColor
    <3> QED BY <3>1, <3>2, <3>3 DEF getColorPalette
  <2> QED BY <2>1, <2>2
<1>9. ShowsPalette(v)
  BY <1>7, <1>8 DEF ShowsPalette
<1> QED BY <1>5, <1>6, <1>9 DEF v, w

\* Its rows are numbered anew, when that is needed.
LEMMA SwappedRows ==
  ASSUME NEW rows, RowsOK(rows), NEW first \in Nat,
         Len(rows) > 0 => NumberedFrom(rows, rows[1].rowIndex),
         ~(rows # <<>> /\ rows[1].rowIndex # first)
  PROVE  NumberedFrom(rows, first)
<1>1. rows = <<>> <=> Len(rows) = 0
  BY SeqDomain DEF RowsOK
<1>2. Len(rows) \in Nat
  BY SeqDomain DEF RowsOK
<1>3. CASE Len(rows) = 0
  BY <1>3 DEF NumberedFrom
<1>4. CASE Len(rows) > 0
  BY <1>1, <1>4
<1> QED BY <1>2, <1>3, <1>4

LEMMA RenumberedAll ==
  ASSUME NEW s, ScreenOK(s), NEW first \in Nat
  PROVE  LET r == RenumberedScreen(s, 0, Len(s.rowsArray), first)
         IN  /\ ScreenOK(r) /\ NumberedFrom(r.rowsArray, first)
<1> DEFINE n == Len(s.rowsArray)
           r == RenumberedScreen(s, 0, n, first)
<1>1. n \in Nat /\ Height(s) = n
  BY RowsHeight
<1> HIDE DEF n
<1>2. /\ ScreenOK(r) /\ Height(r) = Height(s)
      /\ \A i \in 1 .. Height(s) :
           r.rowsArray[i].rowIndex = IF i - 1 \in 0 .. n - 1 THEN first + i - 1
                                     ELSE s.rowsArray[i].rowIndex
  BY RenumberOK
<1> HIDE DEF r
<1>3. \A i \in 1 .. n : r.rowsArray[i].rowIndex = first + i - 1
  <2> SUFFICES ASSUME NEW i \in 1 .. n PROVE r.rowsArray[i].rowIndex = first + i - 1
    OBVIOUS
  <2>1. i - 1 \in 0 .. n - 1
    BY <1>1
  <2> QED BY <1>1, <1>2, <2>1
<1>4. Len(r.rowsArray) = n
  BY <1>1, <1>2 DEF Height
<1> QED BY <1>2, <1>3, <1>4 DEF NumberedFrom, r, n

LEMMA SwappedBase ==
  ASSUME NEW u, Base(u), NEW w, DOMAIN w = TerminalFields, w.current \in Names,
         DOMAIN w.screens = Names,
         \A name \in Names : name # w.current => w.screens[name] = u.screens[name],
         ScreenOK(Screen(w)), NumberedFrom(Screen(w).rowsArray, Len(u.scrollback)),
         w.scrollback = u.scrollback, w.width = u.width, w.height = u.height,
         w.tabStops = u.tabStops, w.vt = u.vt, ColorsOK(w.colors), ShowsPalette(w)
  PROVE  Base(w)
<1>1. ASSUME NEW name \in Names PROVE ScreenOK(w.screens[name])
  BY <1>1 DEF Base, Screen
<1>2. ASSUME NEW name \in Names, Len(w.screens[name].rowsArray) > 0
      PROVE  NumberedFrom(w.screens[name].rowsArray, w.screens[name].rowsArray[1].rowIndex)
  <2>1. CASE name = w.current
    <3> DEFINE rows == Screen(w).rowsArray
    <3>1. w.screens[name].rowsArray = rows
      BY <2>1 DEF Screen
    <3>2. Len(rows) \in Nat /\ Len(rows) > 0 /\ Len(u.scrollback) \in Nat
      BY <1>2, <3>1, SeqDomain, ShownScreen DEF ScreenOK, RowsOK
    <3>3. 1 \in 1 .. Len(rows)
      BY <3>2
    <3>4. rows[1].rowIndex = Len(u.scrollback) + 1 - 1
      BY <3>3 DEF NumberedFrom
    <3>5. rows[1].rowIndex = Len(u.scrollback)
      BY <3>2, <3>4
    <3> QED BY <3>1, <3>5
  <2>2. CASE name # w.current
    BY <1>2, <2>2 DEF Base, Numbered
  <2> QED BY <2>1, <2>2
<1>3. Numbered(w)
  BY <1>2, ShownScreen DEF Numbered
<1> QED BY <1>1, <1>3 DEF Base

LEMMA AlternateGood ==
  ASSUME NEW u, Good(u), NEW on
  PROVE  Good(setAlternateMode(u, on))
<1> DEFINE other == IF on THEN "alternate" ELSE "primary"
           swapped == ShowPalette([u EXCEPT !.current = other], Overrides(u))
           s == u.screens[other]
           rows == s.rowsArray
           stale == rows # <<>> /\ rows[1].rowIndex # Len(u.scrollback)
           renumbered == RenumberedScreen(s, 0, Len(rows), Len(u.scrollback))
           numbered == IF stale THEN renumberRows_(swapped, 0, Len(rows)) ELSE swapped
           wide == realizeWidth_(numbered, u.width)
           sized == realizeHeight_(wide, u.height)
           v == restoreCursor(sized, saveCursor(u))
<1>1. setAlternateMode(u, on) = IF u.current = other THEN u ELSE v
  BY DEF setAlternateMode
<1>2. other \in Names
  BY DEF Names
<1> HIDE DEF other
<1>3. /\ Base(u) /\ u.width \in Nat /\ u.width > 0 /\ u.height \in Nat /\ u.height > 0
      /\ RegionOK(u) /\ Len(u.scrollback) \in Nat /\ ScreenOK(s) /\ DOMAIN u.screens = Names
      /\ Len(rows) > 0 => NumberedFrom(rows, rows[1].rowIndex)
  BY <1>2, ShownScreen DEF Good, Sound, Fit, Base, Numbered
<1>4. /\ DOMAIN swapped = TerminalFields /\ swapped.screens = u.screens
      /\ swapped.current = other
      /\ swapped.scrollback = u.scrollback /\ swapped.width = u.width
      /\ swapped.height = u.height
      /\ swapped.top = u.top /\ swapped.bottom = u.bottom /\ swapped.tabStops = u.tabStops
      /\ swapped.vt = u.vt
      /\ ColorsOK(swapped.colors) /\ ShowsPalette(swapped)
  BY <1>2, <1>3, SwappedPalette DEF Base
<1> HIDE DEF swapped
<1>5. /\ Base(numbered) /\ numbered.width = u.width /\ numbered.height = u.height
      /\ numbered.top = u.top /\ numbered.bottom = u.bottom
  <2>1. CASE stale
    <3> DEFINE w == OnScreen(swapped, renumbered)
    <3>1. numbered = w
      BY <1>4, <2>1 DEF renumberRows_, Screen
    <3>2. ScreenOK(renumbered) /\ NumberedFrom(renumbered.rowsArray, Len(u.scrollback))
      BY <1>3, RenumberedAll
    <3> HIDE DEF renumbered
    <3>3. /\ DOMAIN w = TerminalFields /\ w.current = other
          /\ w.screens = [u.screens EXCEPT ![other] = renumbered]
          /\ w.scrollback = u.scrollback /\ w.width = u.width
          /\ w.height = u.height
          /\ w.top = u.top /\ w.bottom = u.bottom /\ w.tabStops = u.tabStops
          /\ w.vt = u.vt /\ w.colors = swapped.colors
      BY <1>4 DEF OnScreen, TerminalFields
    <3> HIDE DEF w
    <3>4. Screen(w) = renumbered /\ DOMAIN w.screens = Names
          /\ \A name \in Names : name # w.current => w.screens[name] = u.screens[name]
      BY <1>2, <1>3, <3>3 DEF Screen
    <3>5. ShowsPalette(w)
      BY <1>4, <3>3 DEF ShowsPalette, ShownColor, getColorPalette, Overrides
    <3>6. Base(w)
      BY <1>2, <1>3, <1>4, <3>2, <3>3, <3>4, <3>5, SwappedBase
    <3> QED BY <3>1, <3>3, <3>6
  <2>2. CASE ~stale
    <3>1. numbered = swapped
      BY <2>2
    <3>2. Screen(swapped) = s
      BY <1>4 DEF Screen
    <3>3. NumberedFrom(rows, Len(u.scrollback))
      BY <1>3, <2>2, SwappedRows DEF ScreenOK
    <3>4. Base(swapped)
      BY <1>2, <1>3, <1>4, <3>2, <3>3, SwappedBase
    <3> HIDE DEF numbered
    <3> QED BY <1>4, <3>1, <3>4
  <2> QED BY <2>1, <2>2
<1> HIDE DEF numbered
<1>6. /\ Base(wide) /\ wide.width = u.width /\ Screen(wide).columnCount = u.width
      /\ wide.height = u.height /\ wide.top = u.top /\ wide.bottom = u.bottom
  BY <1>3, <1>5, WidthBase
<1> HIDE DEF wide
<1>7. /\ Fit(sized) /\ sized.width = u.width /\ sized.height = u.height
      /\ u.height = Height(Screen(wide)) => sized = wide
      /\ u.height # Height(Screen(wide)) => Good(sized)
  BY <1>3, <1>6, HeightFit
<1> HIDE DEF sized
<1>8. RegionOK(sized)
  <2>1. CASE u.height = Height(Screen(wide))
    BY <1>3, <1>6, <1>7, <2>1 DEF RegionOK, getVTScrollTop, getVTScrollBottom
  <2>2. CASE u.height # Height(Screen(wide))
    BY <1>7, <2>2 DEF Good, Sound
  <2> QED BY <2>1, <2>2
<1>9. saveCursor(u).row \in Int /\ saveCursor(u).column \in Int
  BY <1>3, SavedCursor
<1>10. Good(v)
  BY <1>7, <1>8, <1>9, RestoreFit
<1> HIDE DEF v
<1> QED BY <1>1, <1>10

----------------------------------------------------------------------------
\* Resets.

\* A terminal without overrides shows the stock palette when every place that
\* was changed has been taken back.
LEMMA ResetTerminalGood ==
  ASSUME NEW u, Good(u), NEW options
  PROVE  Good(ResetTerminal(u, options))
<1> DEFINE w == resetColorPalette(u)
           none == [primary |-> NoColors, alternate |-> NoColors]
           all == options \cup {"cursorVisible"}
           colors == [w.colors EXCEPT !.overrides = none]
           v == ResetTerminal(u, options)
<1>1. /\ DOMAIN u = TerminalFields /\ ColorsOK(u.colors) /\ ShowsPalette(u)
      /\ u.current \in Names
  BY DEF Good, Sound, Fit, Base
<1>2. /\ Painted(u, w) /\ ColorsOK(w.colors)
      /\ DOMAIN w.colors.css.palette = DOMAIN u.colors.css.palette \cup DOMAIN Overrides(u)
      /\ \A i \in DOMAIN Overrides(u) : ShownColor(w, i) = stockPalette[i]
      /\ \A i : i \notin DOMAIN Overrides(u) => ShownColor(w, i) = ShownColor(u, i)
  <2> DEFINE places == DOMAIN Overrides(u)
  <2>1. w = resetColors(u, places)
    BY DEF resetColorPalette
  <2> HIDE DEF w, places
  <2>2. /\ Painted(u, w) /\ ColorsOK(w.colors)
        /\ DOMAIN w.colors.css.palette = DOMAIN u.colors.css.palette \cup places
        /\ \A i \in places : ShownColor(w, i) = stockPalette[i]
        /\ \A i : i \notin places => ShownColor(w, i) = ShownColor(u, i)
    BY <1>1, <2>1, ResetColorsPainted
  <2> QED BY <2>2 DEF places
<1> HIDE DEF w, all
<1>3. DOMAIN none = Names /\ \A name \in Names : none[name] = NoColors
  BY DEF Names
<1>4. v = [w EXCEPT !.charsets = NewCharsets, !.options = all, !.colors.overrides = none]
  BY DEF ResetTerminal, w, all
<1> HIDE DEF none, v
<1>5. ColorsOK(colors) /\ colors.css = w.colors.css /\ colors.overrides = none
  BY <1>2, <1>3 DEF ColorsOK
<1>6. /\ v.colors = colors /\ Painted(w, v)
  BY <1>2, <1>4 DEF Painted, TerminalFields
<1> HIDE DEF colors
<1>7. Painted(u, v) /\ v.current \in Names
  BY <1>1, <1>2, <1>6 DEF Painted
<1>8. Overrides(v) = NoColors /\ DOMAIN NoColors = {}
  BY <1>3, <1>5, <1>6, <1>7 DEF Overrides, NoColors
<1>9. ASSUME NEW i \in DOMAIN v.colors.css.palette \cup DOMAIN Overrides(v)
      PROVE  ShownColor(v, i) = getColorPalette(v, i)
  <2>1. getColorPalette(v, i) = stockPalette[i]
    BY <1>8 DEF getColorPalette
  <2>2. ShownColor(v, i) = ShownColor(w, i)
    BY <1>5, <1>6 DEF ShownColor
  <2>3. CASE i \in DOMAIN Overrides(u)
    BY <1>2, <2>1, <2>2, <2>3
  <2>4. CASE i \notin DOMAIN Overrides(u)
    <3>1. i \in DOMAIN u.colors.css.palette
      BY <1>2, <1>5, <1>6, <1>8, <2>4
    <3>2. ShownColor(u, i) = getColorPalette(u, i)
      BY <1>1, <3>1, ShownBy
    <3>3. getColorPalette(u, i) = stockPalette[i]
      BY <2>4 DEF getColorPalette
    <3> QED BY <1>2, <2>1, <2>2, <2>4, <3>2, <3>3
  <2> QED BY <2>3, <2>4
<1>10. ShowsPalette(v)
  BY <1>9 DEF ShowsPalette
<1>11. Good(v)
  BY <1>5, <1>6, <1>7, <1>10, PaintedGood
<1> QED BY <1>11 DEF v

LEMMA SoftResetScreenGood ==
  ASSUME NEW u, Good(u), NEW name \in Names
  PROVE  Good(SoftResetScreen(u, name))
<1> DEFINE old == u.screens[name]
           attrs == ResetAttributes(old.textAttributes)
           s == [old EXCEPT !.textAttributes = attrs]
           w == OtherScreen(u, name, s)
<1>1. SoftResetScreen(u, name) = SaveInScreen(w, name)
  BY DEF SoftResetScreen, OtherScreen
<1>2. Base(u) /\ ScreenOK(old)
  BY DEF Good, Sound, Fit, Base
<1> HIDE DEF attrs
<1>3. Marked(old, s)
  BY <1>2, AttributesMarked
<1> HIDE DEF s
<1>4. Base(w) /\ Good(w)
  BY <1>2, <1>3, MarkedGood
<1> HIDE DEF w
<1>5. Good(SaveInScreen(w, name))
  BY <1>4, SavedInScreen
<1> QED BY <1>1, <1>5

LEMMA NoRegionGood ==
  ASSUME NEW u, Good(u)
  PROVE  Good(setVTScrollRegion(u, Null, Null))
<1> DEFINE v == setVTScrollRegion(u, Null, Null)
<1>1. /\ Fit(v) /\ RegionOK(v) /\ v.current = u.current /\ v.screens = u.screens
      /\ v.width = u.width
  BY NoRegionFit DEF Good, Sound
<1> HIDE DEF v
<1>2. OnIt(Screen(u)) /\ Column(u) < u.width
  BY DEF Good, Sound
<1>3. Good(v)
  BY <1>1, <1>2 DEF Good, Sound, Screen, Column
<1> QED BY <1>3 DEF v

LEMMA SoftResetGood ==
  ASSUME NEW u, Good(u)
  PROVE  Good(softReset(u))
<1> DEFINE blinking == {"cursorBlink", "cursorVisible"} \subseteq u.options
           options == DefaultOptions \cup IF blinking THEN {"cursorBlink"} ELSE {}
           w == ResetTerminal(u, options)
           first == SoftResetScreen(w, "primary")
           second == SoftResetScreen(first, "alternate")
<1>1. softReset(u) = setVTScrollRegion(second, Null, Null)
  BY DEF softReset
<1> HIDE DEF options
<1>2. Good(w) /\ "primary" \in Names /\ "alternate" \in Names
  BY ResetTerminalGood DEF Names
<1> HIDE DEF w
<1>3. Good(first)
  BY <1>2, SoftResetScreenGood
<1> HIDE DEF first
<1>4. Good(second)
  BY <1>2, <1>3, SoftResetScreenGood
<1> HIDE DEF second
<1> QED BY <1>1, <1>4, NoRegionGood

LEMMA ResetScreenGood ==
  ASSUME NEW u, Good(u), NEW name \in Names
  PROVE  Good(ResetScreen(u, name))
<1> DEFINE old == u.screens[name]
           attrs == ResetAttributes(old.textAttributes)
           q == [old EXCEPT !.textAttributes = attrs]
           s == clearHome(q)
           w == OtherScreen(u, name, s)
<1>1. ResetScreen(u, name) = SaveInScreen(w, name)
  BY DEF ResetScreen, OtherScreen
<1>2. /\ Base(u) /\ ScreenOK(old) /\ Fit(u) /\ u.width > 0 /\ u.height > 0 /\ RegionOK(u)
      /\ Height(Screen(u)) = u.height /\ Screen(u).columnCount = u.width
      /\ OnIt(Screen(u)) /\ Column(u) < u.width
  BY DEF Good, Sound, Fit, Base
<1> HIDE DEF attrs
<1>3. Marked(old, q)
  BY <1>2, AttributesMarked
<1> HIDE DEF q
<1>4. /\ Like(q, s)
      /\ Height(q) > 0 /\ q.columnCount > 0 => OnIt(s) /\ s.column = 0
  BY <1>3, ClearHomeLike DEF Marked, Like, SameRows
<1> HIDE DEF s
<1>5. Like(old, s) /\ Height(q) = Height(old) /\ q.columnCount = old.columnCount
  BY <1>3, <1>4, LikeLike DEF Marked, Like, SameRows
<1>6. /\ Base(w) /\ Same(u, w) /\ w.screens[name] = s /\ Fit(w)
      /\ \A other \in Names : other # name => w.screens[other] = u.screens[other]
  BY <1>2, <1>5, ScreenChanged
<1> HIDE DEF w
<1>7. OnIt(Screen(w)) /\ Column(w) < w.width
  <2>1. CASE u.current = name
    <3>1. Screen(u) = old /\ Screen(w) = s /\ w.width = u.width
      BY <1>6, <2>1 DEF Screen, Same
    <3> QED BY <1>2, <1>4, <1>5, <3>1 DEF Column
  <2>2. CASE u.current # name
    <3>1. Screen(w) = Screen(u) /\ w.width = u.width
      BY <1>2, <1>6, <2>2 DEF Screen, Same, Base
    <3> QED BY <1>2, <3>1 DEF Column
  <2> QED BY <2>1, <2>2
<1>8. Good(w)
  BY <1>2, <1>6, <1>7, RegionSame DEF Good, Sound
<1>9. Good(SaveInScreen(w, name))
  BY <1>6, <1>8, SavedInScreen
<1> QED BY <1>1, <1>9

LEMMA ResetGood ==
  ASSUME NEW u, Good(u)
  PROVE  Good(reset(u))
<1> DEFINE stops == setDefaultTabStops(clearAllTabStops(u), 0)
           w == ResetTerminal(stops, DefaultOptions)
           first == ResetScreen(w, "primary")
           second == ResetScreen(first, "alternate")
<1>1. reset(u) = setVTScrollRegion(second, Null, Null)
  BY DEF reset, ResetStops
<1>2. Good(stops)
  BY ClearStopGood, DefaultStopsGood
<1> HIDE DEF stops
<1>3. Good(w) /\ "primary" \in Names /\ "alternate" \in Names
  BY <1>2, ResetTerminalGood DEF Names
<1> HIDE DEF w
<1>4. Good(first)
  BY <1>3, ResetScreenGood
<1> HIDE DEF first
<1>5. Good(second)
  BY <1>3, <1>4, ResetScreenGood
<1> HIDE DEF second
<1> QED BY <1>1, <1>5, NoRegionGood

----------------------------------------------------------------------------
\* The terminal just made.

LEMMA NewScreenOK == ScreenOK(NewScreen) /\ NewScreen.rowsArray = <<>> /\ NewScreen.columnCount = 0
<1>1. RowsOK(<<>>) /\ Len(<<>>) = 0
  BY EmptySequence DEF RowsOK
<1> QED BY <1>1 DEF NewScreen, ScreenOK, ScreenFields, NodeOK

LEMMA NewParserOK == ParserOK(NewParser) /\ NewParser.buf = <<>>
<1>1. IsSeq(<<>>) /\ ArgsOK(<<>>)
  BY EmptySequence DEF ArgsOK
<1> QED BY <1>1 DEF NewParser, ParserOK, ParserFields, ParseFunctions

LEMMA NewTerminalGood ==
  ASSUME NEW columnCount \in Nat, columnCount > 0, NEW rowCount \in Nat, rowCount > 0
  PROVE  LET v == NewTerminal(columnCount, rowCount, NewParser)
         IN  Good(v) /\ v.vt.buf = <<>>
<1> DEFINE u == [screens |-> [primary |-> NewScreen, alternate |-> NewScreen],
                 current |-> "primary",
                 scrollback |-> <<>>, width |-> 0, height |-> 0, top |-> Null, bottom |-> Null,
                 tabStops |-> {}, defaultTabStops |-> TRUE, options |-> DefaultOptions,
                 charsets |-> NewCharsets, encoding |-> "utf-8", colors |-> NewColors,
                 title |-> <<>>, cursorShape |-> "BLOCK", vt |-> NewParser]
           wide == realizeWidth_(u, columnCount)
           sized == realizeHeight_(wide, rowCount)
           v == setDefaultTabStops(sized, 0)
<1>1. NewTerminal(columnCount, rowCount, NewParser) = v
  BY DEF NewTerminal, realizeSize_
<1>2. /\ DOMAIN u = TerminalFields /\ DOMAIN u.screens = Names /\ u.current = "primary"
      /\ \A name \in Names : u.screens[name] = NewScreen
      /\ u.scrollback = <<>> /\ u.width = 0 /\ u.height = 0 /\ u.tabStops = {}
      /\ u.colors = NewColors /\ u.vt = NewParser
  <2> HIDE DEF NewScreen, NewColors, NewParser, NewCharsets, DefaultOptions
  <2> QED BY DEF TerminalFields, Names
<1> HIDE DEF u
<1>3. u.current \in Names /\ Screen(u) = NewScreen
  BY <1>2 DEF Names, Screen
<1>4. ColorsOK(NewColors) /\ NewColors.css.palette = NoColors
      /\ \A name \in Names : NewColors.overrides[name] = NoColors
  <2> HIDE DEF DefaultForeground, DefaultBackground, DefaultCursor, NoColors
  <2> QED BY DEF NewColors, ColorsOK, Names
<1>5. DOMAIN NoColors = {}
  BY DEF NoColors
<1>6. ShowsPalette(u)
  BY <1>2, <1>3, <1>4, <1>5 DEF ShowsPalette, Overrides
<1>7. RowsOK(<<>>) /\ NumberedFrom(<<>>, 0) /\ Len(<<>>) = 0
  BY EmptySequence DEF RowsOK, NumberedFrom
<1>8. Numbered(u)
  BY <1>2, <1>3, <1>7, NewScreenOK DEF Numbered
<1>9. Base(u)
  BY <1>2, <1>3, <1>4, <1>6, <1>7, <1>8, NewScreenOK, NewParserOK DEF Base
<1>10. /\ Base(wide) /\ Elsewhere(u, wide) /\ wide.width = columnCount
       /\ Screen(wide).columnCount = columnCount /\ wide.height = 0
       /\ SameRows(Screen(u), Screen(wide))
  BY <1>2, <1>3, <1>9, NewScreenOK, WidthBase
<1> HIDE DEF wide
<1>11. Height(Screen(wide)) = 0
  BY <1>3, <1>7, <1>10, NewScreenOK DEF SameRows, Height
<1>12. Good(sized) /\ Elsewhere(wide, sized)
  BY <1>10, <1>11, HeightFit
<1> HIDE DEF sized
<1>13. Good(v)
  BY <1>12, DefaultStopsGood
<1>14. v.vt = sized.vt
  <2>1. DOMAIN sized = TerminalFields
    BY <1>12, GoodStops
  <2> QED BY <2>1 DEF setDefaultTabStops, TerminalFields
<1> HIDE DEF v
<1>15. v.vt.buf = <<>>
  BY <1>2, <1>10, <1>12, <1>14, NewParserOK DEF Elsewhere
<1> QED BY <1>1, <1>13, <1>15

----------------------------------------------------------------------------
\* The state of the parser.

Parsing(u, parser) == [u EXCEPT !.vt = parser]

LEMMA ParsingGood ==
  ASSUME NEW u, Good(u), NEW parser, ParserOK(parser)
  PROVE  Good(Parsing(u, parser)) /\ Parsing(u, parser).vt = parser
<1> DEFINE v == Parsing(u, parser)
<1>1. Aside(u, v) /\ v.vt = parser
  BY DEF Parsing, Good, Sound, Fit, Base, TerminalFields, Aside
<1> HIDE DEF v
<1>2. Good(v)
  BY <1>1, AsideGood
<1> QED BY <1>1, <1>2 DEF v

LEMMA GoodParser ==
  ASSUME NEW u, Good(u)
  PROVE  /\ ParserOK(u.vt) /\ DOMAIN u.vt = ParserFields /\ u.vt.func \in ParseFunctions
         /\ IsSeq(u.vt.buf) /\ IsSeq(u.vt.string) /\ ArgsOK(u.vt.args)
  BY DEF Good, Sound, Fit, Base, ParserOK

LEMMA NoArgsOK == ArgsOK(<<>>) /\ IsSeq(<<>>)
  BY EmptySequence DEF ArgsOK

LEMMA ResetFunctionGood ==
  ASSUME NEW u, Good(u)
  PROVE  Good(resetParseFunction(u)) /\ resetParseFunction(u).vt.buf = u.vt.buf
<1> DEFINE parser == [u.vt EXCEPT !.func = "unknown", !.code = ""]
<1>1. resetParseFunction(u) = Parsing(u, parser)
  BY DEF resetParseFunction, Parsing
<1>2. ParserOK(parser)
  BY GoodParser, NoArgsOK DEF ParserOK, ParserFields, ParseFunctions
<1> HIDE DEF parser
<1>3. Good(Parsing(u, parser)) /\ Parsing(u, parser).vt = parser
  BY <1>2, ParsingGood
<1> QED BY <1>1, <1>3, GoodParser DEF parser, ParserFields

LEMMA ResetBufGood ==
  ASSUME NEW u, Good(u), NEW buf, IsSeq(buf)
  PROVE  Good(resetBuf(u, buf)) /\ resetBuf(u, buf).vt.buf = buf
<1> DEFINE parser == [u.vt EXCEPT !.buf = buf]
<1>1. resetBuf(u, buf) = Parsing(u, parser)
  BY DEF resetBuf, Parsing
<1>2. ParserOK(parser)
  BY GoodParser, NoArgsOK DEF ParserOK, ParserFields, ParseFunctions
<1> HIDE DEF parser
<1>3. Good(Parsing(u, parser)) /\ Parsing(u, parser).vt = parser
  BY <1>2, ParsingGood
<1> QED BY <1>1, <1>3, GoodParser DEF parser, ParserFields

LEMMA ResetArgumentsGood ==
  ASSUME NEW u, Good(u)
  PROVE  Good(resetArguments(u))
<1> DEFINE parser == [u.vt EXCEPT !.args = <<>>, !.started = FALSE, !.string = <<>>, !.late = FALSE]
<1>1. resetArguments(u) = Parsing(u, parser)
  BY DEF resetArguments, Parsing
<1>2. ParserOK(parser)
  BY GoodParser, NoArgsOK DEF ParserOK, ParserFields, ParseFunctions
<1> HIDE DEF parser
<1>3. Good(Parsing(u, parser)) /\ Parsing(u, parser).vt = parser
  BY <1>2, ParsingGood
<1> QED BY <1>1, <1>3

LEMMA ResetStateGood ==
  ASSUME NEW u, Good(u), NEW buf, IsSeq(buf)
  PROVE  Good(resetParseState(u, buf))
<1>1. Good(resetParseFunction(u))
  BY ResetFunctionGood
<1>2. Good(resetBuf(resetParseFunction(u), buf))
  BY <1>1, ResetBufGood
<1> QED BY <1>2, ResetArgumentsGood DEF resetParseState

LEMMA AdvanceGood ==
  ASSUME NEW u, Good(u), u.vt.buf # <<>>
  PROVE  Good(advance(u))
<1> DEFINE rest == Tail(u.vt.buf)
           parser == [u.vt EXCEPT !.buf = rest]
<1>1. advance(u) = Parsing(u, parser)
  BY DEF advance, Parsing
<1>2. IsSeq(rest)
  BY GoodParser, TailSeq
<1> HIDE DEF rest
<1>3. ParserOK(parser)
  BY <1>2, GoodParser DEF ParserOK, ParserFields
<1> HIDE DEF parser
<1> QED BY <1>1, <1>3, ParsingGood

\* Only settings of the parser that the theorems do not speak of, or its
\* function, are changed.
LEMMA ParserChanged ==
  ASSUME NEW u, Good(u), NEW parser, DOMAIN parser = ParserFields,
         parser.func \in ParseFunctions, parser.buf = u.vt.buf, parser.string = u.vt.string,
         parser.args = u.vt.args
  PROVE  Good(Parsing(u, parser)) /\ Parsing(u, parser).vt.buf = u.vt.buf
<1>1. ParserOK(parser)
  BY GoodParser DEF ParserOK
<1> QED BY <1>1, ParsingGood

LEMMA AwaitGood ==
  ASSUME NEW u, Good(u), NEW ch
  PROVE  Good(Await(u, ch)) /\ Await(u, ch).vt.buf = u.vt.buf
<1> DEFINE parser == [u.vt EXCEPT !.func = "next", !.code = ch]
<1>1. Await(u, ch) = Parsing(u, parser)
  BY DEF Await, Parsing
<1>2. /\ DOMAIN parser = ParserFields /\ parser.func \in ParseFunctions
      /\ parser.buf = u.vt.buf /\ parser.string = u.vt.string /\ parser.args = u.vt.args
  BY GoodParser DEF ParserFields, ParseFunctions
<1> HIDE DEF parser
<1>3. Good(Parsing(u, parser)) /\ Parsing(u, parser).vt.buf = u.vt.buf
  BY <1>2, ParserChanged
<1> QED BY <1>1, <1>3

LEMMA SetModeGood ==
  ASSUME NEW u, Good(u), NEW mode, NEW on
  PROVE  Good(setMode(u, mode, on)) /\ setMode(u, mode, on).vt.buf = u.vt.buf
<1> DEFINE modes == IF on THEN u.vt.modes \cup {mode} ELSE u.vt.modes \ {mode}
           parser == [u.vt EXCEPT !.modes = modes]
<1>1. setMode(u, mode, on) = Parsing(u, parser)
  BY DEF setMode, Parsing
<1> HIDE DEF modes
<1>2. /\ DOMAIN parser = ParserFields /\ parser.func \in ParseFunctions
      /\ parser.buf = u.vt.buf /\ parser.string = u.vt.string /\ parser.args = u.vt.args
  BY GoodParser DEF ParserFields
<1> HIDE DEF parser
<1>3. Good(Parsing(u, parser)) /\ Parsing(u, parser).vt.buf = u.vt.buf
  BY <1>2, ParserChanged
<1> QED BY <1>1, <1>3

LEMMA ResetParserGood ==
  ASSUME NEW u, Good(u)
  PROVE  Good(ResetParser(u))
<1> DEFINE parser == [u.vt EXCEPT !.mouseReport = "disabled", !.mouseCoordinates = "X10",
                                  !.dragged = <<>>]
           w == Parsing(u, parser)
<1>1. ResetParser(u) = [w EXCEPT !.charsets = NewCharsets]
  <2>1. DOMAIN u = TerminalFields /\ DOMAIN u.vt = ParserFields
    BY GoodParser DEF Good, Sound, Fit, Base
  <2> QED BY <2>1 DEF ResetParser, Parsing, TerminalFields, ParserFields
<1>2. /\ DOMAIN parser = ParserFields /\ parser.func \in ParseFunctions
      /\ parser.buf = u.vt.buf /\ parser.string = u.vt.string /\ parser.args = u.vt.args
  BY GoodParser DEF ParserFields
<1> HIDE DEF parser
<1>3. Good(w)
  BY <1>2, ParserChanged
<1> HIDE DEF w
<1> QED BY <1>1, <1>3, CharsetsGood

LEMMA StartGood ==
  ASSUME NEW u, Good(u)
  PROVE  /\ Good(StartCSI(u)) /\ Good(StartDCS(u))
         /\ \A func \in StringFunctions : Good(StartString(u, func))
<1> DEFINE w == resetArguments(u)
           csi == [w.vt EXCEPT !.leading = <<>>, !.trailing = <<>>, !.func = "CSI"]
           dcs == [w.vt EXCEPT !.leading = <<>>, !.trailing = <<>>, !.func = "DCS"]
<1>0. StartCSI(u) = Parsing(w, csi)
  BY DEF StartCSI, Parsing
<1>1. StartDCS(u) = Parsing(w, dcs)
  <2>1. StartDCS(u) = [StartCSI(u) EXCEPT !.vt.func = "DCS"]
    BY DEF StartDCS
  <2>2. StartDCS(u) = [Parsing(w, csi) EXCEPT !.vt.func = "DCS"]
    BY <1>0, <2>1
  <2> HIDE DEF w
  <2> QED BY <2>2 DEF Parsing
<1>2. Good(w)
  BY ResetArgumentsGood
<1> HIDE DEF w
<1>3. /\ DOMAIN csi = ParserFields /\ csi.func \in ParseFunctions
      /\ csi.buf = w.vt.buf /\ csi.string = w.vt.string /\ csi.args = w.vt.args
  BY <1>2, GoodParser DEF ParserFields, ParseFunctions
<1>4. /\ DOMAIN dcs = ParserFields /\ dcs.func \in ParseFunctions
      /\ dcs.buf = w.vt.buf /\ dcs.string = w.vt.string /\ dcs.args = w.vt.args
  BY <1>2, GoodParser DEF ParserFields, ParseFunctions
<1> HIDE DEF csi, dcs
<1>5. Good(Parsing(w, csi)) /\ Good(Parsing(w, dcs))
  BY <1>2, <1>3, <1>4, ParserChanged
<1>6. ASSUME NEW func \in StringFunctions PROVE Good(StartString(u, func))
  <2> DEFINE parser == [w.vt EXCEPT !.func = func]
  <2>1. StartString(u, func) = Parsing(w, parser)
    BY DEF StartString, Parsing, w
  <2>2. /\ DOMAIN parser = ParserFields /\ parser.func \in ParseFunctions
        /\ parser.buf = w.vt.buf /\ parser.string = w.vt.string /\ parser.args = w.vt.args
    BY <1>2, <1>6, GoodParser DEF ParserFields, ParseFunctions
  <2> HIDE DEF parser
  <2> QED BY <1>2, <2>1, <2>2, ParserChanged
<1> QED BY <1>0, <1>1, <1>5, <1>6

----------------------------------------------------------------------------
\* Texts.

LEMMA Tuples ==
  /\ \A a : IsSeq(<<a>>)
  /\ \A a, b : IsSeq(<<a, b>>)
  /\ \A a, b, c : IsSeq(<<a, b, c>>)
  /\ \A a, b, c, d : IsSeq(<<a, b, c, d>>)
  /\ \A a, b, c, d, e : IsSeq(<<a, b, c, d, e>>)
<1>1. \A a : IsSeq(<<a>>)
  BY DEF IsSeq
<1>2. \A a, b : IsSeq(<<a, b>>)
  BY DEF IsSeq
<1>3. \A a, b, c : IsSeq(<<a, b, c>>)
  BY DEF IsSeq
<1>4. \A a, b, c, d : IsSeq(<<a, b, c, d>>)
  BY DEF IsSeq
<1>5. \A a, b, c, d, e : IsSeq(<<a, b, c, d, e>>)
  BY DEF IsSeq
<1> QED BY <1>1, <1>2, <1>3, <1>4, <1>5

LEMMA LongTuples ==
  /\ \A a, b, c, d, e, f, g, h, i : IsSeq(<<a, b, c, d, e, f, g, h, i>>)
  /\ \A a, b, c, d, e, f, g, h, i, j : IsSeq(<<a, b, c, d, e, f, g, h, i, j>>)
<1>1. \A a, b, c, d, e, f, g, h, i : IsSeq(<<a, b, c, d, e, f, g, h, i>>)
  BY DEF IsSeq
<1>2. \A a, b, c, d, e, f, g, h, i, j : IsSeq(<<a, b, c, d, e, f, g, h, i, j>>)
  BY DEF IsSeq
<1> QED BY <1>1, <1>2

LEMMA ConcatSeq ==
  ASSUME NEW s, IsSeq(s), NEW r, IsSeq(r)
  PROVE  IsSeq(s \o r)
<1>1. IsSeq(Joined(s, r))
  BY JoinedSeq
<1> QED BY <1>1 DEF Joined

LEMMA AppendSeq ==
  ASSUME NEW s, IsSeq(s), NEW x
  PROVE  IsSeq(Append(s, x))
<1>1. IsSeq(Added(s, x))
  BY AddedSeq
<1> QED BY <1>1 DEF Added

LEMMA SubSeqSeq ==
  ASSUME NEW s, IsSeq(s), NEW m \in Int, NEW n \in Int, 1 <= m, n <= Len(s)
  PROVE  IsSeq(SubSeq(s, m, n))
<1>1. IsSeq(Part(s, m, n))
  BY PartSeq
<1> QED BY <1>1 DEF Part

\* The digits of a number: those of its tenth part and one more.
LEMMA DecimalSteps ==
  ASSUME NEW number \in Nat
  PROVE  \E f : /\ Decimal(number) = f[number]
                /\ \A m \in 0 .. number :
                     f[m] = IF m < 10 THEN <<Digits[m + 1]>>
                            ELSE Append(f[m \div 10], Digits[(m % 10) + 1])
<1> DEFINE Step(f, m) == IF m < 10 THEN <<Digits[m + 1]>>
                         ELSE Append(f[m \div 10], Digits[(m % 10) + 1])
           Upto(n, f) == f = [m \in 0 .. n |-> Step(f, m)]
           S == {n \in Nat : \E f : Upto(n, f)}
<1>1. 0 \in S
  <2> DEFINE f == [m \in 0 .. 0 |-> <<Digits[m + 1]>>]
  <2>1. Upto(0, f)
    OBVIOUS
  <2> QED BY <2>1
<1>2. ASSUME NEW n \in Nat, n \in S PROVE n + 1 \in S
  <2>1. PICK f : Upto(n, f)
    BY <1>2
  <2> DEFINE g == [m \in 0 .. n + 1 |-> IF m = n + 1 THEN Step(f, n + 1) ELSE f[m]]
  <2>2. ASSUME NEW m \in 0 .. n + 1 PROVE g[m] = Step(g, m)
    <3>1. ~(m < 10) => g[m \div 10] = f[m \div 10]
      <4>1. ~(m < 10) => m \div 10 \in 0 .. n
        OBVIOUS
      <4> QED BY <4>1
    <3>2. Step(g, m) = Step(f, m)
      <4> HIDE DEF g
      <4> QED BY <3>1
    <3>3. CASE m = n + 1
      <4>1. g[m] = Step(f, m)
        BY <3>3
      <4> HIDE DEF g, Step
      <4> QED BY <3>2, <4>1
    <3>4. CASE m # n + 1
      <4>1. m \in 0 .. n /\ g[m] = f[m]
        BY <3>4
      <4> HIDE DEF g, Step
      <4>2. f[m] = Step(f, m)
        BY <2>1, <4>1
      <4> QED BY <3>2, <4>1, <4>2
    <3> QED BY <3>3, <3>4
  <2> HIDE DEF Step
  <2>3. Upto(n + 1, g)
    BY <2>2
  <2>4. n + 1 \in Nat
    OBVIOUS
  <2> HIDE DEF g, Upto
  <2> QED BY <2>3, <2>4
<1>3. number \in S
  <2> HIDE DEF S
  <2> QED BY <1>1, <1>2, SetInduction
<1> DEFINE taken == CHOOSE f : Upto(number, f)
<1>4. Upto(number, taken)
  BY <1>3
<1>5. Decimal(number) = taken[number]
  BY DEF Decimal
<1> HIDE DEF taken
<1>6. ASSUME NEW m \in 0 .. number PROVE taken[m] = Step(taken, m)
  <2> HIDE DEF Step
  <2> QED BY <1>4
<1> QED BY <1>5, <1>6

LEMMA DecimalSeq ==
  ASSUME NEW number \in Nat
  PROVE  IsSeq(Decimal(number))
<1>1. PICK f : /\ Decimal(number) = f[number]
               /\ \A m \in 0 .. number :
                    f[m] = IF m < 10 THEN <<Digits[m + 1]>>
                           ELSE Append(f[m \div 10], Digits[(m % 10) + 1])
  BY DecimalSteps
<1> DEFINE S == {n \in Nat : \A m \in 0 .. n : m <= number => IsSeq(f[m])}
<1>2. ASSUME NEW m \in 0 .. number, m >= 10 => IsSeq(f[m \div 10])
      PROVE  IsSeq(f[m])
  <2>1. CASE m < 10
    <3>1. f[m] = <<Digits[m + 1]>>
      BY <1>1, <2>1
    <3> QED BY <3>1, Tuples
  <2>2. CASE m >= 10
    <3>0. ~(m < 10)
      BY <2>2
    <3>1. f[m] = Append(f[m \div 10], Digits[(m % 10) + 1])
      BY <1>1, <3>0, Zenon
    <3>2. IsSeq(Append(f[m \div 10], Digits[(m % 10) + 1]))
      BY <1>2, <2>2, AppendSeq
    <3> QED BY <3>1, <3>2
  <2> QED BY <2>1, <2>2
<1>3. 0 \in S
  BY <1>2
<1>4. ASSUME NEW n \in Nat, n \in S PROVE n + 1 \in S
  <2>1. ASSUME n + 1 <= number PROVE IsSeq(f[n + 1])
    <3>1. n + 1 >= 10 => (n + 1) \div 10 \in 0 .. n /\ (n + 1) \div 10 <= number
      BY <2>1
    <3>2. n + 1 >= 10 => IsSeq(f[(n + 1) \div 10])
      BY <1>4, <3>1
    <3> QED BY <1>2, <2>1, <3>2
  <2>2. \A m \in 0 .. n + 1 : m \in 0 .. n \/ m = n + 1
    OBVIOUS
  <2> QED BY <1>4, <2>1, <2>2
<1>5. number \in S
  <2> HIDE DEF S
  <2> QED BY <1>3, <1>4, SetInduction
<1> QED BY <1>1, <1>5

\* A pasted text filtered one character after another.
LEMMA FilteredSteps ==
  ASSUME NEW data, IsSeq(data)
  PROVE  \E f : /\ f[0] = <<>>
                /\ \A i \in 1 .. Len(data) : f[i] = KeepNext(f[i - 1], data[i])
                /\ Filtered(data) = f[Len(data)]
<1> DEFINE N == Len(data)
           Step(f, i) == IF i = 0 THEN <<>> ELSE KeepNext(f[i - 1], data[i])
           Upto(n, f) == f = [i \in 0 .. n |-> Step(f, i)]
           S == {n \in Nat : \E f : Upto(n, f)}
<1>0. N \in Nat
  BY SeqDomain
<1>1. 0 \in S
  <2> DEFINE f == [i \in 0 .. 0 |-> <<>>]
  <2>1. Upto(0, f)
    OBVIOUS
  <2> QED BY <2>1
<1>2. ASSUME NEW n \in Nat, n \in S PROVE n + 1 \in S
  <2>1. PICK f : Upto(n, f)
    BY <1>2
  <2> DEFINE g == [i \in 0 .. n + 1 |-> IF i = n + 1 THEN Step(f, n + 1) ELSE f[i]]
  <2>2. ASSUME NEW i \in 0 .. n + 1 PROVE g[i] = Step(g, i)
    <3>1. i # 0 => i - 1 \in 0 .. n /\ g[i - 1] = f[i - 1]
      OBVIOUS
    <3>2. CASE i = n + 1
      <4>1. g[i] = Step(f, i)
        BY <3>2
      <4>2. i # 0
        BY <3>2
      <4> HIDE DEF g
      <4> QED BY <4>1, <4>2, <3>1
    <3>3. CASE i # n + 1
      <4>1. i \in 0 .. n /\ g[i] = f[i]
        BY <3>3
      <4>2. f[i] = Step(f, i)
        BY <2>1, <4>1
      <4> HIDE DEF g
      <4> QED BY <4>1, <4>2, <3>1
    <3> QED BY <3>2, <3>3
  <2> HIDE DEF Step
  <2>3. Upto(n + 1, g)
    BY <2>2
  <2>4. n + 1 \in Nat
    OBVIOUS
  <2> HIDE DEF g, Upto
  <2> QED BY <2>3, <2>4
<1>3. N \in S
  <2> HIDE DEF S, N
  <2> QED BY <1>0, <1>1, <1>2, SetInduction
<1> DEFINE taken == CHOOSE f : Upto(N, f)
<1>4. Upto(N, taken)
  BY <1>3
<1>5. Filtered(data) = taken[Len(data)]
  BY DEF Filtered, Iterate
<1> HIDE DEF taken
<1>6. taken[0] = <<>>
  BY <1>0, <1>4
<1>7. ASSUME NEW i \in 1 .. N PROVE taken[i] = KeepNext(taken[i - 1], data[i])
  <2>1. i # 0 /\ i \in 0 .. N
    BY <1>0
  <2> HIDE DEF N, Step
  <2>2. taken[i] = Step(taken, i)
    BY <1>4, <2>1
  <2> QED BY <2>1, <2>2 DEF Step
<1> QED BY <1>5, <1>6, <1>7

\* A text split one character after another.
LEMMA SplitSteps ==
  ASSUME NEW text, IsSeq(text), NEW separator
  PROVE  \E f : /\ f[0] = <<<<>>>>
                /\ \A i \in 1 .. Len(text) : f[i] = SplitNext(f[i - 1], text[i], separator)
                /\ Split(text, separator) = f[Len(text)]
<1> DEFINE N == Len(text)
           Step(f, i) == IF i = 0 THEN <<<<>>>> ELSE SplitNext(f[i - 1], text[i], separator)
           Upto(n, f) == f = [i \in 0 .. n |-> Step(f, i)]
           S == {n \in Nat : \E f : Upto(n, f)}
<1>0. N \in Nat
  BY SeqDomain
<1>1. 0 \in S
  <2> DEFINE f == [i \in 0 .. 0 |-> <<<<>>>>]
  <2>1. Upto(0, f)
    OBVIOUS
  <2> QED BY <2>1
<1>2. ASSUME NEW n \in Nat, n \in S PROVE n + 1 \in S
  <2>1. PICK f : Upto(n, f)
    BY <1>2
  <2> DEFINE g == [i \in 0 .. n + 1 |-> IF i = n + 1 THEN Step(f, n + 1) ELSE f[i]]
  <2>2. ASSUME NEW i \in 0 .. n + 1 PROVE g[i] = Step(g, i)
    <3>1. i # 0 => i - 1 \in 0 .. n /\ g[i - 1] = f[i - 1]
      OBVIOUS
    <3>2. CASE i = n + 1
      <4>1. g[i] = Step(f, i)
        BY <3>2
      <4>2. i # 0
        BY <3>2
      <4> HIDE DEF g
      <4> QED BY <4>1, <4>2, <3>1
    <3>3. CASE i # n + 1
      <4>1. i \in 0 .. n /\ g[i] = f[i]
        BY <3>3
      <4>2. f[i] = Step(f, i)
        BY <2>1, <4>1
      <4> HIDE DEF g
      <4> QED BY <4>1, <4>2, <3>1
    <3> QED BY <3>2, <3>3
  <2> HIDE DEF Step
  <2>3. Upto(n + 1, g)
    BY <2>2
  <2>4. n + 1 \in Nat
    OBVIOUS
  <2> HIDE DEF g, Upto
  <2> QED BY <2>3, <2>4
<1>3. N \in S
  <2> HIDE DEF S, N
  <2> QED BY <1>0, <1>1, <1>2, SetInduction
<1> DEFINE taken == CHOOSE f : Upto(N, f)
<1>4. Upto(N, taken)
  BY <1>3
<1>5. Split(text, separator) = taken[Len(text)]
  BY DEF Split
<1> HIDE DEF taken
<1>6. taken[0] = <<<<>>>>
  BY <1>0, <1>4
<1>7. ASSUME NEW i \in 1 .. N PROVE taken[i] = SplitNext(taken[i - 1], text[i], separator)
  <2>1. i # 0 /\ i \in 0 .. N
    BY <1>0
  <2> HIDE DEF N, Step
  <2>2. taken[i] = Step(taken, i)
    BY <1>4, <2>1
  <2> QED BY <2>1, <2>2 DEF Step
<1> QED BY <1>5, <1>6, <1>7

LEMMA FilteredSeq ==
  ASSUME NEW data, IsSeq(data)
  PROVE  IsSeq(Filtered(data))
<1>1. PICK f : /\ f[0] = <<>>
               /\ \A i \in 1 .. Len(data) : f[i] = KeepNext(f[i - 1], data[i])
               /\ Filtered(data) = f[Len(data)]
  BY FilteredSteps
<1>0. Len(data) \in Nat
  BY SeqDomain
<1> DEFINE S == {i \in Nat : i <= Len(data) => IsSeq(f[i])}
<1>2. 0 \in S
  BY <1>1, NoArgsOK
<1>3. ASSUME NEW i \in Nat, i \in S PROVE i + 1 \in S
  <2>1. ASSUME i + 1 <= Len(data) PROVE IsSeq(f[i + 1])
    <3> DEFINE j == i + 1
               old == f[i]
    <3>1. j \in 1 .. Len(data) /\ j - 1 = i /\ IsSeq(old)
      BY <1>0, <1>3, <2>1
    <3>2. f[j] = KeepNext(old, data[j])
      BY <1>1, <3>1
    <3> HIDE DEF j, old
    <3>3. IsSeq(Append(old, data[j]))
      BY <3>1, AppendSeq
    <3>4. IsSeq(KeepNext(old, data[j]))
      BY <3>1, <3>3, Zenon DEF KeepNext
    <3> QED BY <3>2, <3>4 DEF j
  <2> QED BY <2>1
<1>4. Len(data) \in S
  <2> HIDE DEF S
  <2> QED BY <1>0, <1>2, <1>3, SetInduction
<1> QED BY <1>0, <1>1, <1>4

LEMMA SplitNextOK ==
  ASSUME NEW parts, TextsOK(parts), Len(parts) > 0, NEW ch, NEW separator
  PROVE  /\ TextsOK(SplitNext(parts, ch, separator))
         /\ Len(SplitNext(parts, ch, separator)) > 0
<1>1. TextsOK(Added(parts, <<>>)) /\ Len(Added(parts, <<>>)) = Len(parts) + 1
  BY AddedText, NoArgsOK
<1>2. TextsOK(AddToLast(parts, ch)) /\ Len(AddToLast(parts, ch)) = Len(parts)
  BY AddToLastOK
<1>3. SplitNext(parts, ch, separator) = IF ch = separator THEN Added(parts, <<>>) ELSE AddToLast(parts, ch)
  BY DEF SplitNext, Added, AddToLast
<1>4. Len(parts) \in Nat
  BY SeqDomain DEF TextsOK
<1> QED BY <1>1, <1>2, <1>3, <1>4

LEMMA SplitOK ==
  ASSUME NEW text, IsSeq(text), NEW separator
  PROVE  TextsOK(Split(text, separator))
<1>1. PICK f : /\ f[0] = <<<<>>>>
               /\ \A i \in 1 .. Len(text) : f[i] = SplitNext(f[i - 1], text[i], separator)
               /\ Split(text, separator) = f[Len(text)]
  BY SplitSteps
<1>0. Len(text) \in Nat
  BY SeqDomain
<1> DEFINE S == {i \in Nat : i <= Len(text) => TextsOK(f[i]) /\ Len(f[i]) > 0}
<1>2. 0 \in S
  <2>1. IsSeq(<<<<>>>>) /\ Len(<<<<>>>>) = 1 /\ <<<<>>>>[1] = <<>>
    BY Tuples
  <2>2. TextsOK(<<<<>>>>)
    BY <2>1, NoArgsOK DEF TextsOK
  <2>3. TextsOK(f[0])
    BY <1>1, <2>2, Zenon
  <2>4. Len(f[0]) = 1
    BY <1>1, <2>1, Zenon
  <2> QED BY <2>3, <2>4
<1>3. ASSUME NEW i \in Nat, i \in S PROVE i + 1 \in S
  <2>1. ASSUME i + 1 <= Len(text) PROVE TextsOK(f[i + 1]) /\ Len(f[i + 1]) > 0
    <3> DEFINE j == i + 1
               old == f[i]
    <3>1. j \in 1 .. Len(text) /\ j - 1 = i /\ TextsOK(old) /\ Len(old) > 0
      BY <1>0, <1>3, <2>1
    <3>2. f[j] = SplitNext(old, text[j], separator)
      BY <1>1, <3>1
    <3> HIDE DEF j, old
    <3> QED BY <3>1, <3>2, SplitNextOK DEF j
  <2> QED BY <2>1
<1>4. Len(text) \in S
  <2> HIDE DEF S
  <2> QED BY <1>0, <1>2, <1>3, SetInduction
<1> QED BY <1>0, <1>1, <1>4

----------------------------------------------------------------------------
\* Arguments.

LEMMA ArgsIn ==
  ASSUME NEW args, ArgsOK(args), NEW i \in 1 .. Len(args)
  PROVE  /\ ArgOK(args[i]) /\ Len(args[i]) \in Nat /\ Len(args[i]) > 0
         /\ \A j \in 1 .. Len(args[i]) : args[i][j] \in Int /\ args[i][j] >= -1
         /\ args[i][1] \in Int /\ args[i][1] >= -1
<1>1. ArgOK(args[i])
  BY DEF ArgsOK
<1>2. IsSeq(args[i]) /\ Len(args[i]) > 0
  BY <1>1 DEF ArgOK
<1>3. Len(args[i]) \in Nat
  BY <1>2, SeqDomain
<1>4. 1 \in 1 .. Len(args[i])
  BY <1>2, <1>3
<1> QED BY <1>1, <1>2, <1>3, <1>4 DEF ArgOK

LEMMA ArgsLength ==
  ASSUME NEW args, ArgsOK(args)
  PROVE  IsSeq(args) /\ Len(args) \in Nat /\ (args = <<>> <=> Len(args) = 0)
  BY SeqDomain DEF ArgsOK

LEMMA AddedNumber ==
  ASSUME NEW s, IsSeq(s), \A i \in 1 .. Len(s) : s[i] \in Int /\ s[i] >= -1,
         NEW n \in Int, n >= -1
  PROVE  ArgOK(Append(s, n))
<1> DEFINE r == Added(s, n)
<1>1. /\ IsSeq(r) /\ Len(r) = Len(s) + 1 /\ r[Len(s) + 1] = n
      /\ \A i \in 1 .. Len(s) : r[i] = s[i]
  BY AddedSeq
<1>2. Len(s) \in Nat
  BY SeqDomain
<1> HIDE DEF r
<1>3. ArgOK(r)
  BY <1>1, <1>2 DEF ArgOK
<1> QED BY <1>3 DEF r, Added

LEMMA AddedArg ==
  ASSUME NEW args, ArgsOK(args), NEW arg, ArgOK(arg)
  PROVE  ArgsOK(Append(args, arg))
<1> DEFINE r == Added(args, arg)
<1>0. IsSeq(args) /\ Len(args) \in Nat
  BY ArgsLength
<1>1. /\ IsSeq(r) /\ Len(r) = Len(args) + 1 /\ r[Len(args) + 1] = arg
      /\ \A i \in 1 .. Len(args) : r[i] = args[i]
  BY <1>0, AddedSeq
<1> HIDE DEF r
<1>3. ArgsOK(r)
  BY <1>0, <1>1 DEF ArgsOK
<1> QED BY <1>3 DEF r, Added

LEMMA FrontArgs ==
  ASSUME NEW args, ArgsOK(args), args # <<>>
  PROVE  ArgsOK(Front(args)) /\ ArgOK(Last(args))
<1>1. IsSeq(args) /\ Len(args) \in Nat /\ Len(args) > 0
  BY ArgsLength
<1>2. /\ IsSeq(Front(args)) /\ Len(Front(args)) = Len(args) - 1
      /\ \A i \in 1 .. Len(args) - 1 : Front(args)[i] = args[i]
  BY <1>1, FrontSeq
<1>3. ArgsOK(Front(args))
  <2>1. ASSUME NEW i \in 1 .. Len(Front(args)) PROVE ArgOK(Front(args)[i])
    <3>1. i \in 1 .. Len(args) - 1 /\ i \in 1 .. Len(args)
      BY <1>1, <1>2, <2>1
    <3>2. Front(args)[i] = args[i]
      BY <1>2, <3>1
    <3> QED BY <3>1, <3>2 DEF ArgsOK
  <2> QED BY <1>2, <2>1 DEF ArgsOK
<1>4. Len(args) \in 1 .. Len(args)
  BY <1>1
<1>5. Last(args) = args[Len(args)]
  BY DEF Last
<1>6. ArgOK(args[Len(args)])
  BY <1>4 DEF ArgsOK
<1> QED BY <1>3, <1>5, <1>6

LEMMA FrontNumbers ==
  ASSUME NEW arg, ArgOK(arg)
  PROVE  /\ IsSeq(Front(arg))
         /\ \A i \in 1 .. Len(Front(arg)) : Front(arg)[i] \in Int /\ Front(arg)[i] >= -1
         /\ Last(arg) \in Int /\ Last(arg) >= -1
<1>1. IsSeq(arg) /\ Len(arg) \in Nat /\ Len(arg) > 0
  BY SeqDomain DEF ArgOK
<1>2. /\ IsSeq(Front(arg)) /\ Len(Front(arg)) = Len(arg) - 1
      /\ \A i \in 1 .. Len(arg) - 1 : Front(arg)[i] = arg[i]
  BY <1>1, FrontSeq
<1>3. ASSUME NEW i \in 1 .. Len(Front(arg))
      PROVE  Front(arg)[i] \in Int /\ Front(arg)[i] >= -1
  <2>1. i \in 1 .. Len(arg) - 1 /\ i \in 1 .. Len(arg)
    BY <1>1, <1>2, <1>3
  <2>2. Front(arg)[i] = arg[i]
    BY <1>2, <2>1
  <2> QED BY <2>1, <2>2 DEF ArgOK
<1>4. Last(arg) \in Int /\ Last(arg) >= -1
  <2>1. Len(arg) \in 1 .. Len(arg)
    BY <1>1
  <2>2. Last(arg) = arg[Len(arg)]
    BY DEF Last
  <2> QED BY <2>1, <2>2 DEF ArgOK
<1> QED BY <1>2, <1>3, <1>4

LEMMA EmptyArgs ==
  /\ Empty \in Int /\ Empty >= -1
  /\ ArgOK(<<Empty>>) /\ ArgsOK(<<<<Empty>>>>) /\ ArgsOK(<<<<Empty, Empty>>>>)
<1>1. Empty \in Int /\ Empty >= -1
  BY DEF Empty
<1>2. ArgOK(<<Empty>>)
  <2>1. IsSeq(<<Empty>>) /\ Len(<<Empty>>) = 1 /\ <<Empty>>[1] = Empty
    BY Tuples
  <2> QED BY <1>1, <2>1 DEF ArgOK
<1>3. ArgOK(<<Empty, Empty>>)
  <2>1. /\ IsSeq(<<Empty, Empty>>) /\ Len(<<Empty, Empty>>) = 2
        /\ <<Empty, Empty>>[1] = Empty /\ <<Empty, Empty>>[2] = Empty
    BY Tuples
  <2> QED BY <1>1, <2>1 DEF ArgOK
<1>4. ASSUME NEW arg, ArgOK(arg) PROVE ArgsOK(<<arg>>)
  <2>1. IsSeq(<<arg>>) /\ Len(<<arg>>) = 1 /\ <<arg>>[1] = arg
    BY Tuples
  <2> QED BY <1>4, <2>1 DEF ArgsOK
<1> QED BY <1>1, <1>2, <1>3, <1>4

LEMMA AddDigitOK ==
  ASSUME NEW args, ArgsOK(args), NEW digit \in Nat
  PROVE  ArgsOK(AddDigit(args, digit))
<1> DEFINE first == IF args = <<>> THEN <<<<Empty>>>> ELSE args
           arg == Last(first)
           old == Last(arg)
           number == IF old = Empty THEN digit ELSE 10 * old + digit
<1>1. ArgsOK(first) /\ first # <<>>
  BY EmptyArgs
<1>2. AddDigit(args, digit) = Append(Front(first), Append(Front(arg), number))
  BY DEF AddDigit
<1> HIDE DEF first
<1>3. ArgsOK(Front(first)) /\ ArgOK(arg)
  BY <1>1, FrontArgs
<1> HIDE DEF arg
<1>4. /\ IsSeq(Front(arg)) /\ old \in Int /\ old >= -1
      /\ \A i \in 1 .. Len(Front(arg)) : Front(arg)[i] \in Int /\ Front(arg)[i] >= -1
  BY <1>3, FrontNumbers
<1> HIDE DEF old
<1>5. number \in Int /\ number >= -1
  BY <1>4 DEF Empty
<1> HIDE DEF number
<1>6. ArgOK(Append(Front(arg), number))
  BY <1>4, <1>5, AddedNumber
<1> QED BY <1>2, <1>3, <1>6, AddedArg

LEMMA AddSubargOK ==
  ASSUME NEW args, ArgsOK(args)
  PROVE  ArgsOK(AddSubarg(args))
<1>1. CASE args = <<>>
  BY <1>1, EmptyArgs DEF AddSubarg
<1>2. CASE args # <<>>
  <2> DEFINE arg == Last(args)
  <2>1. ArgsOK(Front(args)) /\ ArgOK(arg)
    BY <1>2, FrontArgs
  <2>2. AddSubarg(args) = Append(Front(args), Append(arg, Empty))
    BY <1>2 DEF AddSubarg
  <2> HIDE DEF arg
  <2>3. ArgOK(Append(arg, Empty))
    BY <2>1, EmptyArgs, AddedNumber DEF ArgOK
  <2> QED BY <2>1, <2>2, <2>3, AddedArg
<1> QED BY <1>1, <1>2

LEMMA AddArgOK ==
  ASSUME NEW args, ArgsOK(args)
  PROVE  ArgsOK(AddArg(args))
<1> DEFINE first == IF args = <<>> THEN <<<<Empty>>>> ELSE args
<1>1. ArgsOK(first) /\ ArgOK(<<Empty>>)
  BY EmptyArgs
<1>2. AddArg(args) = Append(first, <<Empty>>)
  BY DEF AddArg
<1> HIDE DEF first
<1> QED BY <1>1, <1>2, AddedArg

\* An argument is positive when its default is.
LEMMA IargPositive ==
  ASSUME NEW u, Good(u), NEW argnum \in Nat
  PROVE  iarg(u, argnum, 1) \in Nat /\ iarg(u, argnum, 1) > 0
<1>1. CASE argnum < Len(u.vt.args) /\ u.vt.args[argnum + 1][1] \notin {Empty, 0}
  <2>1. ArgsOK(u.vt.args)
    BY GoodParser
  <2>2. Len(u.vt.args) \in Nat
    BY <2>1, ArgsLength
  <2>3. argnum + 1 \in 1 .. Len(u.vt.args)
    BY <1>1, <2>2
  <2>4. u.vt.args[argnum + 1][1] \in Int /\ u.vt.args[argnum + 1][1] >= -1
    BY <2>1, <2>3, ArgsIn
  <2>5. iarg(u, argnum, 1) = u.vt.args[argnum + 1][1]
    BY <1>1 DEF iarg
  <2> QED BY <1>1, <2>4, <2>5 DEF Empty
<1>2. CASE ~(argnum < Len(u.vt.args) /\ u.vt.args[argnum + 1][1] \notin {Empty, 0})
  <2>1. iarg(u, argnum, 1) = 1
    BY <1>2 DEF iarg
  <2> QED BY <2>1
<1> QED BY <1>1, <1>2

----------------------------------------------------------------------------
\* CSI functions.

LEMMA SendGood ==
  ASSUME NEW u, Good(u), NEW answer, IsSeq(answer)
  PROVE  Good(sendString(u, answer))
  BY ResetBufGood DEF sendString

LEMMA CSISeq == IsSeq(CSI) /\ IsSeq(DeviceAttributes)
<1>1. IsSeq(CSI)
  BY Tuples DEF CSI
<1>2. IsSeq(<<"?", "1", ";", "2", "c">>)
  BY Tuples, Zenon
<1>3. IsSeq(CSI \o <<"?", "1", ";", "2", "c">>)
  BY <1>1, <1>2, ConcatSeq, Zenon
<1> QED BY <1>1, <1>3, Zenon DEF DeviceAttributes

LEMMA CursorReportSeq ==
  ASSUME NEW u, Good(u)
  PROVE  IsSeq(CursorReport(u))
<1>1. Row(u) + 1 \in Nat /\ Column(u) + 1 \in Nat
  BY SoundCursor DEF Good
<1> DEFINE row == Decimal(Row(u) + 1)
           column == Decimal(Column(u) + 1)
<1>2. IsSeq(row) /\ IsSeq(column)
  BY <1>1, DecimalSeq
<1>3. CursorReport(u) = CSI \o row \o <<";">> \o column \o <<"R">>
  BY Zenon DEF CursorReport
<1> HIDE DEF row, column
<1>4. IsSeq(<<";">>) /\ IsSeq(<<"R">>)
  BY Tuples, Zenon
<1>5. IsSeq(CSI \o row)
  BY <1>2, CSISeq, ConcatSeq, Zenon
<1>6. IsSeq(CSI \o row \o <<";">>)
  BY <1>4, <1>5, ConcatSeq, Zenon
<1>7. IsSeq(CSI \o row \o <<";">> \o column)
  BY <1>2, <1>6, ConcatSeq, Zenon
<1>8. IsSeq(CSI \o row \o <<";">> \o column \o <<"R">>)
  BY <1>4, <1>7, ConcatSeq, Zenon
<1> QED BY <1>3, <1>8, Zenon

LEMMA StatusGood ==
  ASSUME NEW u, Good(u)
  PROVE  Good(StatusReport(u))
<1>1. IsSeq(<<"ESC", "0", "n">>)
  BY Tuples
<1>2. Good(sendString(u, <<"ESC", "0", "n">>)) /\ Good(sendString(u, CursorReport(u)))
  BY <1>1, SendGood, CursorReportSeq
<1> QED BY <1>2, Zenon DEF StatusReport

LEMMA PrivateAnswer ==
  ASSUME NEW n \in {15, 25, 26, 53}
  PROVE  IsSeq(PrivateStatus(n))
<1> DEFINE printer == <<"?", "1", "1", "n">>
           keys == <<"?", "2", "1", "n">>
           board == <<"?", "1", "2", ";", "1", ";", "0", ";", "0", "n">>
           locator == <<"?", "5", "0", "n">>
<1>1. IsSeq(printer) /\ IsSeq(keys) /\ IsSeq(locator)
  BY Tuples, Zenon
<1>2. IsSeq(board)
  BY LongTuples, Zenon
<1>3. PrivateStatus(n) = CASE n = 15 -> printer [] n = 25 -> keys
                           [] n = 26 -> board [] n = 53 -> locator
  BY Zenon DEF PrivateStatus
<1> HIDE DEF printer, keys, board, locator
<1> QED BY <1>1, <1>2, <1>3

LEMMA PrivateStatusGood ==
  ASSUME NEW u, Good(u)
  PROVE  Good(PrivateStatusReport(u))
<1>1. CASE ArgIs(u, 6)
  <2>1. Good(sendString(u, CursorReport(u)))
    BY SendGood, CursorReportSeq
  <2>2. \A n \in {15, 25, 26, 53} : ~ArgIs(u, n)
    BY <1>1 DEF ArgIs
  <2>3. PrivateStatusReport(u) = sendString(u, CursorReport(u))
    BY <1>1, <2>2 DEF PrivateStatusReport
  <2> QED BY <2>1, <2>3
<1>2. CASE ~ArgIs(u, 6) /\ \E n \in {15, 25, 26, 53} : ArgIs(u, n)
  <2> DEFINE answer == PrivateStatus(u.vt.args[1][1])
  <2>1. u.vt.args[1][1] \in {15, 25, 26, 53}
    BY <1>2 DEF ArgIs
  <2>2. IsSeq(answer)
    BY <2>1, PrivateAnswer
  <2>3. PrivateStatusReport(u) = sendString(u, CSI \o answer)
    BY <1>2 DEF PrivateStatusReport
  <2> HIDE DEF answer
  <2>4. IsSeq(CSI \o answer)
    BY <2>2, CSISeq, ConcatSeq
  <2> QED BY <2>3, <2>4, SendGood
<1>3. CASE ~ArgIs(u, 6) /\ ~(\E n \in {15, 25, 26, 53} : ArgIs(u, n))
  BY <1>3 DEF PrivateStatusReport
<1> QED BY <1>1, <1>2, <1>3

LEMMA ReportsGood ==
  ASSUME NEW u, Good(u)
  PROVE  Good(AttributesReport(u)) /\ Good(SecondaryReport(u))
<1>1. Good(sendString(u, DeviceAttributes))
  BY CSISeq, SendGood
<1> DEFINE answer == CSI \o <<">", "0", ";", "2", "5", "6", ";", "0", "c">>
<1>2. IsSeq(answer)
  <2>1. IsSeq(<<">", "0", ";", "2", "5", "6", ";", "0", "c">>)
    BY LongTuples, Zenon
  <2> QED BY <2>1, CSISeq, ConcatSeq, Zenon
<1>3. SecondaryReport(u) = sendString(u, answer)
  BY Zenon DEF SecondaryReport
<1> HIDE DEF answer
<1>4. Good(sendString(u, answer))
  BY <1>2, SendGood
<1> QED BY <1>1, <1>3, <1>4, Zenon DEF AttributesReport

LEMMA EraseDisplayGood ==
  ASSUME NEW u, Good(u)
  PROVE  Good(EraseInDisplay(u)) /\ Good(EraseInLine(u))
<1>1. Good(eraseBelow(u)) /\ Good(eraseAbove(u)) /\ Good(eraseLine(u))
  BY EraseGood
<1>2. Good(clear(u)) /\ Good(clearScrollback(u))
  BY ClearGood, ClearScrollbackGood
<1>3. Good(eraseWholeRight(u)) /\ Good(eraseToLeft(u))
  BY EraseWholeRightGood, EraseToLeftGood DEF Good
<1>4. Good(EraseInDisplay(u))
  BY <1>1, <1>2 DEF EraseInDisplay
<1>5. Good(EraseInLine(u))
  BY <1>1, <1>3 DEF EraseInLine
<1> QED BY <1>4, <1>5

LEMMA ClearTabStopsGood ==
  ASSUME NEW u, Good(u)
  PROVE  Good(ClearTabStops(u))
  BY ClearStopGood DEF ClearTabStops

LEMMA SetAttributesGood ==
  ASSUME NEW u, Good(u)
  PROVE  Good(SetAttributes(u))
<1> DEFINE old == u.screens[u.current].textAttributes
           attrs == IF u.vt.args = <<>> THEN SetFlags(old, 0) ELSE Sgr(old, u.vt.args)
<1>1. SetAttributes(u) = [u EXCEPT !.screens[u.current].textAttributes = attrs]
  BY DEF SetAttributes
<1> HIDE DEF attrs
<1> QED BY <1>1, AttributesGood

LEMMA TileGood ==
  ASSUME NEW u, Good(u)
  PROVE  Good(SetTile(u))
<1> DEFINE old == u.screens[u.current].textAttributes
           on == [old EXCEPT !.flags = old.flags \cup {"tile"}]
           off == [old EXCEPT !.flags = old.flags \ {"tile"}]
           v == [u EXCEPT !.screens[u.current].textAttributes = on]
           w == [u EXCEPT !.screens[u.current].textAttributes = off]
<1>1. [u EXCEPT !.screens[u.current].textAttributes.flags = @ \cup {"tile"}] = v
  OBVIOUS
<1>2. [u EXCEPT !.screens[u.current].textAttributes.flags = @ \ {"tile"}] = w
  OBVIOUS
<1> HIDE DEF on, off
<1>3. Good(v) /\ Good(w)
  BY AttributesGood
<1> HIDE DEF v, w
<1>4. CASE ArgIs(u, 0) /\ Len(u.vt.args) > 1
  <2>1. ~ArgIs(u, 1)
    BY <1>4 DEF ArgIs
  <2>2. SetTile(u) = [u EXCEPT !.screens[u.current].textAttributes.flags = @ \cup {"tile"}]
    BY <1>4, <2>1 DEF SetTile
  <2> QED BY <1>1, <1>3, <2>2
<1>5. CASE ~(ArgIs(u, 0) /\ Len(u.vt.args) > 1) /\ ArgIs(u, 1)
  <2>2. SetTile(u) = [u EXCEPT !.screens[u.current].textAttributes.flags = @ \ {"tile"}]
    BY <1>5 DEF SetTile
  <2> QED BY <1>2, <1>3, <2>2
<1>6. CASE ~(ArgIs(u, 0) /\ Len(u.vt.args) > 1) /\ ~ArgIs(u, 1)
  BY <1>6 DEF SetTile
<1> QED BY <1>4, <1>5, <1>6

\* Tab stops one after another.
LEMMA TabsSteps ==
  ASSUME NEW u, NEW forward, Clamp(1, iarg(u, 0, 1), u.width) \in Nat
  PROVE  \E f : /\ f[0] = u
                /\ \A i \in 1 .. Clamp(1, iarg(u, 0, 1), u.width) : f[i] = TabNext(f[i - 1], forward)
                /\ Tabs(u, forward) = f[Clamp(1, iarg(u, 0, 1), u.width)]
<1> DEFINE N == Clamp(1, iarg(u, 0, 1), u.width)
           Step(f, i) == IF i = 0 THEN u ELSE TabNext(f[i - 1], forward)
           Upto(n, f) == f = [i \in 0 .. n |-> Step(f, i)]
           S == {n \in Nat : \E f : Upto(n, f)}
<1>0. N \in Nat
  OBVIOUS
<1>1. 0 \in S
  <2> DEFINE f == [i \in 0 .. 0 |-> u]
  <2>1. Upto(0, f)
    OBVIOUS
  <2> QED BY <2>1
<1>2. ASSUME NEW n \in Nat, n \in S PROVE n + 1 \in S
  <2>1. PICK f : Upto(n, f)
    BY <1>2
  <2> DEFINE g == [i \in 0 .. n + 1 |-> IF i = n + 1 THEN Step(f, n + 1) ELSE f[i]]
  <2>2. ASSUME NEW i \in 0 .. n + 1 PROVE g[i] = Step(g, i)
    <3>1. i # 0 => i - 1 \in 0 .. n /\ g[i - 1] = f[i - 1]
      OBVIOUS
    <3>2. CASE i = n + 1
      <4>1. g[i] = Step(f, i)
        BY <3>2
      <4>2. i # 0
        BY <3>2
      <4> HIDE DEF g
      <4> QED BY <4>1, <4>2, <3>1
    <3>3. CASE i # n + 1
      <4>1. i \in 0 .. n /\ g[i] = f[i]
        BY <3>3
      <4>2. f[i] = Step(f, i)
        BY <2>1, <4>1
      <4> HIDE DEF g
      <4> QED BY <4>1, <4>2, <3>1
    <3> QED BY <3>2, <3>3
  <2> HIDE DEF Step
  <2>3. Upto(n + 1, g)
    BY <2>2
  <2>4. n + 1 \in Nat
    OBVIOUS
  <2> HIDE DEF g, Upto
  <2> QED BY <2>3, <2>4
<1>3. N \in S
  <2> HIDE DEF S, N
  <2> QED BY <1>0, <1>1, <1>2, SetInduction
<1> DEFINE taken == CHOOSE f : Upto(N, f)
<1>4. Upto(N, taken)
  BY <1>3
<1>5. Tabs(u, forward) = taken[Clamp(1, iarg(u, 0, 1), u.width)]
  BY DEF Tabs, Iterate
<1> HIDE DEF taken
<1>6. taken[0] = u
  BY <1>0, <1>4
<1>7. ASSUME NEW i \in 1 .. N PROVE taken[i] = TabNext(taken[i - 1], forward)
  <2>1. i # 0 /\ i \in 0 .. N
    BY <1>0
  <2> HIDE DEF N, Step
  <2>2. taken[i] = Step(taken, i)
    BY <1>4, <2>1
  <2> QED BY <2>1, <2>2 DEF Step
<1> QED BY <1>5, <1>6, <1>7

\* Modes set one after another.
LEMMA ModesSteps ==
  ASSUME NEW u, IsSeq(u.vt.args), NEW on
  PROVE  \E f : /\ f[0] = u
                /\ \A i \in 1 .. Len(u.vt.args) : f[i] = setDECMode(f[i - 1], Number(u.vt.args[i][1]), on)
                /\ SetDECModes(u, on) = f[Len(u.vt.args)]
<1> DEFINE N == Len(u.vt.args)
           Step(f, i) == IF i = 0 THEN u ELSE setDECMode(f[i - 1], Number(u.vt.args[i][1]), on)
           Upto(n, f) == f = [i \in 0 .. n |-> Step(f, i)]
           S == {n \in Nat : \E f : Upto(n, f)}
<1>0. N \in Nat
  BY SeqDomain
<1>1. 0 \in S
  <2> DEFINE f == [i \in 0 .. 0 |-> u]
  <2>1. Upto(0, f)
    OBVIOUS
  <2> QED BY <2>1
<1>2. ASSUME NEW n \in Nat, n \in S PROVE n + 1 \in S
  <2>1. PICK f : Upto(n, f)
    BY <1>2
  <2> DEFINE g == [i \in 0 .. n + 1 |-> IF i = n + 1 THEN Step(f, n + 1) ELSE f[i]]
  <2>2. ASSUME NEW i \in 0 .. n + 1 PROVE g[i] = Step(g, i)
    <3>1. i # 0 => i - 1 \in 0 .. n /\ g[i - 1] = f[i - 1]
      OBVIOUS
    <3>2. CASE i = n + 1
      <4>1. g[i] = Step(f, i)
        BY <3>2
      <4>2. i # 0
        BY <3>2
      <4> HIDE DEF g
      <4> QED BY <4>1, <4>2, <3>1
    <3>3. CASE i # n + 1
      <4>1. i \in 0 .. n /\ g[i] = f[i]
        BY <3>3
      <4>2. f[i] = Step(f, i)
        BY <2>1, <4>1
      <4> HIDE DEF g
      <4> QED BY <4>1, <4>2, <3>1
    <3> QED BY <3>2, <3>3
  <2> HIDE DEF Step
  <2>3. Upto(n + 1, g)
    BY <2>2
  <2>4. n + 1 \in Nat
    OBVIOUS
  <2> HIDE DEF g, Upto
  <2> QED BY <2>3, <2>4
<1>3. N \in S
  <2> HIDE DEF S, N
  <2> QED BY <1>0, <1>1, <1>2, SetInduction
<1> DEFINE taken == CHOOSE f : Upto(N, f)
<1>4. Upto(N, taken)
  BY <1>3
<1>5. SetDECModes(u, on) = taken[Len(u.vt.args)]
  BY DEF SetDECModes, Iterate
<1> HIDE DEF taken
<1>6. taken[0] = u
  BY <1>0, <1>4
<1>7. ASSUME NEW i \in 1 .. N PROVE taken[i] = setDECMode(taken[i - 1], Number(u.vt.args[i][1]), on)
  <2>1. i # 0 /\ i \in 0 .. N
    BY <1>0
  <2> HIDE DEF N, Step
  <2>2. taken[i] = Step(taken, i)
    BY <1>4, <2>1
  <2> QED BY <2>1, <2>2 DEF Step
<1> QED BY <1>5, <1>6, <1>7

LEMMA TabsGood ==
  ASSUME NEW u, Good(u), NEW forward
  PROVE  Good(Tabs(u, forward))
<1> DEFINE count == Clamp(1, iarg(u, 0, 1), u.width)
<1>1. iarg(u, 0, 1) \in Int /\ u.width \in Int /\ 1 <= u.width
  BY IargPositive, SoundCursor DEF Good
<1>2. count \in Nat
  <2>1. count \in 1 .. u.width
    <3> DEFINE n == iarg(u, 0, 1)
    <3>1. n \in Int
      BY <1>1
    <3> HIDE DEF n
    <3> QED BY <1>1, <3>1 DEF Clamp, n
  <2> HIDE DEF count
  <2> QED BY <1>1, <2>1
<1>3. PICK f : /\ f[0] = u
               /\ \A i \in 1 .. count : f[i] = TabNext(f[i - 1], forward)
               /\ Tabs(u, forward) = f[count]
  BY <1>2, TabsSteps
<1> HIDE DEF count
<1> DEFINE S == {i \in Nat : i <= count => Good(f[i])}
<1>4. 0 \in S
  BY <1>3
<1>5. ASSUME NEW i \in Nat, i \in S PROVE i + 1 \in S
  <2>1. ASSUME i + 1 <= count PROVE Good(f[i + 1])
    <3> DEFINE j == i + 1
               old == f[i]
    <3>1. j \in 1 .. count /\ j - 1 = i /\ Good(old)
      BY <1>2, <1>5, <2>1
    <3>2. f[j] = TabNext(old, forward)
      BY <1>3, <3>1
    <3> HIDE DEF j, old
    <3>3. Good(forwardTabStop(old)) /\ Good(backwardTabStop(old))
      BY <3>1, ForwardGood, BackwardGood
    <3>4. Good(TabNext(old, forward))
      BY <3>3 DEF TabNext
    <3> QED BY <3>2, <3>4 DEF j
  <2> QED BY <2>1
<1>6. count \in S
  <2> HIDE DEF S
  <2> QED BY <1>2, <1>4, <1>5, SetInduction
<1> QED BY <1>2, <1>3, <1>6

\* The rows of a scroll region.
LEMMA ScrollRegionGood ==
  ASSUME NEW u, Good(u)
  PROVE  Good(SetScrollRegion(u))
<1> DEFINE args == u.vt.args
           top == IF args = <<>> THEN 0 ELSE Number(args[1][1])
           bottom == IF Len(args) < 2 \/ args[2][1] = Empty THEN u.height ELSE args[2][1]
           from == IF top = 0 THEN Null ELSE top - 1
           w == setVTScrollRegion(u, from, bottom - 1)
<1>1. ArgsOK(args) /\ u.height \in Nat /\ u.height > 0
  BY GoodParser, SoundCursor DEF Good
<1>2. Len(args) \in Nat /\ (args = <<>> <=> Len(args) = 0)
  BY <1>1, ArgsLength
<1>3. SetScrollRegion(u) = IF bottom > u.height \/ bottom <= top THEN u
                           ELSE setCursorPosition(w, 0, 0)
  BY DEF SetScrollRegion
<1> HIDE DEF args
<1>4. top \in Nat
  <2>1. CASE args = <<>>
    BY <2>1
  <2>2. CASE args # <<>>
    <3>1. args[1][1] \in Int /\ args[1][1] >= -1
      BY <1>1, <1>2, <2>2, ArgsIn
    <3> QED BY <2>2, <3>1 DEF Number, Empty
  <2> QED BY <2>1, <2>2
<1>5. bottom \in Int
  <2>1. CASE Len(args) < 2
    BY <1>1, <2>1
  <2>2. CASE ~(Len(args) < 2)
    <3>1. args[2][1] \in Int
      BY <1>1, <1>2, <2>2, ArgsIn
    <3> QED BY <1>1, <3>1
  <2> QED BY <2>1, <2>2
<1> HIDE DEF top, bottom
<1>6. CASE bottom > u.height \/ bottom <= top
  BY <1>3, <1>6
<1>7. CASE ~(bottom > u.height \/ bottom <= top)
  <2>1. /\ from \in Int /\ bottom - 1 \in Int /\ (from = Null \/ from >= 0)
        /\ bottom - 1 < u.height /\ bottom - 1 >= 0 /\ from <= bottom - 1
    BY <1>1, <1>4, <1>5, <1>7 DEF Null
  <2> HIDE DEF from
  <2>2. Good(w)
    BY <2>1, RegionGood
  <2> HIDE DEF w
  <2>3. Good(setCursorPosition(w, 0, 0))
    BY <2>2, PositionGood DEF Good
  <2> QED BY <1>3, <1>7, <2>3
<1> QED BY <1>6, <1>7

LEMMA AlternateScreenGood ==
  ASSUME NEW u, Good(u), NEW mode, NEW on
  PROVE  Good(AlternateScreen(u, mode, on))
<1> DEFINE w == IF mode = 1049 /\ on THEN saveCursorAndState(u) ELSE u
           x == setAlternateMode(w, on)
<1>1. Good(w)
  BY SaveGood
<1>2. AlternateScreen(u, mode, on) = AfterSwap(x, mode, on)
  BY DEF AlternateScreen
<1> HIDE DEF w
<1>3. Good(x)
  BY <1>1, AlternateGood
<1> HIDE DEF x
<1>4. Good(clear(x)) /\ Good(restoreCursorAndState(x))
  BY <1>3, ClearGood, RestoreAllGood
<1>5. Good(AfterSwap(x, mode, on))
  BY <1>3, <1>4, Zenon DEF AfterSwap
<1> QED BY <1>2, <1>5

LEMMA MouseModeGood ==
  ASSUME NEW u, Good(u), NEW value
  PROVE  Good([u EXCEPT !.vt.mouseReport = value]) /\ Good([u EXCEPT !.vt.mouseCoordinates = value])
<1> DEFINE reports == [u.vt EXCEPT !.mouseReport = value]
           coordinates == [u.vt EXCEPT !.mouseCoordinates = value]
<1>1. /\ [u EXCEPT !.vt.mouseReport = value] = Parsing(u, reports)
      /\ [u EXCEPT !.vt.mouseCoordinates = value] = Parsing(u, coordinates)
  BY DEF Parsing
<1>2. /\ DOMAIN reports = ParserFields /\ reports.func \in ParseFunctions
      /\ reports.buf = u.vt.buf /\ reports.string = u.vt.string /\ reports.args = u.vt.args
  BY GoodParser DEF ParserFields
<1>3. /\ DOMAIN coordinates = ParserFields /\ coordinates.func \in ParseFunctions
      /\ coordinates.buf = u.vt.buf /\ coordinates.string = u.vt.string
      /\ coordinates.args = u.vt.args
  BY GoodParser DEF ParserFields
<1> HIDE DEF reports, coordinates
<1> QED BY <1>1, <1>2, <1>3, ParserChanged

LEMMA DECModeGood ==
  ASSUME NEW u, Good(u), NEW mode, NEW on
  PROVE  Good(setDECMode(u, mode, on))
<1> DEFINE report == IF on THEN MouseModes[mode] ELSE "disabled"
           coordinates == IF on THEN MouseCoordinates[mode] ELSE "X10"
<1>1. Good(setReverseVideo(u, on)) /\ Good(setOriginMode(u, on))
  BY ReverseVideoGood, OriginGood
<1>2. /\ Good(setOption(u, "wraparound", on)) /\ Good(setOption(u, "reverseWraparound", on))
      /\ Good(setOption(u, "bracketedPaste", on)) /\ Good(setCursorVisible(u, on))
  BY OptionGood DEF setCursorVisible
<1>3. /\ Good([u EXCEPT !.vt.mouseReport = report])
      /\ Good([u EXCEPT !.vt.mouseCoordinates = coordinates])
  <2> HIDE DEF report, coordinates
  <2> QED BY MouseModeGood
<1>4. Good(setMode(u, InputModes[mode], on)) /\ Good(AlternateScreen(u, mode, on))
  BY SetModeGood, AlternateScreenGood
<1>5. Good(saveCursorAndState(u)) /\ Good(restoreCursorAndState(u))
  BY SaveGood, RestoreAllGood
<1> DEFINE reporting == [u EXCEPT !.vt.mouseReport = report]
           placed == [u EXCEPT !.vt.mouseCoordinates = coordinates]
<1>6. setDECMode(u, mode, on) =
        CASE mode = 5  -> setReverseVideo(u, on)
          [] mode = 6  -> setOriginMode(u, on)
          [] mode = 7  -> setOption(u, "wraparound", on)
          [] mode = 25 -> setCursorVisible(u, on)
          [] mode = 45 -> setOption(u, "reverseWraparound", on)
          [] mode \in DOMAIN MouseModes -> reporting
          [] mode \in DOMAIN MouseCoordinates -> placed
          [] mode \in DOMAIN InputModes -> setMode(u, InputModes[mode], on)
          [] mode \in {47, 1047, 1049} -> AlternateScreen(u, mode, on)
          [] mode = 1048 -> IF on THEN saveCursorAndState(u) ELSE restoreCursorAndState(u)
          [] mode = 2004 -> setOption(u, "bracketedPaste", on)
          [] OTHER -> u
  BY Zenon DEF setDECMode
<1>7. Good(reporting) /\ Good(placed)
  BY <1>3
<1> HIDE DEF reporting, placed
<1>8. Good(IF on THEN saveCursorAndState(u) ELSE restoreCursorAndState(u))
  BY <1>5
<1> QED BY <1>1, <1>2, <1>4, <1>6, <1>7, <1>8

LEMMA DECModesGood ==
  ASSUME NEW u, Good(u), NEW on
  PROVE  Good(SetDECModes(u, on))
<1> DEFINE args == u.vt.args
<1>1. IsSeq(u.vt.args) /\ Len(args) \in Nat
  BY GoodParser, ArgsLength
<1>2. PICK f : /\ f[0] = u
               /\ \A i \in 1 .. Len(args) : f[i] = setDECMode(f[i - 1], Number(args[i][1]), on)
               /\ SetDECModes(u, on) = f[Len(args)]
  BY <1>1, ModesSteps
<1> HIDE DEF args
<1> DEFINE S == {i \in Nat : i <= Len(args) => Good(f[i])}
<1>4. 0 \in S
  BY <1>2
<1>5. ASSUME NEW i \in Nat, i \in S PROVE i + 1 \in S
  <2>1. ASSUME i + 1 <= Len(args) PROVE Good(f[i + 1])
    <3> DEFINE j == i + 1
               old == f[i]
    <3>1. j \in 1 .. Len(args) /\ j - 1 = i /\ Good(old)
      BY <1>1, <1>5, <2>1
    <3>2. f[j] = setDECMode(old, Number(args[j][1]), on)
      BY <1>2, <3>1
    <3> HIDE DEF j, old
    <3> QED BY <3>1, <3>2, DECModeGood DEF j
  <2> QED BY <2>1
<1>6. Len(args) \in S
  <2> HIDE DEF S
  <2> QED BY <1>1, <1>4, <1>5, SetInduction
<1> QED BY <1>1, <1>2, <1>6

LEMMA ANSIModesGood ==
  ASSUME NEW u, Good(u), NEW on
  PROVE  Good(SetANSIModes(u, on))
<1> DEFINE modes == {ANSIModes[Number(arg[1])] :
                       arg \in {a \in ToSet(u.vt.args) : Number(a[1]) \in DOMAIN ANSIModes}}
           options == IF on THEN u.options \cup modes ELSE u.options \ modes
<1>1. SetANSIModes(u, on) = [u EXCEPT !.options = options]
  BY DEF SetANSIModes
<1> HIDE DEF options
<1> QED BY <1>1, OptionsGood

LEMMA MoveCursorGood ==
  ASSUME NEW u, Good(u), NEW code \in CursorCodes, NEW n \in Nat
  PROVE  Good(MoveCursor(u, code[1], n))
<1>0. Sound(u)
  BY DEF Good
<1>1. /\ Good(cursorUp(u, n)) /\ Good(cursorDown(u, n)) /\ Good(cursorRight(u, n))
      /\ Good(cursorLeft(u, n))
  BY <1>0, UpGood, DownGood, RightGood, LeftGood
<1>2. Good(setCursorColumn(cursorDown(u, n), 0)) /\ Good(setCursorColumn(cursorUp(u, n), 0))
  BY <1>1, ColumnGood DEF Good
<1>3. Good(setCursorColumn(u, n - 1))
  BY <1>0, ColumnGood
<1>4. Good(setCursorPosition(u, n - 1, iarg(u, 1, 1) - 1))
  <2>1. iarg(u, 1, 1) - 1 \in Int /\ n - 1 \in Int
    BY IargPositive
  <2> QED BY <1>0, <2>1, PositionGood
<1> DEFINE ch == code[1]
<1>5. ch \in {"A", "B", "C", "D", "E", "F", "G", "H", "GRAVE", "f"}
  BY DEF CursorCodes
<1> HIDE DEF ch
<1>6. Good(MoveCursor(u, ch, n))
  BY <1>1, <1>2, <1>3, <1>4, <1>5 DEF MoveCursor
<1> QED BY <1>6 DEF ch

LEMMA PlaceCursorGood ==
  ASSUME NEW u, Good(u), NEW ch, NEW n \in Nat
  PROVE  Good(PlaceCursor(u, ch, n))
<1>1. Sound(u) /\ Column(u) + n \in Int
  BY SoundCursor DEF Good
<1>2. Good(setCursorColumn(u, Column(u) + n)) /\ Good(setAbsoluteCursorRow(u, n - 1))
  BY <1>1, ColumnGood, RowGood
<1> QED BY <1>2 DEF PlaceCursor

LEMMA EditGood ==
  ASSUME NEW u, Good(u), NEW code \in EditCodes, NEW n \in Nat, n > 0
  PROVE  Good(Edit(u, code[1], n))
<1> DEFINE ch == code[1]
<1>1. Good(insertSpace(u, n)) /\ Good(deleteChars(u, n)) /\ Good(eraseToRight(u, n))
  BY InsertSpaceGood, DeleteCharsGood, EraseToRightGood
<1>2. Good(insertLines(u, n)) /\ Good(deleteLines(u, n))
  BY InsertLinesGood, DeleteLinesGood
<1>3. Good(vtScrollUp(u, n)) /\ Good(vtScrollDown(u, n))
  BY ScrollGood
<1>4. ch \in {"@", "L", "M", "P", "S", "T", "X"}
  BY DEF EditCodes
<1> HIDE DEF ch
<1>5. Good(Edit(u, ch, n))
  BY <1>1, <1>2, <1>3, <1>4 DEF Edit
<1> QED BY <1>5 DEF ch

LEMMA CursorStyleGood ==
  ASSUME NEW u, Good(u)
  PROVE  Good(SetCursorStyle(u))
<1> DEFINE arg == Number(u.vt.args[1][1])
           style == IF arg = 0 THEN 1 ELSE arg
           w == setCursorShape(u, CursorShapes[style])
<1>1. SetCursorStyle(u) = IF u.vt.args = <<>> \/ style \notin DOMAIN CursorShapes THEN u
                          ELSE setCursorBlink(w, style % 2 = 1)
  BY DEF SetCursorStyle
<1> HIDE DEF style
<1>2. Good(w)
  BY ShapeGood
<1> HIDE DEF w
<1>3. Good(setCursorBlink(w, style % 2 = 1))
  BY <1>2, OptionGood DEF setCursorBlink
<1> QED BY <1>1, <1>3

LEMMA LaterCSIGood ==
  ASSUME NEW u, Good(u), NEW code
  PROVE  Good(HandleLaterCSI(u, code))
<1>1. Good(softReset(ResetParser(u)))
  BY ResetParserGood, SoftResetGood
<1>2. Good(SetCursorStyle(u)) /\ Good(SetScrollRegion(u)) /\ Good(SetTile(u))
  BY CursorStyleGood, ScrollRegionGood, TileGood
<1>3. Good(saveCursorAndState(u)) /\ Good(restoreCursorAndState(u))
  BY SaveGood, RestoreAllGood
<1> DEFINE soft == code = <<"!", "p">>
           styled == code = <<" ", "q">>
           region == code = <<"r">>
           saved == code = <<"s">>
           restored == code = <<"u">>
           tiled == code = <<"z">>
<1>4. HandleLaterCSI(u, code) =
        CASE soft -> softReset(ResetParser(u))
          [] styled -> SetCursorStyle(u)
          [] region -> SetScrollRegion(u)
          [] saved -> saveCursorAndState(u)
          [] restored -> restoreCursorAndState(u)
          [] tiled -> SetTile(u)
          [] OTHER -> u
  BY Zenon DEF HandleLaterCSI
<1> HIDE DEF soft, styled, region, saved, restored, tiled
<1> QED BY <1>1, <1>2, <1>3, <1>4

LEMMA HandleCSIGood ==
  ASSUME NEW u, Good(u), NEW code
  PROVE  Good(HandleCSI(u, code))
<1> DEFINE n == iarg(u, 0, 1)
           forward == code[1] = "I"
           on == code[1] = "h"
           private == code[2] = "h"
<1>1. Good(SetAttributes(u))
  BY SetAttributesGood
<1>2. n \in Nat /\ n > 0
  BY IargPositive
<1> HIDE DEF n
<1>3. code \in CursorCodes => Good(MoveCursor(u, code[1], n))
  BY <1>2, MoveCursorGood
<1>4. Good(PlaceCursor(u, code[1], n))
  BY <1>2, PlaceCursorGood
<1>5. code \in EditCodes => Good(Edit(u, code[1], n))
  BY <1>2, EditGood
<1>6. Good(EraseInDisplay(u)) /\ Good(EraseInLine(u)) /\ Good(ClearTabStops(u))
  BY EraseDisplayGood, ClearTabStopsGood
<1> HIDE DEF forward, on, private
<1>7. Good(Tabs(u, forward)) /\ Good(SetANSIModes(u, on)) /\ Good(SetDECModes(u, private))
  BY TabsGood, ANSIModesGood, DECModesGood
<1>8. Good(AttributesReport(u)) /\ Good(SecondaryReport(u))
  BY ReportsGood
<1>9. Good(StatusReport(u)) /\ Good(PrivateStatusReport(u))
  BY StatusGood, PrivateStatusGood
<1>10. Good(HandleLaterCSI(u, code))
  BY LaterCSIGood
<1> DEFINE moved == MoveCursor(u, code[1], n)
           placed == PlaceCursor(u, code[1], n)
           edited == Edit(u, code[1], n)
           tabbed == Tabs(u, forward)
           ansi == SetANSIModes(u, on)
           dec == SetDECModes(u, private)
           isM == code = <<"m">>
           isJ == code \in {<<"J">>, <<"?", "J">>}
           isK == code \in {<<"K">>, <<"?", "K">>}
           isI == code \in {<<"I">>, <<"Z">>}
           isG == code = <<"g">>
           isH == code \in {<<"h">>, <<"l">>}
           isPrivate == code \in {<<"?", "h">>, <<"?", "l">>}
           isC == code = <<"c">>
           isSecondary == code = <<">", "c">>
           isN == code = <<"n">>
           isStatus == code = <<"?", "n">>
           later == HandleLaterCSI(u, code)
           isMove == code \in CursorCodes
           isPlace == code \in PlaceCodes
           isEdit == code \in EditCodes
           isIgnored == code \in IgnoredCodes
<1>11. HandleCSI(u, code) =
         CASE isM -> SetAttributes(u)
           [] isMove -> moved
           [] isPlace -> placed
           [] isEdit -> edited
           [] isJ -> EraseInDisplay(u)
           [] isK -> EraseInLine(u)
           [] isI -> tabbed
           [] isG -> ClearTabStops(u)
           [] isH -> ansi
           [] isPrivate -> dec
           [] isC -> AttributesReport(u)
           [] isSecondary -> SecondaryReport(u)
           [] isN -> StatusReport(u)
           [] isStatus -> PrivateStatusReport(u)
           [] isIgnored -> u
           [] OTHER -> later
  BY Zenon DEF HandleCSI, n, forward, on, private
<1>12. (isMove => Good(moved)) /\ Good(placed) /\ (isEdit => Good(edited))
  BY <1>3, <1>4, <1>5, Zenon
<1>13. Good(tabbed) /\ Good(ansi) /\ Good(dec) /\ Good(later)
  BY <1>7, <1>10, Zenon
<1> HIDE DEF moved, placed, edited, tabbed, ansi, dec, isM, isMove, isPlace, isEdit, isJ, isK, isI,
             isG, isH, isPrivate, isC, isSecondary, isN, isStatus, isIgnored, later
<1> QED BY <1>1, <1>6, <1>8, <1>9, <1>11, <1>12, <1>13

LEMMA DispatchCSIGood ==
  ASSUME NEW u, Good(u), NEW code
  PROVE  Good(DispatchCSI(u, code))
<1>1. Good(HandleCSI(u, code))
  BY HandleCSIGood
<1> QED BY <1>1, Zenon DEF DispatchCSI

----------------------------------------------------------------------------
\* Control characters and ESC functions.

LEMMA ShiftGood ==
  ASSUME NEW u, Good(u), NEW ch
  PROVE  Good([u EXCEPT !.charsets = LockingShift(@, ch)])
<1> DEFINE charsets == LockingShift(u.charsets, ch)
<1>1. [u EXCEPT !.charsets = LockingShift(@, ch)] = [u EXCEPT !.charsets = charsets]
  OBVIOUS
<1> HIDE DEF charsets
<1> QED BY <1>1, CharsetsGood

LEMMA PrivateESCGood ==
  ASSUME NEW u, Good(u), NEW ch
  PROVE  Good(DispatchPrivateESC(u, ch))
<1> DEFINE v == [u EXCEPT !.charsets = LockingShift(@, ch)]
           shifts == ch \in {"n", "o", "|", "}", "~"}
<1>1. Good(saveCursorAndState(u)) /\ Good(restoreCursorAndState(u))
  BY SaveGood, RestoreAllGood
<1>2. Good(reset(ResetParser(u)))
  BY ResetParserGood, ResetGood
<1>3. Good(v)
  BY ShiftGood
<1>4. DispatchPrivateESC(u, ch) =
        CASE ch = "7" -> saveCursorAndState(u)
          [] ch = "8" -> restoreCursorAndState(u)
          [] ch = "c" -> reset(ResetParser(u))
          [] shifts -> v
          [] OTHER -> u
  BY Zenon DEF DispatchPrivateESC
<1> HIDE DEF v, shifts
<1> QED BY <1>1, <1>2, <1>3, <1>4

LEMMA DispatchESCGood ==
  ASSUME NEW u, Good(u), NEW ch
  PROVE  Good(DispatchESC(u, ch))
<1> DEFINE skips == ch \in {"^", "_"}
           awaits == ch \in {" ", "#", "%"} \cup DOMAIN Designated
           opens == ch = "["
           closes == ch = "]"
<1>0. Sound(u) /\ Column(u) \in Int
  BY SoundCursor DEF Good
<1>1. Good(lineFeed(u)) /\ Good(reverseLineFeed(u)) /\ Good(setTabStop(u, Column(u)))
  BY LineFeedGood, SetStopGood
<1>2. Good(cursorDown(setCursorColumn(u, 0), 1))
  <2>1. Sound(setCursorColumn(u, 0))
    BY <1>0, ColumnGood DEF Good
  <2> QED BY <2>1, DownGood
<1>3. Good(StartDCS(u)) /\ Good(StartCSI(u)) /\ Good(Await(u, ch))
  BY StartGood, AwaitGood
<1>4. /\ Good(StartString(u, "OSC")) /\ Good(StartString(u, "title"))
      /\ Good(StartString(u, "skip"))
  BY StartGood DEF StringFunctions
<1>5. Good(sendString(u, DeviceAttributes))
  BY CSISeq, SendGood
<1>6. Good(DispatchPrivateESC(u, ch))
  BY PrivateESCGood
<1>7. DispatchESC(u, ch) =
        CASE ch = "D" -> lineFeed(u)
          [] ch = "E" -> cursorDown(setCursorColumn(u, 0), 1)
          [] ch = "H" -> setTabStop(u, Column(u))
          [] ch = "M" -> reverseLineFeed(u)
          [] ch = "P" -> StartDCS(u)
          [] ch = "Z" -> sendString(u, DeviceAttributes)
          [] opens -> StartCSI(u)
          [] closes -> StartString(u, "OSC")
          [] ch = "k" -> StartString(u, "title")
          [] skips -> StartString(u, "skip")
          [] awaits -> Await(u, ch)
          [] OTHER -> DispatchPrivateESC(u, ch)
  BY Zenon DEF DispatchESC
<1> HIDE DEF skips, awaits, opens, closes
<1> QED BY <1>1, <1>2, <1>3, <1>4, <1>5, <1>6, <1>7

LEMMA CancelGood ==
  ASSUME NEW u, Good(u)
  PROVE  Good(Cancel(u))
<1> DEFINE charsets == ShiftOut(u.charsets)
           shifted == [u EXCEPT !.charsets = charsets]
<1>1. Good(shifted)
  BY CharsetsGood
<1> HIDE DEF charsets
<1>2. Good(resetParseFunction(shifted)) /\ IsSeq(<<"?">>)
  BY <1>1, ResetFunctionGood, Tuples
<1>3. [u EXCEPT !.charsets = ShiftOut(@)] = shifted
  BY DEF charsets
<1>4. Cancel(u) = print(resetParseFunction(shifted), <<"?">>)
  BY <1>3 DEF Cancel
<1> HIDE DEF shifted
<1> QED BY <1>2, <1>4, PrintGood

LEMMA CC1Good ==
  ASSUME NEW u, Good(u), NEW ch
  PROVE  Good(DispatchCC1(u, ch))
<1> DEFINE v == [u EXCEPT !.charsets = LockingShift(@, ch)]
           parser == [u.vt EXCEPT !.func = "ESC"]
           w == Parsing(u, parser)
<1>0. Sound(u)
  BY DEF Good
<1>1. Good(cursorLeft(u, 1)) /\ Good(forwardTabStop(u)) /\ Good(formFeed(u))
  BY LeftGood, ForwardGood, LineFeedGood
<1>2. Good(setCursorColumn(u, 0)) /\ Good(Cancel(u)) /\ Good(v)
  BY <1>0, ColumnGood, CancelGood, ShiftGood
<1>3. [u EXCEPT !.vt.func = "ESC"] = w
  BY DEF Parsing
<1>4. Good(w)
  <2>1. /\ DOMAIN parser = ParserFields /\ parser.func \in ParseFunctions
        /\ parser.buf = u.vt.buf /\ parser.string = u.vt.string /\ parser.args = u.vt.args
    BY GoodParser DEF ParserFields, ParseFunctions
  <2> HIDE DEF parser
  <2> QED BY <2>1, ParserChanged
<1> DEFINE x == [u EXCEPT !.vt.func = "ESC"]
<1>5. Good(x)
  BY <1>3, <1>4
<1>6. DispatchCC1(u, ch) =
        CASE HasSubargs(u) -> u
          [] ~HasSubargs(u) /\ ch = "BS"  -> cursorLeft(u, 1)
          [] ~HasSubargs(u) /\ ch = "TAB" -> forwardTabStop(u)
          [] ~HasSubargs(u) /\ ch \in {"LF", "VT", "FF"} -> formFeed(u)
          [] ~HasSubargs(u) /\ ch = "CR"  -> setCursorColumn(u, 0)
          [] ~HasSubargs(u) /\ ch \in {"CAN", "SUB"} -> Cancel(u)
          [] ~HasSubargs(u) /\ ch \in {"SO", "SI"} -> v
          [] ~HasSubargs(u) /\ ch = "ESC" -> x
          [] OTHER -> u
  BY Zenon DEF DispatchCC1
<1> HIDE DEF v, w, x
<1> QED BY <1>1, <1>2, <1>5, <1>6

----------------------------------------------------------------------------
\* The parse functions.

LEMMA TranslatedSeq ==
  ASSUME NEW charsets, NEW encoding, NEW text, IsSeq(text)
  PROVE  IsSeq(Translated(charsets, encoding, text))
<1> DEFINE map == DefaultMaps[charsets[charsets.GL]]
           new == [i \in DOMAIN text |-> IF text[i] \in DOMAIN map THEN map[text[i]] ELSE text[i]]
<1>1. Translated(charsets, encoding, text) = IF encoding # "iso-2022" THEN text ELSE new
  BY Zenon DEF Translated
<1> HIDE DEF map
<1>2. DOMAIN text = 1 .. Len(text) /\ Len(text) \in Nat
  BY SeqDomain
<1>3. IsSeq(new)
  <2>1. DOMAIN new = 1 .. Len(text) /\ new = [i \in DOMAIN new |-> new[i]]
    BY <1>2
  <2> HIDE DEF new
  <2> QED BY <1>2, <2>1, SeqFunction
<1> HIDE DEF new
<1> QED BY <1>1, <1>3

LEMMA UnknownGood ==
  ASSUME NEW u, Good(u)
  PROVE  Good(parseUnknown_(u))
<1> DEFINE buf == u.vt.buf
           controls == {i \in DOMAIN buf : buf[i] \in CC1Codes}
           length == IF controls = {} THEN Len(buf) ELSE Min(controls) - 1
           text == SubSeq(buf, 1, length)
           rest == SubSeq(buf, length + 1, Len(buf))
           new == Translated(u.charsets, u.encoding, text)
           v == print(u, new)
<1>1. parseUnknown_(u) = AfterText(v, rest)
  BY Zenon DEF parseUnknown_, Printed
<1>2. IsSeq(buf) /\ Len(buf) \in Nat /\ DOMAIN buf = 1 .. Len(buf)
  BY GoodParser, SeqDomain
<1> HIDE DEF buf
<1>3. length \in 0 .. Len(buf)
  <2>1. CASE controls = {}
    BY <1>2, <2>1
  <2>2. CASE controls # {}
    <3>1. \A i \in controls : i \in Int /\ 1 <= i /\ i <= Len(buf)
      BY <1>2
    <3> HIDE DEF controls
    <3>2. Min(controls) \in controls
      BY <2>2, <3>1, LeastNumber
    <3> QED BY <1>2, <2>2, <3>1, <3>2
  <2> QED BY <2>1, <2>2
<1> HIDE DEF length
<1>4. IsSeq(text) /\ IsSeq(rest)
  BY <1>2, <1>3, SubSeqSeq
<1> HIDE DEF text, rest
<1>5. IsSeq(new)
  BY <1>4, TranslatedSeq
<1> HIDE DEF new
<1>6. Good(v)
  BY <1>5, PrintGood
<1> HIDE DEF v
<1>7. Good(resetParseState(v, <<>>)) /\ Good(resetBuf(v, rest))
  BY <1>4, <1>6, NoArgsOK, ResetStateGood, ResetBufGood
<1>8. Good(AfterText(v, rest))
  BY <1>7, Zenon DEF AfterText
<1> QED BY <1>1, <1>8

LEMMA FinishGood ==
  ASSUME NEW u, Good(u)
  PROVE  Good(FinishCSI(u))
  BY ResetArgumentsGood, ResetFunctionGood DEF FinishCSI

LEMMA AddArgumentGood ==
  ASSUME NEW u, Good(u), NEW args, ArgsOK(args)
  PROVE  Good(AddArgument(u, args))
<1> DEFINE parser == [u.vt EXCEPT !.args = args]
           v == [u EXCEPT !.vt.args = args]
<1>1. v = Parsing(u, parser)
  BY DEF Parsing
<1>2. ParserOK(parser)
  BY GoodParser DEF ParserOK, ParserFields
<1> HIDE DEF parser, v
<1>3. Good(v)
  BY <1>1, <1>2, ParsingGood
<1>4. AddArgument(u, args) = IF u.vt.trailing # <<>> THEN FinishCSI(u) ELSE v
  BY Zenon DEF AddArgument, v
<1> QED BY <1>3, <1>4, FinishGood

LEMMA AddModifierGood ==
  ASSUME NEW u, Good(u), NEW ch
  PROVE  Good(AddModifier(u, ch))
<1> DEFINE leads == Append(u.vt.leading, ch)
           trails == Append(u.vt.trailing, ch)
           leading == [u.vt EXCEPT !.leading = leads]
           trailing == [u.vt EXCEPT !.trailing = trails]
<1>1. AddModifier(u, ch) = IF u.vt.args = <<>> THEN Parsing(u, leading) ELSE Parsing(u, trailing)
  BY DEF AddModifier, Parsing
<1> HIDE DEF leads, trails
<1>2. /\ DOMAIN leading = ParserFields /\ leading.func \in ParseFunctions
      /\ leading.buf = u.vt.buf /\ leading.string = u.vt.string /\ leading.args = u.vt.args
  BY GoodParser DEF ParserFields
<1>3. /\ DOMAIN trailing = ParserFields /\ trailing.func \in ParseFunctions
      /\ trailing.buf = u.vt.buf /\ trailing.string = u.vt.string
      /\ trailing.args = u.vt.args
  BY GoodParser DEF ParserFields
<1> HIDE DEF leading, trailing
<1>4. Good(Parsing(u, leading)) /\ Good(Parsing(u, trailing))
  BY <1>2, <1>3, ParserChanged
<1> QED BY <1>1, <1>4

LEMMA ParseArgumentGood ==
  ASSUME NEW u, Good(u), NEW ch
  PROVE  Good(ParseArgument(u, ch))
<1> DEFINE place == CHOOSE d \in 1 .. 10 : ch = Digits[d]
           ends == ch = ";"
           splits == ch = ":" /\ u.vt.func = "CSI"
           counts == ch \in ToSet(Digits)
           modifies == ch \in Intermediates \/ (ch = ":" /\ u.vt.func = "DCS")
           digits == AddDigit(u.vt.args, place - 1)
<1>1. ArgsOK(u.vt.args)
  BY GoodParser
<1>2. Good(AddArgument(u, AddArg(u.vt.args))) /\ Good(AddArgument(u, AddSubarg(u.vt.args)))
  BY <1>1, AddArgOK, AddSubargOK, AddArgumentGood
<1>3. Good(AddModifier(u, ch)) /\ Good(FinishCSI(u))
  BY AddModifierGood, FinishGood
<1>4. counts => place - 1 \in Nat
  <2> SUFFICES ASSUME counts PROVE place - 1 \in Nat
    OBVIOUS
  <2>1. \E d \in 1 .. 10 : ch = Digits[d]
    <3>1. DOMAIN Digits = 1 .. 10
      BY DEF Digits
    <3> QED BY <3>1 DEF ToSet
  <2>2. place \in 1 .. 10
    BY <2>1
  <2> HIDE DEF place
  <2> QED BY <2>2
<1>5. counts => Good(AddArgument(u, digits))
  <2> SUFFICES ASSUME counts PROVE Good(AddArgument(u, digits))
    OBVIOUS
  <2> HIDE DEF place
  <2>1. ArgsOK(digits)
    BY <1>1, <1>4, AddDigitOK
  <2> HIDE DEF digits
  <2> QED BY <2>1, AddArgumentGood
<1>6. ParseArgument(u, ch) =
        CASE ends -> AddArgument(u, AddArg(u.vt.args))
          [] splits -> AddArgument(u, AddSubarg(u.vt.args))
          [] counts -> AddArgument(u, digits)
          [] modifies -> AddModifier(u, ch)
          [] OTHER -> FinishCSI(u)
  BY Zenon DEF ParseArgument
<1> HIDE DEF ends, splits, counts, modifies, digits, place
<1> QED BY <1>2, <1>3, <1>5, <1>6

LEMMA ParseCSIGood ==
  ASSUME NEW u, Good(u), NEW ch
  PROVE  Good(parseCSI_(u, ch))
<1> DEFINE code == u.vt.leading \o u.vt.trailing \o <<ch>>
<1>1. Good(DispatchCSI(u, code))
  <2> HIDE DEF code
  <2> QED BY DispatchCSIGood
<1> QED BY <1>1, FinishGood, Zenon DEF parseCSI_

LEMMA ParseDCSGood ==
  ASSUME NEW u, Good(u)
  PROVE  Good(parseDCS_(u))
<1> DEFINE args == u.vt.args
           string == IF args = <<>> \/ args[1][1] = Empty THEN <<>> ELSE Decimal(args[1][1])
           started == args # <<>>
           late == Len(args) > 1
           parser == [u.vt EXCEPT !.func = "skip", !.args = <<>>, !.started = started,
                                  !.string = string, !.late = late]
<1>1. parseDCS_(u) = Parsing(u, parser)
  <2>1. parseDCS_(u) = [u EXCEPT !.vt.func = "skip", !.vt.args = <<>>, !.vt.started = started,
                                 !.vt.string = string, !.vt.late = late]
    BY DEF parseDCS_
  <2> HIDE DEF started, string, late
  <2>2. DOMAIN u = TerminalFields /\ DOMAIN u.vt = ParserFields
    BY GoodParser DEF Good, Sound, Fit, Base
  <2> QED BY <2>1, <2>2 DEF Parsing, TerminalFields, ParserFields
<1>2. IsSeq(string)
  <2>1. CASE args = <<>> \/ args[1][1] = Empty
    BY <2>1, NoArgsOK
  <2>2. CASE ~(args = <<>> \/ args[1][1] = Empty)
    <3>1. ArgsOK(args)
      BY GoodParser
    <3>2. Len(args) \in Nat /\ Len(args) > 0
      BY <2>2, <3>1, ArgsLength
    <3>3. args[1][1] \in Int /\ args[1][1] >= -1
      BY <3>1, <3>2, ArgsIn
    <3>4. args[1][1] \in Nat
      BY <2>2, <3>3 DEF Empty
    <3> HIDE DEF args
    <3> QED BY <2>2, <3>4, DecimalSeq
  <2> QED BY <2>1, <2>2
<1> HIDE DEF string, started, late
<1>3. ParserOK(parser)
  BY <1>2, GoodParser, NoArgsOK DEF ParserOK, ParserFields, ParseFunctions, StringFunctions
<1> HIDE DEF parser
<1> QED BY <1>1, <1>3, ParsingGood

LEMMA ParseFunctionGood ==
  ASSUME NEW u, Good(u), NEW ch
  PROVE  Good(ParseFunction(u, ch))
<1>1. Good(ParseArgument(u, ch)) /\ Good(parseCSI_(u, ch)) /\ Good(parseDCS_(u))
  BY ParseArgumentGood, ParseCSIGood, ParseDCSGood
<1> QED BY <1>1, Zenon DEF ParseFunction

----------------------------------------------------------------------------
\* Strings.

\* A string function at its end, and one that waits for more.
StringEnded(u, string, buf) == [resetParseFunction(u) EXCEPT !.vt.string = string, !.vt.buf = buf]

StringGoing(u, string) ==
  [u EXCEPT !.vt.string = string, !.vt.started = TRUE, !.vt.buf = <<>>]

LEMMA StringEndGood ==
  ASSUME NEW u, Good(u), NEW string, IsSeq(string), NEW buf, IsSeq(buf)
  PROVE  Good(StringEnded(u, string, buf)) /\ Good(StringGoing(u, string))
<1> DEFINE w == resetParseFunction(u)
           ended == [w.vt EXCEPT !.string = string, !.buf = buf]
           going == [u.vt EXCEPT !.string = string, !.started = TRUE, !.buf = <<>>]
<1>1. Good(w)
  BY ResetFunctionGood
<1> HIDE DEF w
<1>2. [w EXCEPT !.vt.string = string, !.vt.buf = buf] = Parsing(w, ended)
  <2>1. DOMAIN w = TerminalFields /\ DOMAIN w.vt = ParserFields
    BY <1>1, GoodParser DEF Good, Sound, Fit, Base
  <2> QED BY <2>1 DEF Parsing, TerminalFields, ParserFields
<1>3. [u EXCEPT !.vt.string = string, !.vt.started = TRUE, !.vt.buf = <<>>] = Parsing(u, going)
  <2>1. DOMAIN u = TerminalFields /\ DOMAIN u.vt = ParserFields
    BY GoodParser DEF Good, Sound, Fit, Base
  <2> QED BY <2>1 DEF Parsing, TerminalFields, ParserFields
<1>4. ParserOK(ended)
  BY <1>1, GoodParser DEF ParserOK, ParserFields
<1>5. ParserOK(going)
  BY GoodParser, NoArgsOK DEF ParserOK, ParserFields
<1> HIDE DEF ended, going
<1>6. Good(Parsing(w, ended)) /\ Good(Parsing(u, going))
  BY <1>1, <1>4, <1>5, ParsingGood
<1> QED BY <1>2, <1>3, <1>6 DEF w, StringEnded, StringGoing

LEMMA TerminatorGood ==
  ASSUME NEW u, Good(u)
  PROVE  Good(parseUntilStringTerminator_(u))
<1> DEFINE string == u.vt.string
           pending == string # <<>> /\ Last(string) = "ESC"
           before == IF pending THEN Front(string) ELSE string
           buf == IF pending THEN <<"ESC">> \o u.vt.buf ELSE u.vt.buf
           ends == {i \in DOMAIN buf : buf[i] \in {"ESC", "BEL"}}
           first == Min(ends)
           escape == ends # {} /\ buf[first] = "ESC"
           closed == escape /\ first < Len(buf) /\ buf[first + 1] = "\\"
           found == ends # {} /\ (escape => closed)
           embedded == escape /\ first < Len(buf)
           next == IF escape THEN first + 2 ELSE first + 1
           head == SubSeq(buf, 1, first - 1)
           rest == SubSeq(buf, next, Len(buf))
           ended == StringEnded(u, before \o head, rest)
           going == StringGoing(u, before \o buf)
<1>1. parseUntilStringTerminator_(u) =
        CASE found -> ended
          [] ~found /\ (embedded \/ u.vt.late) -> resetParseState(u, before \o buf)
          [] OTHER -> going
  BY Zenon DEF parseUntilStringTerminator_, StringEnded, StringGoing
<1>2. IsSeq(before) /\ IsSeq(buf)
  <2>1. IsSeq(string) /\ IsSeq(u.vt.buf) /\ IsSeq(<<"ESC">>)
    BY GoodParser, Tuples
  <2>2. string # <<>> => IsSeq(Front(string))
    <3>1. Len(string) \in Nat /\ (string = <<>> <=> Len(string) = 0)
      BY <2>1, SeqDomain
    <3> HIDE DEF string
    <3> QED BY <2>1, <3>1, FrontSeq
  <2>3. IsSeq(<<"ESC">> \o u.vt.buf)
    BY <2>1, ConcatSeq
  <2> QED BY <2>1, <2>2, <2>3, Zenon
<1> HIDE DEF pending, string, before, buf
<1>3. found => IsSeq(head) /\ IsSeq(rest)
  <2> SUFFICES ASSUME found PROVE IsSeq(head) /\ IsSeq(rest)
    OBVIOUS
  <2>1. Len(buf) \in Nat /\ DOMAIN buf = 1 .. Len(buf)
    BY <1>2, SeqDomain
  <2>2. \A i \in ends : i \in Int /\ 1 <= i /\ i <= Len(buf)
    BY <2>1
  <2>3. ends # {}
    OBVIOUS
  <2> HIDE DEF ends
  <2>4. first \in ends
    BY <2>2, <2>3, LeastNumber
  <2>5. first \in 1 .. Len(buf)
    BY <2>1, <2>2, <2>4
  <2> HIDE DEF first, escape, found
  <2>6. next \in Int /\ 1 <= next /\ first - 1 \in Int /\ first - 1 <= Len(buf)
    BY <2>1, <2>5
  <2> HIDE DEF next
  <2> QED BY <1>2, <2>1, <2>6, SubSeqSeq
<1>4. IsSeq(before \o buf)
  BY <1>2, ConcatSeq
<1> HIDE DEF ends, first, escape, closed, embedded, next, found, head, rest
<1>5. found => Good(ended)
  <2> SUFFICES ASSUME found PROVE Good(ended)
    OBVIOUS
  <2>1. IsSeq(before \o head)
    BY <1>2, <1>3, ConcatSeq
  <2> QED BY <1>3, <2>1, StringEndGood
<1>6. Good(going)
  BY <1>2, <1>4, StringEndGood
<1>7. Good(resetParseState(u, before \o buf))
  BY <1>4, ResetStateGood
<1> HIDE DEF ended, going
<1> QED BY <1>1, <1>5, <1>6, <1>7, Zenon

LEMMA DigitsSeq ==
  ASSUME NEW text, IsSeq(text)
  PROVE  IsSeq(DigitsOf(text)) /\ Len(DigitsOf(text)) \in Nat
<1> DEFINE others == {i \in DOMAIN text : text[i] \notin ToSet(Digits)}
           part == SubSeq(text, 1, Min(others) - 1)
<1>1. DigitsOf(text) = IF others = {} THEN text ELSE part
  BY DEF DigitsOf
<1>2. Len(text) \in Nat /\ DOMAIN text = 1 .. Len(text)
  BY SeqDomain
<1>3. others # {} => IsSeq(part)
  <2> SUFFICES ASSUME others # {} PROVE IsSeq(part)
    OBVIOUS
  <2>1. \A i \in others : i \in Int /\ 1 <= i /\ i <= Len(text)
    BY <1>2
  <2> HIDE DEF others
  <2>2. Min(others) \in others
    BY <2>1, LeastNumber
  <2> QED BY <1>2, <2>1, <2>2, SubSeqSeq
<1> HIDE DEF others, part
<1>4. IsSeq(DigitsOf(text))
  BY <1>1, <1>3
<1> QED BY <1>4, SeqDomain

----------------------------------------------------------------------------
\* OSC functions.

LEMMA ColorTextSeq ==
  ASSUME NEW rgb
  PROVE  IsSeq(rgbToX11(rgb))
<1> DEFINE Byte(n) == <<HexDigits[(n \div 16) + 1], HexDigits[(n % 16) + 1]>>
           Word(n) == Byte(n) \o Byte(n)
           start == <<"r", "g", "b", ":">>
           slash == <<"/">>
           red == Word(rgb[1])
           green == Word(rgb[2])
           blue == Word(rgb[3])
<1>1. rgbToX11(rgb) = start \o red \o slash \o green \o slash \o blue
  BY Zenon DEF rgbToX11
<1>2. IsSeq(start) /\ IsSeq(slash)
  BY Tuples, Zenon
<1>3. ASSUME NEW n PROVE IsSeq(Word(n))
  <2>1. IsSeq(Byte(n))
    BY Tuples, Zenon
  <2> HIDE DEF Byte
  <2> QED BY <2>1, ConcatSeq
<1> HIDE DEF Word
<1>4. IsSeq(red) /\ IsSeq(green) /\ IsSeq(blue)
  BY <1>3
<1> HIDE DEF start, slash, red, green, blue
<1>5. IsSeq(start \o red)
  BY <1>2, <1>4, ConcatSeq
<1>6. IsSeq(start \o red \o slash)
  BY <1>2, <1>5, ConcatSeq, Zenon
<1>7. IsSeq(start \o red \o slash \o green)
  BY <1>4, <1>6, ConcatSeq, Zenon
<1>8. IsSeq(start \o red \o slash \o green \o slash)
  BY <1>2, <1>7, ConcatSeq, Zenon
<1>9. IsSeq(start \o red \o slash \o green \o slash \o blue)
  BY <1>4, <1>8, ConcatSeq, Zenon
<1> QED BY <1>1, <1>9

LEMMA ColorAnswerSeq ==
  ASSUME NEW u, NEW n \in DOMAIN stockPalette
  PROVE  IsSeq(ColorAnswer(u, n))
<1> DEFINE mark == <<";">>
           number == Decimal(n)
           color == rgbToX11(getColorPalette(u, n))
<1>1. ColorAnswer(u, n) = mark \o number \o mark \o color
  BY Zenon DEF ColorAnswer
<1>2. IsSeq(mark)
  BY Tuples, Zenon
<1>3. n \in Nat
  BY DEF stockPalette
<1>4. IsSeq(number) /\ IsSeq(color)
  BY <1>3, DecimalSeq, ColorTextSeq
<1> HIDE DEF mark, number, color
<1>5. IsSeq(mark \o number)
  BY <1>2, <1>4, ConcatSeq
<1>6. IsSeq(mark \o number \o mark)
  BY <1>2, <1>5, ConcatSeq, Zenon
<1>7. IsSeq(mark \o number \o mark \o color)
  BY <1>4, <1>6, ConcatSeq, Zenon
<1> QED BY <1>1, <1>7

\* The pairs of OSC 4 one after another.
LEMMA PairsSteps ==
  ASSUME NEW u, NEW text, Len(PalettePairs(text)) \in Nat
  PROVE  \E f : /\ f[0] = [t |-> u, answers |-> <<>>, failed |-> FALSE]
                /\ \A i \in 1 .. Len(PalettePairs(text)) : f[i] = NextPair(f[i - 1], PalettePairs(text)[i])
                /\ SetPalette(u, text) = AnswerPairs(f[Len(PalettePairs(text))])
<1> DEFINE N == Len(PalettePairs(text))
           Step(f, i) == IF i = 0 THEN [t |-> u, answers |-> <<>>, failed |-> FALSE] ELSE NextPair(f[i - 1], PalettePairs(text)[i])
           Upto(n, f) == f = [i \in 0 .. n |-> Step(f, i)]
           S == {n \in Nat : \E f : Upto(n, f)}
<1>0. N \in Nat
  OBVIOUS
<1>1. 0 \in S
  <2> DEFINE f == [i \in 0 .. 0 |-> [t |-> u, answers |-> <<>>, failed |-> FALSE]]
  <2>1. Upto(0, f)
    OBVIOUS
  <2> QED BY <2>1
<1>2. ASSUME NEW n \in Nat, n \in S PROVE n + 1 \in S
  <2>1. PICK f : Upto(n, f)
    BY <1>2
  <2> DEFINE g == [i \in 0 .. n + 1 |-> IF i = n + 1 THEN Step(f, n + 1) ELSE f[i]]
  <2>2. ASSUME NEW i \in 0 .. n + 1 PROVE g[i] = Step(g, i)
    <3>1. i # 0 => i - 1 \in 0 .. n /\ g[i - 1] = f[i - 1]
      OBVIOUS
    <3>2. CASE i = n + 1
      <4>1. g[i] = Step(f, i)
        BY <3>2
      <4>2. i # 0
        BY <3>2
      <4> HIDE DEF g
      <4> QED BY <4>1, <4>2, <3>1
    <3>3. CASE i # n + 1
      <4>1. i \in 0 .. n /\ g[i] = f[i]
        BY <3>3
      <4>2. f[i] = Step(f, i)
        BY <2>1, <4>1
      <4> HIDE DEF g
      <4> QED BY <4>1, <4>2, <3>1
    <3> QED BY <3>2, <3>3
  <2> HIDE DEF Step
  <2>3. Upto(n + 1, g)
    BY <2>2
  <2>4. n + 1 \in Nat
    OBVIOUS
  <2> HIDE DEF g, Upto
  <2> QED BY <2>3, <2>4
<1>3. N \in S
  <2> HIDE DEF S, N
  <2> QED BY <1>0, <1>1, <1>2, SetInduction
<1> DEFINE taken == CHOOSE f : Upto(N, f)
<1>4. Upto(N, taken)
  BY <1>3
<1>5. SetPalette(u, text) = AnswerPairs(taken[Len(PalettePairs(text))])
  BY DEF SetPalette, Iterate
<1> HIDE DEF taken
<1>6. taken[0] = [t |-> u, answers |-> <<>>, failed |-> FALSE]
  BY <1>0, <1>4
<1>7. ASSUME NEW i \in 1 .. N PROVE taken[i] = NextPair(taken[i - 1], PalettePairs(text)[i])
  <2>1. i # 0 /\ i \in 0 .. N
    BY <1>0
  <2> HIDE DEF N, Step
  <2>2. taken[i] = Step(taken, i)
    BY <1>4, <2>1
  <2> QED BY <2>1, <2>2 DEF Step
<1> QED BY <1>5, <1>6, <1>7

\* The terminal and the answers while the pairs of OSC 4 are gone through.
PairsOK(acc) ==
  /\ DOMAIN acc = {"t", "answers", "failed"}
  /\ Good(acc.t) /\ IsSeq(acc.answers)

LEMMA NextPairOK ==
  ASSUME NEW acc, PairsOK(acc), NEW pair
  PROVE  PairsOK(NextPair(acc, pair))
<1> DEFINE rgb == x11ToCSS(pair[2])
           painted == setColorPalette(acc.t, pair[1], rgb)
           set == [acc EXCEPT !.t = painted]
           failed == [acc EXCEPT !.failed = TRUE]
           answers == acc.answers \o ColorAnswer(acc.t, pair[1])
           answered == [acc EXCEPT !.answers = answers]
           asks == pair[2] # <<"?">>
<1>1. SetPair(acc, pair[1], rgb) = IF rgb = NoRgb THEN acc ELSE set
  BY DEF SetPair
<1>2. NextPair(acc, pair) =
        CASE acc.failed \/ pair[1] >= PaletteSize -> acc
          [] ~acc.failed /\ pair[1] < PaletteSize /\ asks -> SetPair(acc, pair[1], rgb)
          [] OTHER -> IF pair[1] \notin DOMAIN stockPalette THEN failed
                      ELSE [acc EXCEPT !.answers = @ \o ColorAnswer(acc.t, pair[1])]
  BY Zenon DEF NextPair
<1>3. [acc EXCEPT !.answers = @ \o ColorAnswer(acc.t, pair[1])] = answered
  OBVIOUS
<1> HIDE DEF rgb
<1>4. Good(painted)
  BY SetPaletteGood DEF PairsOK
<1> HIDE DEF painted
<1>5. PairsOK(set) /\ PairsOK(failed)
  BY <1>4 DEF PairsOK
<1>6. pair[1] \in DOMAIN stockPalette => PairsOK(answered)
  <2> SUFFICES ASSUME pair[1] \in DOMAIN stockPalette PROVE PairsOK(answered)
    OBVIOUS
  <2>1. IsSeq(answers)
    BY ColorAnswerSeq, ConcatSeq DEF PairsOK
  <2> HIDE DEF answers
  <2> QED BY <2>1 DEF PairsOK
<1> HIDE DEF set, failed, answered, asks
<1>7. PairsOK(SetPair(acc, pair[1], rgb))
  BY <1>1, <1>5
<1> DEFINE one == SetPair(acc, pair[1], rgb)
           known == pair[1] \in DOMAIN stockPalette
           over == acc.failed \/ pair[1] >= PaletteSize
           sets == ~acc.failed /\ pair[1] < PaletteSize /\ asks
<1>8. NextPair(acc, pair) = CASE over -> acc [] sets -> one
                              [] OTHER -> IF ~known THEN failed ELSE answered
  BY <1>2, <1>3, Zenon
<1>9. PairsOK(one) /\ (known => PairsOK(answered))
  BY <1>6, <1>7
<1> HIDE DEF one, known, over, sets
<1> QED BY <1>5, <1>8, <1>9

LEMMA SetPalettePairsGood ==
  ASSUME NEW u, Good(u), NEW text, IsSeq(text)
  PROVE  Good(SetPalette(u, text))
<1> DEFINE pairs == PalettePairs(text)
<1>1. Len(pairs) \in Nat
  <2> DEFINE args == Split(text, ";")
             count == Len(args) \div 2
  <2>1. TextsOK(args)
    BY SplitOK, Zenon
  <2>2. pairs = [i \in 1 .. count |-> <<ParseInt(args[2 * i - 1]), args[2 * i]>>]
    BY Zenon DEF PalettePairs
  <2> HIDE DEF args, pairs
  <2>3. Len(args) \in Nat
    BY <2>1, SeqDomain DEF TextsOK
  <2>4. count \in Nat
    BY <2>3
  <2> HIDE DEF count
  <2>5. DOMAIN pairs = 1 .. count /\ pairs = [i \in DOMAIN pairs |-> pairs[i]]
    BY <2>2
  <2>6. Len(pairs) = count
    BY <2>4, <2>5, SeqFunction
  <2> QED BY <2>4, <2>6
<1>2. PICK f : /\ f[0] = [t |-> u, answers |-> <<>>, failed |-> FALSE]
               /\ \A i \in 1 .. Len(pairs) : f[i] = NextPair(f[i - 1], pairs[i])
               /\ SetPalette(u, text) = AnswerPairs(f[Len(pairs)])
  BY <1>1, PairsSteps
<1> HIDE DEF pairs
<1> DEFINE S == {i \in Nat : i <= Len(pairs) => PairsOK(f[i])}
<1>4. 0 \in S
  <2>1. PairsOK(f[0])
    BY <1>2, NoArgsOK DEF PairsOK
  <2> QED BY <2>1
<1>5. ASSUME NEW i \in Nat, i \in S PROVE i + 1 \in S
  <2>1. ASSUME i + 1 <= Len(pairs) PROVE PairsOK(f[i + 1])
    <3> DEFINE j == i + 1
               old == f[i]
    <3>1. j \in 1 .. Len(pairs) /\ j - 1 = i /\ PairsOK(old)
      BY <1>1, <1>5, <2>1
    <3>2. f[j] = NextPair(old, pairs[j])
      BY <1>2, <3>1
    <3> HIDE DEF j, old
    <3> QED BY <3>1, <3>2, NextPairOK DEF j
  <2> QED BY <2>1
<1>6. Len(pairs) \in S
  <2> HIDE DEF S
  <2> QED BY <1>1, <1>4, <1>5, SetInduction
<1> DEFINE acc == f[Len(pairs)]
           answer == <<"ESC", "]", "4">> \o acc.answers \o <<"BEL">>
           answers == ~acc.failed /\ acc.answers # <<>>
<1>7. Good(acc.t) /\ IsSeq(acc.answers)
  BY <1>1, <1>6 DEF PairsOK
<1> HIDE DEF acc
<1>8. IsSeq(answer)
  <2>1. IsSeq(<<"ESC", "]", "4">>) /\ IsSeq(<<"BEL">>)
    BY Tuples, Zenon
  <2>2. IsSeq(<<"ESC", "]", "4">> \o acc.answers)
    BY <1>7, <2>1, ConcatSeq, Zenon
  <2> QED BY <2>1, <2>2, ConcatSeq, Zenon
<1>9. AnswerPairs(acc) = CASE acc.failed -> resetBuf(acc.t, <<>>)
                           [] answers -> sendString(acc.t, answer)
                           [] OTHER -> acc.t
  BY Zenon DEF AnswerPairs
<1> HIDE DEF answer, answers
<1>10. Good(resetBuf(acc.t, <<>>)) /\ Good(sendString(acc.t, answer))
  BY <1>7, <1>8, NoArgsOK, ResetBufGood, SendGood
<1> QED BY <1>2, <1>7, <1>9, <1>10 DEF acc

LEMMA HyperlinkGood ==
  ASSUME NEW u, Good(u), NEW text
  PROVE  Good(Hyperlink(u, text))
<1> DEFINE args == Split(text, ";")
           starts == Len(args) = 2 /\ args[2] # <<>>
           old == u.screens[u.current].textAttributes
           flags == IF starts THEN old.flags \cup {"uri"} ELSE old.flags \ {"uri"}
           attrs == [old EXCEPT !.flags = flags]
<1>1. Hyperlink(u, text) =
        [u EXCEPT !.screens[u.current].textAttributes.flags =
                    IF starts THEN @ \cup {"uri"} ELSE @ \ {"uri"}]
  BY Zenon DEF Hyperlink
<1> HIDE DEF starts
<1>2. Hyperlink(u, text) = [u EXCEPT !.screens[u.current].textAttributes = attrs]
  BY <1>1
<1> HIDE DEF attrs
<1> QED BY <1>2, AttributesGood

LEMMA ColorsGood ==
  ASSUME NEW u, Good(u), NEW first, NEW text
  PROVE  Good(SetColors(u, first, text))
<1>1. ASSUME NEW w, Good(w), NEW code \in {10, 11, 12}, NEW rgb
      PROVE  Good(SetColor10(w, code, rgb))
  <2>1. /\ Good(setForegroundColor(w, rgb)) /\ Good(setBackgroundColor(w, rgb))
        /\ Good(setCursorColor(w, rgb))
    BY <1>1, ForegroundGood, BackgroundGood, CursorColorGood
  <2> DEFINE none == rgb = NoRgb
  <2>2. SetColor10(w, code, rgb) =
          CASE none -> w
            [] ~none /\ code = 10 -> setForegroundColor(w, rgb)
            [] ~none /\ code = 11 -> setBackgroundColor(w, rgb)
            [] ~none /\ code = 12 -> setCursorColor(w, rgb)
    BY Zenon DEF SetColor10
  <2> HIDE DEF none
  <2> QED BY <1>1, <2>1, <2>2
<1> DEFINE args == Split(text, ";")
           Given(code) == IF code - first + 1 \in DOMAIN args
                          THEN x11ToCSS(args[code - first + 1]) ELSE NoRgb
           one == SetColor10(u, 10, Given(10))
           two == SetColor10(one, 11, Given(11))
<1>2. SetColors(u, first, text) = SetColor10(two, 12, Given(12))
  BY Zenon DEF SetColors
<1> HIDE DEF Given
<1>3. Good(one)
  BY <1>1
<1> HIDE DEF one
<1>4. Good(two)
  BY <1>1, <1>3
<1> HIDE DEF two
<1>5. Good(SetColor10(two, 12, Given(12)))
  BY <1>1, <1>4
<1> QED BY <1>2, <1>5

LEMMA SetShapeGood ==
  ASSUME NEW u, Good(u), NEW text
  PROVE  Good(SetShape(u, text))
<1> DEFINE size == Len(ShapeName)
           found == {i \in 1 .. Len(text) - size : SubSeq(text, i, i + size - 1) = ShapeName}
           shape == text[Min(found) + size]
           name == CASE shape = "1" -> "BEAM" [] shape = "2" -> "UNDERLINE" [] OTHER -> "BLOCK"
<1>1. SetShape(u, text) = IF found = {} THEN u ELSE setCursorShape(u, name)
  BY Zenon DEF SetShape
<1> HIDE DEF found, name
<1> QED BY <1>1, ShapeGood

LEMMA ResetPalettePlacesGood ==
  ASSUME NEW u, Good(u), NEW text
  PROVE  Good(ResetPalette(u, text))
<1> DEFINE Named(arg) == IF arg = <<>> \/ Decimal(Max({ParseInt(arg), 0})) # arg THEN -1
                         ELSE ParseInt(arg)
           places == {Named(arg) : arg \in ToSet(Split(text, ";"))} \cap (0 .. 255)
<1>1. ResetPalette(u, text) = IF text = <<>> THEN resetColorPalette(u) ELSE resetColors(u, places)
  BY Zenon DEF ResetPalette
<1> HIDE DEF places
<1> QED BY <1>1, ResetPaletteGood, ResetColorsGood

LEMMA DispatchOSCGood ==
  ASSUME NEW u, Good(u), NEW code, NEW text, IsSeq(text)
  PROVE  Good(DispatchOSC(u, code, text))
<1>1. Good(setWindowTitle(u, text)) /\ Good(SetPalette(u, text)) /\ Good(Hyperlink(u, text))
  BY TitleGood, SetPalettePairsGood, HyperlinkGood
<1>2. /\ Good(SetColors(u, 10, text)) /\ Good(SetColors(u, 11, text))
      /\ Good(SetColors(u, 12, text))
  BY ColorsGood
<1>3. Good(SetShape(u, text)) /\ Good(ResetPalette(u, text))
  BY SetShapeGood, ResetPalettePlacesGood
<1>4. /\ Good(setForegroundColor(u, DefaultForeground))
      /\ Good(setBackgroundColor(u, DefaultBackground))
      /\ Good(setCursorColor(u, DefaultCursor))
  BY ForegroundGood, BackgroundGood, CursorColorGood
<1> DEFINE titled == code \in {<<"0">>, <<"2">>}
           is4 == code = <<"4">>
           is8 == code = <<"8">>
           is10 == code = <<"1", "0">>
           is11 == code = <<"1", "1">>
           is12 == code = <<"1", "2">>
           is50 == code = <<"5", "0">>
           is104 == code = <<"1", "0", "4">>
           is110 == code = <<"1", "1", "0">>
           is111 == code = <<"1", "1", "1">>
           is112 == code = <<"1", "1", "2">>
<1>5. DispatchOSC(u, code, text) =
        CASE titled -> setWindowTitle(u, text)
          [] is4 -> SetPalette(u, text)
          [] is8 -> Hyperlink(u, text)
          [] is10 -> SetColors(u, 10, text)
          [] is11 -> SetColors(u, 11, text)
          [] is12 -> SetColors(u, 12, text)
          [] is50 -> SetShape(u, text)
          [] is104 -> ResetPalette(u, text)
          [] is110 -> setForegroundColor(u, DefaultForeground)
          [] is111 -> setBackgroundColor(u, DefaultBackground)
          [] is112 -> setCursorColor(u, DefaultCursor)
          [] OTHER -> u
  BY Zenon DEF DispatchOSC
<1> HIDE DEF titled, is4, is8, is10, is11, is12, is50, is104, is110, is111, is112
<1> QED BY <1>1, <1>2, <1>3, <1>4, <1>5

LEMMA EndOSCGood ==
  ASSUME NEW u, Good(u), NEW string, IsSeq(string), NEW code, Len(code) \in Nat
  PROVE  Good(EndOSC(u, string, code))
<1> DEFINE rest == SubSeq(string, Len(code) + 1, Len(string))
           separated == rest # <<>> /\ Head(rest) = ";"
           text == IF separated THEN Tail(rest) ELSE rest
           going == u.vt.func = "OSC"
           complete == code # <<>> /\ ToSet(text) \cap {"CR", "LF"} = {}
<1>1. EndOSC(u, string, code) =
        CASE going -> u
          [] ~going /\ code # <<>> /\ ToSet(text) \cap {"CR", "LF"} = {} ->
               resetArguments(DispatchOSC(u, code, text))
          [] OTHER -> resetArguments(u)
  BY Zenon DEF EndOSC
<1>2. Len(string) \in Nat
  BY SeqDomain
<1>3. IsSeq(rest)
  BY <1>2, SubSeqSeq
<1> HIDE DEF rest
<1>4. separated => rest # <<>>
  BY Zenon
<1> HIDE DEF separated
<1>5. IsSeq(text)
  BY <1>3, <1>4, TailSeq
<1> HIDE DEF text
<1>6. Good(DispatchOSC(u, code, text))
  BY <1>5, DispatchOSCGood
<1>7. Good(resetArguments(DispatchOSC(u, code, text))) /\ Good(resetArguments(u))
  BY <1>6, ResetArgumentsGood
<1> QED BY <1>1, <1>7, Zenon

LEMMA OSCGood ==
  ASSUME NEW u, Good(u)
  PROVE  Good(parseOSC(u)) /\ Good(parseTitle(u))
<1> DEFINE w == parseUntilStringTerminator_(u)
<1>1. Good(w)
  BY TerminatorGood
<1>2. parseOSC(u) = ReadOSC(w) /\ parseTitle(u) = EndTitle(w)
  BY DEF parseOSC, parseTitle
<1> HIDE DEF w
<1>3. IsSeq(w.vt.string)
  BY <1>1, GoodParser
<1>4. Len(DigitsOf(w.vt.string)) \in Nat
  BY <1>3, DigitsSeq
<1>5. Good(ReadOSC(w))
  BY <1>1, <1>3, <1>4, EndOSCGood DEF ReadOSC
<1>6. Good(EndTitle(w))
  BY <1>1, ResetArgumentsGood, Zenon DEF EndTitle
<1> QED BY <1>2, <1>5, <1>6

----------------------------------------------------------------------------
\* Every step of the parser.

LEMMA ESCGood ==
  ASSUME NEW u, Good(u), u.vt.buf # <<>>
  PROVE  Good(parseESC(u))
<1> DEFINE ch == Head(u.vt.buf)
           w == DispatchESC(advance(u), ch)
<1>1. parseESC(u) = IF ch = "ESC" THEN advance(u) ELSE EndESC(w)
  BY Zenon DEF parseESC
<1>2. Good(advance(u))
  BY AdvanceGood
<1>3. Good(w)
  <2> HIDE DEF ch
  <2> QED BY <1>2, DispatchESCGood
<1> HIDE DEF w, ch
<1>4. Good(EndESC(w))
  BY <1>3, ResetFunctionGood, Zenon DEF EndESC
<1> QED BY <1>1, <1>2, <1>4, Zenon

LEMMA NextGood ==
  ASSUME NEW u, Good(u), u.vt.buf # <<>>
  PROVE  Good(parseNext(u))
<1> DEFINE ch == Head(u.vt.buf)
           rest == resetParseFunction(advance(u))
           code == u.vt.code
           ends == rest.vt.buf # <<>>
           locked == [advance(rest) EXCEPT !.encoding = LockEncoding(@, Head(rest.vt.buf))]
           encoded == [rest EXCEPT !.encoding = setEncoding(@, ch)]
           designated == [rest EXCEPT !.charsets = Designate(@, code, ch)]
           filled == fill(setCursorPosition(rest, 0, 0), "E")
           fills == code = "#" /\ ch = "8"
           locks == code = "%" /\ ch = "/" /\ ends
           encodes == code = "%" /\ ch # "/"
           fails == code \in DOMAIN Designated /\ ch = "ESC"
           designates == code \in DOMAIN Designated /\ ch # "ESC"
<1>1. parseNext(u) =
        CASE code = "#" /\ ch = "8" -> filled
          [] code = "%" /\ ch = "/" /\ rest.vt.buf # <<>> -> locked
          [] code = "%" /\ ch # "/" -> encoded
          [] code \in DOMAIN Designated /\ ch = "ESC" -> resetBuf(rest, <<>>)
          [] code \in DOMAIN Designated /\ ch # "ESC" -> designated
          [] OTHER -> rest
  BY Zenon DEF parseNext
<1>2. Good(rest)
  BY AdvanceGood, ResetFunctionGood
<1>3. Good(filled)
  <2> HIDE DEF rest
  <2>1. Good(setCursorPosition(rest, 0, 0))
    BY <1>2, PositionGood DEF Good
  <2> QED BY <2>1, FillGood
<1>4. ends => Good(locked)
  <2> SUFFICES ASSUME ends PROVE Good(locked)
    OBVIOUS
  <2> HIDE DEF rest
  <2> DEFINE w == advance(rest)
             new == LockEncoding(w.encoding, Head(rest.vt.buf))
  <2>1. Good(w)
    BY <1>2, AdvanceGood
  <2> HIDE DEF w
  <2>2. locked = [w EXCEPT !.encoding = new]
    BY DEF w
  <2> HIDE DEF new, locked
  <2> QED BY <2>1, <2>2, EncodingGood
<1>5. Good(encoded)
  <2> HIDE DEF rest
  <2> DEFINE new == setEncoding(rest.encoding, ch)
  <2>1. encoded = [rest EXCEPT !.encoding = new]
    OBVIOUS
  <2> HIDE DEF new, encoded
  <2> QED BY <1>2, <2>1, EncodingGood
<1>6. Good(designated)
  <2> HIDE DEF rest
  <2> DEFINE new == Designate(rest.charsets, code, ch)
  <2>1. designated = [rest EXCEPT !.charsets = new]
    OBVIOUS
  <2> HIDE DEF new, designated
  <2> QED BY <1>2, <2>1, CharsetsGood
<1>7. Good(resetBuf(rest, <<>>))
  <2> HIDE DEF rest
  <2> QED BY <1>2, NoArgsOK, ResetBufGood
<1>8. parseNext(u) =
        CASE fills -> filled
          [] locks -> locked
          [] encodes -> encoded
          [] fails -> resetBuf(rest, <<>>)
          [] designates -> designated
          [] OTHER -> rest
  BY <1>1, Zenon
<1>9. locks => Good(locked)
  BY <1>4, Zenon
<1> HIDE DEF fills, locks, encodes, fails, designates, locked, encoded, designated, filled, rest
<1> QED BY <1>2, <1>3, <1>5, <1>6, <1>7, <1>8, <1>9

LEMMA ParseStepGood ==
  ASSUME NEW u, Good(u), u.vt.buf # <<>>
  PROVE  Good(ParseStep(u))
<1> DEFINE ch == Head(u.vt.buf)
           executed == DispatchCC1(advance(u), ch)
           parsed == ParseFunction(advance(u), ch)
           func == u.vt.func
<1>1. Good(advance(u))
  BY AdvanceGood
<1>2. Good(executed) /\ Good(parsed)
  <2> HIDE DEF ch
  <2> QED BY <1>1, CC1Good, ParseFunctionGood
<1>3. Good(parseUnknown_(u)) /\ Good(parseESC(u)) /\ Good(parseNext(u))
  BY UnknownGood, ESCGood, NextGood
<1>4. Good(parseOSC(u)) /\ Good(parseTitle(u)) /\ Good(parseUntilStringTerminator_(u))
  BY OSCGood, TerminatorGood
<1>5. func \in ParseFunctions
  BY GoodParser
<1>6. ParseStep(u) =
        CASE AtControl(u) -> executed
          [] ~AtControl(u) /\ func = "unknown" -> parseUnknown_(u)
          [] func = "ESC"     -> parseESC(u)
          [] func = "next"    -> parseNext(u)
          [] ~AtControl(u) /\ func \in {"CSI", "DCS"} -> parsed
          [] func = "OSC"     -> parseOSC(u)
          [] func = "title"   -> parseTitle(u)
          [] func = "skip"    -> parseUntilStringTerminator_(u)
  BY Zenon DEF ParseStep
<1> HIDE DEF executed, parsed, func
<1> QED BY <1>2, <1>3, <1>4, <1>5, <1>6 DEF ParseFunctions, StringFunctions

LEMMA ParseRoundGood ==
  ASSUME NEW u, Good(u)
  PROVE  Good(ParseRound(u))
<1>1. ASSUME NEW w, Good(w) PROVE Good(ParseNext(w))
  <2>1. w.vt.buf # <<>> => Good(ParseStep(w))
    BY <1>1, ParseStepGood
  <2> QED BY <1>1, <2>1 DEF ParseNext
<1>2. CASE u.vt.buf = <<>>
  BY <1>2 DEF ParseRound
<1>3. CASE u.vt.buf # <<>>
  <2>1. Good(ParseNext(ParseNext(ParseNext(ParseNext(u)))))
    BY <1>1
  <2>2. ParseRound(u) = ParseNext(ParseNext(ParseNext(ParseNext(u))))
    BY Zenon, <1>3 DEF ParseRound, FourTimes
  <2> QED BY <2>1, <2>2
<1> QED BY <1>2, <1>3

\* The rounds of the parser.
LEMMA ParseRounds ==
  ASSUME NEW u, Rounds(u) \in Nat
  PROVE  \E f : /\ f[0] = u
                /\ \A i \in 1 .. Rounds(u) : f[i] = ParseRound(f[i - 1])
                /\ Parse(u) = resetBuf(f[Rounds(u)], <<>>)
<1> DEFINE N == Rounds(u)
           Step(f, i) == IF i = 0 THEN u ELSE ParseRound(f[i - 1])
           Upto(n, f) == f = [i \in 0 .. n |-> Step(f, i)]
           S == {n \in Nat : \E f : Upto(n, f)}
<1>0. N \in Nat
  OBVIOUS
<1>1. 0 \in S
  <2> DEFINE f == [i \in 0 .. 0 |-> u]
  <2>1. Upto(0, f)
    OBVIOUS
  <2> QED BY <2>1
<1>2. ASSUME NEW n \in Nat, n \in S PROVE n + 1 \in S
  <2>1. PICK f : Upto(n, f)
    BY <1>2
  <2> DEFINE g == [i \in 0 .. n + 1 |-> IF i = n + 1 THEN Step(f, n + 1) ELSE f[i]]
  <2>2. ASSUME NEW i \in 0 .. n + 1 PROVE g[i] = Step(g, i)
    <3>1. i # 0 => i - 1 \in 0 .. n /\ g[i - 1] = f[i - 1]
      OBVIOUS
    <3>2. CASE i = n + 1
      <4>1. g[i] = Step(f, i)
        BY <3>2
      <4>2. i # 0
        BY <3>2
      <4> HIDE DEF g
      <4> QED BY <4>1, <4>2, <3>1
    <3>3. CASE i # n + 1
      <4>1. i \in 0 .. n /\ g[i] = f[i]
        BY <3>3
      <4>2. f[i] = Step(f, i)
        BY <2>1, <4>1
      <4> HIDE DEF g
      <4> QED BY <4>1, <4>2, <3>1
    <3> QED BY <3>2, <3>3
  <2> HIDE DEF Step
  <2>3. Upto(n + 1, g)
    BY <2>2
  <2>4. n + 1 \in Nat
    OBVIOUS
  <2> HIDE DEF g, Upto
  <2> QED BY <2>3, <2>4
<1>3. N \in S
  <2> HIDE DEF S, N
  <2> QED BY <1>0, <1>1, <1>2, SetInduction
<1> DEFINE taken == CHOOSE f : Upto(N, f)
<1>4. Upto(N, taken)
  BY <1>3
<1>5. Parse(u) = resetBuf(taken[Rounds(u)], <<>>)
  BY DEF Parse, Iterate
<1> HIDE DEF taken
<1>6. taken[0] = u
  BY <1>0, <1>4
<1>7. ASSUME NEW i \in 1 .. N PROVE taken[i] = ParseRound(taken[i - 1])
  <2>1. i # 0 /\ i \in 0 .. N
    BY <1>0
  <2> HIDE DEF N, Step
  <2>2. taken[i] = Step(taken, i)
    BY <1>4, <2>1
  <2> QED BY <2>1, <2>2 DEF Step
<1> QED BY <1>5, <1>6, <1>7

LEMMA RoundsNat ==
  ASSUME NEW a \in Nat, NEW b \in Nat, NEW c \in Nat
  PROVE  (a + b) \div 2 + 1 + c \in Nat
<1> DEFINE half == (a + b) \div 2
<1>1. half \in Nat
  OBVIOUS
<1> HIDE DEF half
<1>2. half + 1 + c \in Nat
  BY <1>1
<1> QED BY <1>2 DEF half

LEMMA ParseGood ==
  ASSUME NEW u, Good(u)
  PROVE  Good(Parse(u)) /\ Parse(u).vt.buf = <<>>
<1> DEFINE count == Rounds(u)
<1>1. count \in Nat
  <2>1. Len(u.vt.string) \in Nat /\ Len(u.vt.buf) \in Nat
    BY GoodParser, SeqDomain
  <2>2. AnswerRounds \in Nat
    BY AnswerAssumption
  <2>3. Rounds(u) = (Len(u.vt.string) + Len(u.vt.buf)) \div 2 + 1 + AnswerRounds
    BY Zenon DEF Rounds
  <2> QED BY <2>1, <2>2, <2>3, RoundsNat
<1>2. PICK f : /\ f[0] = u
               /\ \A i \in 1 .. count : f[i] = ParseRound(f[i - 1])
               /\ Parse(u) = resetBuf(f[count], <<>>)
  BY <1>1, ParseRounds
<1> HIDE DEF count
<1> DEFINE S == {i \in Nat : i <= count => Good(f[i])}
<1>4. 0 \in S
  BY <1>2
<1>5. ASSUME NEW i \in Nat, i \in S PROVE i + 1 \in S
  <2>1. ASSUME i + 1 <= count PROVE Good(f[i + 1])
    <3> DEFINE j == i + 1
               old == f[i]
    <3>1. j \in 1 .. count /\ j - 1 = i /\ Good(old)
      BY <1>1, <1>5, <2>1
    <3>2. f[j] = ParseRound(old)
      BY <1>2, <3>1
    <3> HIDE DEF j, old
    <3> QED BY <3>1, <3>2, ParseRoundGood DEF j
  <2> QED BY <2>1
<1>6. count \in S
  <2> HIDE DEF S
  <2> QED BY <1>1, <1>4, <1>5, SetInduction
<1> DEFINE last == f[count]
<1>7. Good(last)
  BY <1>1, <1>6
<1> HIDE DEF last
<1>8. Good(resetBuf(last, <<>>)) /\ resetBuf(last, <<>>).vt.buf = <<>>
  BY <1>7, NoArgsOK, ResetBufGood
<1> QED BY <1>2, <1>8 DEF last

\* Whatever text is interpreted, the terminal is good after it.
LEMMA InterpretGood ==
  ASSUME NEW u, Good(u), NEW str, IsSeq(str)
  PROVE  Good(interpret(u, str)) /\ interpret(u, str).vt.buf = <<>>
<1>1. Good(resetBuf(u, str))
  BY ResetBufGood
<1> QED BY <1>1, ParseGood DEF interpret

----------------------------------------------------------------------------
\* What the user does.

\* Reports of the mouse are texts.
LEMMA MouseReportSeq ==
  ASSUME NEW u, NEW type \in DOMAIN ButtonSGR
  PROVE  IsSeq(MouseReport(u, type))
<1> DEFINE number == Decimal(ButtonSGR[type])
           last == IF type = "mouseup" THEN "m" ELSE "M"
           code == ButtonX10[type]
           first == CSI \o <<"<">>
           second == first \o number
           third == second \o <<";", "1", ";", "1">>
           sgr == third \o <<last>>
           x10 == CSI \o <<"M", code, "!", "!">>
           precise == u.vt.mouseCoordinates = "SGR"
<1>1. MouseReport(u, type) = IF precise THEN sgr ELSE x10
  BY Zenon DEF MouseReport
<1>2. IsSeq(number)
  <2> DEFINE button == ButtonSGR[type]
  <2>1. button \in Nat
    BY DEF ButtonSGR
  <2> HIDE DEF button
  <2>2. IsSeq(Decimal(button))
    BY <2>1, DecimalSeq
  <2> QED BY <2>2 DEF button
<1> HIDE DEF number, last, code, precise
<1>3. IsSeq(CSI)
  BY CSISeq
<1>4. IsSeq(<<"<">>) /\ IsSeq(<<last>>)
  BY Tuples, Zenon
<1>5. IsSeq(<<";", "1", ";", "1">>)
  BY Tuples, Zenon
<1>6. IsSeq(<<"M", code, "!", "!">>)
  BY Tuples, Zenon
<1>7. IsSeq(first)
  BY <1>3, <1>4, ConcatSeq, Zenon
<1>8. IsSeq(second)
  BY <1>2, <1>7, ConcatSeq, Zenon
<1>9. IsSeq(third)
  BY <1>5, <1>8, ConcatSeq, Zenon
<1>10. IsSeq(sgr)
  BY <1>4, <1>9, ConcatSeq, Zenon
<1>11. IsSeq(x10)
  BY <1>3, <1>6, ConcatSeq, Zenon
<1> HIDE DEF sgr, x10
<1> QED BY <1>1, <1>10, <1>11

LEMMA ReportSeq ==
  ASSUME NEW u, NEW type \in DOMAIN ButtonSGR
  PROVE  IsSeq(onTerminalMouse_(u, type)) /\ IsSeq(WheelArrows(u, type))
<1>1. IsSeq(MouseReport(u, type)) /\ IsSeq(<<>>)
  BY MouseReportSeq, EmptySequence
<1>2. IsSeq(<<"ESC", "O", "A">>)
  BY Tuples
<1>3. onTerminalMouse_(u, type) \in {<<>>, MouseReport(u, type)}
  BY DEF onTerminalMouse_
<1>4. WheelArrows(u, type) \in {<<>>, <<"ESC", "O", "A">>}
  BY DEF WheelArrows
<1> QED BY <1>1, <1>2, <1>3, <1>4

LEMMA MouseGood ==
  ASSUME NEW u, Good(u), u.vt.buf = <<>>, NEW type \in DOMAIN ButtonSGR, NEW altKey, NEW isCollapsed
  PROVE  LET v == onMouse_(u, type, altKey, isCollapsed) IN Good(v) /\ v.vt.buf = <<>>
<1> DEFINE reports == "defeatMouseReports" \notin u.vt.modes /\ u.vt.mouseReport # "disabled"
           stopped == altKey \/ ~reports
           set == setMode(u, "defeatMouseReports", stopped)
           pressed == IF type = "mousedown" THEN set ELSE u
           report == IF reports THEN onTerminalMouse_(u, type) ELSE WheelArrows(u, type)
           moves == type = "mousemove" /\ report # <<>>
           parser == [pressed.vt EXCEPT !.dragged = report]
           moved == Parsing(pressed, parser)
           asked_ == IF moves THEN moved ELSE pressed
           sent == interpret(asked_, report)
           released == setMode(sent, "defeatMouseReports", FALSE)
           v == onMouse_(u, type, altKey, isCollapsed)
<1>1. v = Released(SendReport(pressed, type, report), type, isCollapsed)
  BY DEF onMouse_
<1>2. IsSeq(report)
  BY ReportSeq
<1>3. Good(set)
  BY SetModeGood
<1> HIDE DEF reports, stopped, report, v
<1>4. Good(pressed)
  BY <1>3
<1> HIDE DEF set, pressed
<1>5. Good(moved)
  <2>1. /\ DOMAIN parser = ParserFields /\ parser.func \in ParseFunctions
        /\ parser.buf = pressed.vt.buf /\ parser.string = pressed.vt.string
        /\ parser.args = pressed.vt.args
    BY <1>4, GoodParser DEF ParserFields, ParseFunctions
  <2> HIDE DEF parser
  <2> QED BY <1>4, <2>1, ParserChanged
<1>6. SendReport(pressed, type, report) = sent
  BY DEF SendReport, Parsing
<1> HIDE DEF moves, moved
<1>7. Good(asked_)
  BY <1>4, <1>5
<1> HIDE DEF asked_
<1>8. Good(sent) /\ sent.vt.buf = <<>>
  BY <1>2, <1>7, InterpretGood
<1> HIDE DEF sent
<1>9. Good(released) /\ released.vt.buf = <<>>
  BY <1>8, SetModeGood
<1>10. v \in {released, sent}
  BY <1>1, <1>6 DEF Released
<1> HIDE DEF released
<1>11. Good(v) /\ v.vt.buf = <<>>
  BY <1>8, <1>9, <1>10
<1> QED BY <1>11 DEF v

LEMMA PasteGood ==
  ASSUME NEW u, Good(u), NEW text, IsSeq(text)
  PROVE  LET v == onPasteData_(u, text) IN Good(v) /\ v.vt.buf = <<>>
<1> DEFINE data == [i \in DOMAIN text |-> IF text[i] = "LF" THEN "CR" ELSE text[i]]
           first == CSI \o <<"2", "0", "0", "~">>
           second == first \o Filtered(data)
           third == second \o CSI
           whole == third \o <<"2", "0", "1", "~">>
           bracketed == "bracketedPaste" \in u.options
           str == IF bracketed THEN whole ELSE data
           v == onPasteData_(u, text)
<1>1. v = interpret(u, str)
  BY Zenon DEF onPasteData_
<1>2. IsSeq(data)
  <2>1. DOMAIN text = 1 .. Len(text) /\ Len(text) \in Nat
    BY SeqDomain
  <2>2. DOMAIN data = 1 .. Len(text) /\ data = [i \in DOMAIN data |-> data[i]]
    BY <2>1
  <2> HIDE DEF data
  <2> QED BY <2>1, <2>2, SeqFunction
<1> HIDE DEF data, bracketed, v
<1>3. IsSeq(CSI) /\ IsSeq(Filtered(data))
  BY <1>2, CSISeq, FilteredSeq
<1>4. IsSeq(<<"2", "0", "0", "~">>) /\ IsSeq(<<"2", "0", "1", "~">>)
  BY Tuples, Zenon
<1>5. IsSeq(first)
  BY <1>3, <1>4, ConcatSeq, Zenon
<1>6. IsSeq(second)
  BY <1>3, <1>5, ConcatSeq, Zenon
<1>7. IsSeq(third)
  BY <1>3, <1>6, ConcatSeq, Zenon
<1>8. IsSeq(whole)
  BY <1>4, <1>7, ConcatSeq, Zenon
<1> HIDE DEF whole
<1>9. IsSeq(str)
  BY <1>2, <1>8
<1> HIDE DEF str
<1>10. Good(v) /\ v.vt.buf = <<>>
  BY <1>1, <1>9, InterpretGood
<1> QED BY <1>10 DEF v

LEMMA FocusGood ==
  ASSUME NEW u, Good(u), u.vt.buf = <<>>, NEW focused
  PROVE  LET v == onFocusChange_(u, focused) IN Good(v) /\ v.vt.buf = <<>>
<1> DEFINE ch == IF focused THEN "I" ELSE "O"
           report == CSI \o <<ch>>
           told == interpret(u, report)
           v == onFocusChange_(u, focused)
<1>1. v \in {told, u}
  BY Zenon DEF onFocusChange_
<1> HIDE DEF ch, v
<1>2. IsSeq(CSI) /\ IsSeq(<<ch>>)
  BY CSISeq, Tuples, Zenon
<1>3. IsSeq(report)
  BY <1>2, ConcatSeq, Zenon
<1> HIDE DEF report
<1>4. Good(told) /\ told.vt.buf = <<>>
  BY <1>3, InterpretGood
<1> HIDE DEF told
<1>5. Good(v) /\ v.vt.buf = <<>>
  BY <1>1, <1>4
<1> QED BY <1>5 DEF v

LEMMA PrintlnGood ==
  ASSUME NEW u, Good(u), NEW log, IsSeq(log)
  PROVE  Good(println(u, log)) /\ println(u, log).vt.buf = <<>>
<1> DEFINE line == log \o NewLine
<1>1. IsSeq(NewLine)
  BY Tuples, Zenon DEF NewLine
<1>2. IsSeq(line)
  BY <1>1, ConcatSeq, Zenon
<1>3. println(u, log) = interpret(u, line)
  BY Zenon DEF println
<1> HIDE DEF line
<1> QED BY <1>2, <1>3, InterpretGood

----------------------------------------------------------------------------
\* The invariant of the online page's terminal.

DisplayInv == events \in 0 .. MaxEvents /\ Good(t) /\ t.vt.buf = <<>>

LEMMA HappensInv ==
  ASSUME DisplayInv, NEW u, Good(u), u.vt.buf = <<>>, Happens(u)
  PROVE  DisplayInv'
<1>1. events \in Nat /\ MaxEvents \in Nat
  BY DisplayAssumption DEF DisplayInv
<1>2. events' \in 0 .. MaxEvents /\ t' = u
  BY <1>1 DEF Happens
<1> QED BY <1>2 DEF DisplayInv

LEMMA LogsSeq ==
  /\ \A log \in Logs : IsSeq(log)
  /\ \A text \in Pasted : IsSeq(text)
<1>1. \A log \in Logs : log \in Seq(STRING)
  BY DisplayAssumption
<1>2. \A text \in Pasted : text \in Seq(STRING)
  BY DisplayAssumption
<1> QED BY <1>1, <1>2, SeqAny

LEMMA DisplayInitInv == Init => DisplayInv
<1> SUFFICES ASSUME Init PROVE DisplayInv
  OBVIOUS
<1>1. PICK size \in FirstSizes : t = NewTerminal(size[1], size[2], NewParser)
  BY DEF Init
<1> DEFINE columnCount == size[1]
           rowCount == size[2]
<1>2. columnCount \in Nat /\ columnCount > 0 /\ rowCount \in Nat /\ rowCount > 0
  BY DisplayAssumption
<1> HIDE DEF columnCount, rowCount
<1>3. t = NewTerminal(columnCount, rowCount, NewParser)
  BY <1>1, Zenon DEF columnCount, rowCount
<1>4. Good(t) /\ t.vt.buf = <<>>
  BY <1>2, <1>3, NewTerminalGood
<1>5. events \in 0 .. MaxEvents
  BY DisplayAssumption DEF Init
<1> QED BY <1>4, <1>5 DEF DisplayInv

LEMMA ResizeInv ==
  ASSUME DisplayInv, NEW size \in Sizes, onResize_(size)
  PROVE  DisplayInv'
<1> DEFINE columnCount == size[1]
           rowCount == size[2]
           u == realizeSize_(t, columnCount, rowCount)
<1>1. columnCount \in Nat /\ columnCount > 0 /\ rowCount \in Nat /\ rowCount > 0
  BY DisplayAssumption DEF onResize_
<1>2. Happens(u)
  BY DEF onResize_
<1> HIDE DEF columnCount, rowCount
<1>3. Good(u) /\ Elsewhere(t, u)
  BY <1>1, SizeGood DEF DisplayInv
<1> HIDE DEF u
<1>4. u.vt.buf = <<>>
  BY <1>3 DEF DisplayInv, Elsewhere
<1> QED BY <1>2, <1>3, <1>4, HappensInv

LEMMA TimeLimitInv ==
  ASSUME DisplayInv, StringTimeLimit
  PROVE  DisplayInv'
<1> DEFINE parser == [t.vt EXCEPT !.late = TRUE]
           u == Parsing(t, parser)
<1>1. t' = u /\ events' = events
  BY DEF StringTimeLimit, Parsing
<1>2. Good(t) /\ t.vt.buf = <<>>
  BY DEF DisplayInv
<1>3. /\ DOMAIN parser = ParserFields /\ parser.func \in ParseFunctions
      /\ parser.buf = t.vt.buf /\ parser.string = t.vt.string /\ parser.args = t.vt.args
  BY <1>2, GoodParser DEF ParserFields, ParseFunctions
<1> HIDE DEF parser
<1>4. Good(u) /\ u.vt.buf = t.vt.buf
  BY <1>2, <1>3, ParserChanged
<1> HIDE DEF u
<1> QED BY <1>1, <1>2, <1>4 DEF DisplayInv

LEMMA DisplayNextInv == DisplayInv /\ [Next]_vars => DisplayInv'
<1> SUFFICES ASSUME DisplayInv, [Next]_vars PROVE DisplayInv'
  OBVIOUS
<1>1. Good(t) /\ t.vt.buf = <<>>
  BY DEF DisplayInv
<1>2. ASSUME NEW log \in Logs, Println(log) PROVE DisplayInv'
  <2>1. Good(println(t, log)) /\ println(t, log).vt.buf = <<>>
    BY <1>1, LogsSeq, PrintlnGood
  <2> QED BY <1>2, <2>1, HappensInv DEF Println
<1>3. ASSUME NEW text \in Pasted, Paste(text) PROVE DisplayInv'
  <2>1. Good(onPasteData_(t, text)) /\ onPasteData_(t, text).vt.buf = <<>>
    BY <1>1, LogsSeq, PasteGood
  <2> QED BY <1>3, <2>1, HappensInv DEF Paste
<1>4. ASSUME NEW type \in DOMAIN ButtonSGR, NEW altKey \in BOOLEAN, NEW isCollapsed \in BOOLEAN,
             Mouse(type, altKey, isCollapsed)
      PROVE  DisplayInv'
  <2> DEFINE u == onMouse_(t, type, altKey, isCollapsed)
  <2>1. Good(u) /\ u.vt.buf = <<>>
    BY <1>1, MouseGood
  <2>2. Happens(u)
    BY <1>4 DEF Mouse
  <2> HIDE DEF u
  <2> QED BY <2>1, <2>2, HappensInv
<1>5. ASSUME NEW focused \in BOOLEAN, Focus(focused) PROVE DisplayInv'
  <2>1. Good(onFocusChange_(t, focused)) /\ onFocusChange_(t, focused).vt.buf = <<>>
    BY <1>1, FocusGood
  <2> QED BY <1>5, <2>1, HappensInv DEF Focus
<1>6. CASE UNCHANGED vars
  BY <1>6 DEF vars, DisplayInv
<1> QED BY <1>2, <1>3, <1>4, <1>5, <1>6, ResizeInv, TimeLimitInv DEF Next

LEMMA DisplayInvariant == Spec => []DisplayInv
<1> QED BY DisplayInitInv, DisplayNextInv, PTL DEF Spec

----------------------------------------------------------------------------
\* The terminals on the way of a log.

\* The terminals on the way of a log, one after another.
LEMMA ReadSteps ==
  ASSUME NEW log, IsSeq(log)
  PROVE  \E f : /\ f[0] = <<t>>
                /\ \A i \in 1 .. Len(log) : f[i] = ReadNext(f[i - 1], log[i])
                /\ OneByOne(log) = f[Len(log)]
<1> DEFINE N == Len(log)
           Step(f, i) == IF i = 0 THEN <<t>> ELSE ReadNext(f[i - 1], log[i])
           Upto(n, f) == f = [i \in 0 .. n |-> Step(f, i)]
           S == {n \in Nat : \E f : Upto(n, f)}
<1>0. N \in Nat
  BY SeqDomain
<1>1. 0 \in S
  <2> DEFINE f == [i \in 0 .. 0 |-> <<t>>]
  <2>1. Upto(0, f)
    OBVIOUS
  <2> QED BY <2>1
<1>2. ASSUME NEW n \in Nat, n \in S PROVE n + 1 \in S
  <2>1. PICK f : Upto(n, f)
    BY <1>2
  <2> DEFINE g == [i \in 0 .. n + 1 |-> IF i = n + 1 THEN Step(f, n + 1) ELSE f[i]]
  <2>2. ASSUME NEW i \in 0 .. n + 1 PROVE g[i] = Step(g, i)
    <3>1. i # 0 => i - 1 \in 0 .. n /\ g[i - 1] = f[i - 1]
      OBVIOUS
    <3>2. CASE i = n + 1
      <4>1. g[i] = Step(f, i)
        BY <3>2
      <4>2. i # 0
        BY <3>2
      <4> HIDE DEF g
      <4> QED BY <4>1, <4>2, <3>1
    <3>3. CASE i # n + 1
      <4>1. i \in 0 .. n /\ g[i] = f[i]
        BY <3>3
      <4>2. f[i] = Step(f, i)
        BY <2>1, <4>1
      <4> HIDE DEF g
      <4> QED BY <4>1, <4>2, <3>1
    <3> QED BY <3>2, <3>3
  <2> HIDE DEF Step
  <2>3. Upto(n + 1, g)
    BY <2>2
  <2>4. n + 1 \in Nat
    OBVIOUS
  <2> HIDE DEF g, Upto
  <2> QED BY <2>3, <2>4
<1>3. N \in S
  <2> HIDE DEF S, N
  <2> QED BY <1>0, <1>1, <1>2, SetInduction
<1> DEFINE taken == CHOOSE f : Upto(N, f)
<1>4. Upto(N, taken)
  BY <1>3
<1>5. OneByOne(log) = taken[Len(log)]
  BY DEF OneByOne, Iterate
<1> HIDE DEF taken
<1>6. taken[0] = <<t>>
  BY <1>0, <1>4
<1>7. ASSUME NEW i \in 1 .. N PROVE taken[i] = ReadNext(taken[i - 1], log[i])
  <2>1. i # 0 /\ i \in 0 .. N
    BY <1>0
  <2> HIDE DEF N, Step
  <2>2. taken[i] = Step(taken, i)
    BY <1>4, <2>1
  <2> QED BY <2>1, <2>2 DEF Step
<1> QED BY <1>5, <1>6, <1>7

\* A sequence of terminals that all are good.
GoodTerminals(us) ==
  IsSeq(us) /\ Len(us) > 0 /\ \A i \in 1 .. Len(us) : Good(us[i])

LEMMA ReadNextGood ==
  ASSUME NEW us, GoodTerminals(us), NEW ch
  PROVE  GoodTerminals(ReadNext(us, ch))
<1> DEFINE u == interpret(Last(us), Only(ch))
<1>1. /\ IsSeq(us) /\ Len(us) \in Nat /\ Len(us) > 0
      /\ \A i \in 1 .. Len(us) : Good(us[i])
  BY SeqDomain DEF GoodTerminals
<1>2. Good(Last(us))
  BY <1>1 DEF Last
<1>3. IsSeq(Only(ch))
  BY OnlySeq
<1>4. Good(u)
  BY <1>2, <1>3, InterpretGood
<1>5. ReadNext(us, ch) = Added(us, u)
  BY Zenon DEF ReadNext, Added, Only
<1> HIDE DEF u
<1>6. /\ IsSeq(Added(us, u)) /\ Len(Added(us, u)) = Len(us) + 1
      /\ \A i \in 1 .. Len(us) : Added(us, u)[i] = us[i]
      /\ Added(us, u)[Len(us) + 1] = u
  BY <1>1, AddedSeq
<1>7. ASSUME NEW i \in 1 .. Len(us) + 1 PROVE Good(Added(us, u)[i])
  <2>1. i = Len(us) + 1 \/ i \in 1 .. Len(us)
    BY <1>1
  <2> QED BY <1>1, <1>4, <1>6, <2>1
<1>8. GoodTerminals(Added(us, u))
  BY <1>1, <1>6, <1>7 DEF GoodTerminals
<1> QED BY <1>5, <1>8

LEMMA OneByOneGood ==
  ASSUME Good(t), NEW log, IsSeq(log)
  PROVE  \A u \in ToSet(OneByOne(log)) : Good(u)
<1>1. PICK f : /\ f[0] = <<t>>
               /\ \A i \in 1 .. Len(log) : f[i] = ReadNext(f[i - 1], log[i])
               /\ OneByOne(log) = f[Len(log)]
  BY ReadSteps
<1>0. Len(log) \in Nat
  BY SeqDomain
<1> DEFINE S == {i \in Nat : i <= Len(log) => GoodTerminals(f[i])}
<1>2. 0 \in S
  <2>1. IsSeq(Only(t)) /\ Len(Only(t)) = 1 /\ Only(t)[1] = t
    BY OnlySeq
  <2>2. GoodTerminals(Only(t))
    BY <2>1 DEF GoodTerminals
  <2> QED BY <1>1, <2>2 DEF Only
<1>3. ASSUME NEW i \in Nat, i \in S PROVE i + 1 \in S
  <2>1. ASSUME i + 1 <= Len(log) PROVE GoodTerminals(f[i + 1])
    <3> DEFINE j == i + 1
               old == f[i]
    <3>1. j \in 1 .. Len(log) /\ j - 1 = i /\ GoodTerminals(old)
      BY <1>0, <1>3, <2>1
    <3>2. f[j] = ReadNext(old, log[j])
      BY <1>1, <3>1
    <3> HIDE DEF j, old
    <3>3. GoodTerminals(ReadNext(old, log[j]))
      BY <3>1, ReadNextGood
    <3> QED BY <3>2, <3>3 DEF j
  <2> QED BY <2>1
<1>4. Len(log) \in S
  <2> HIDE DEF S
  <2> QED BY <1>0, <1>2, <1>3, SetInduction
<1> DEFINE us == OneByOne(log)
<1>5. GoodTerminals(us)
  BY <1>0, <1>1, <1>4
<1> HIDE DEF us
<1>6. DOMAIN us = 1 .. Len(us) /\ \A i \in 1 .. Len(us) : Good(us[i])
  BY <1>5, SeqDomain DEF GoodTerminals
<1>7. \A u \in ToSet(us) : Good(u)
  BY <1>6 DEF ToSet
<1> QED BY <1>7 DEF us

----------------------------------------------------------------------------
\* What the invariant says.

LEMMA GoodRows ==
  ASSUME NEW u, Good(u)
  PROVE  /\ IsSeq(AllRows(u))
         /\ \A i \in 1 .. Len(AllRows(u)) :
              AllRows(u)[i].rowIndex = i - 1 /\ AllRows(u)[i].nodes # <<>>
<1> DEFINE above == u.scrollback
           rows == Screen(u).rowsArray
           all == Joined(above, rows)
<1>1. /\ RowsOK(above) /\ RowsOK(rows)
      /\ NumberedFrom(above, 0) /\ NumberedFrom(rows, Len(above))
  BY DEF Good, Sound, Fit, Base, Numbered, Screen, ScreenOK
<1>2. AllRows(u) = all
  BY DEF AllRows, Joined
<1> HIDE DEF above, rows
<1>3. /\ IsSeq(above) /\ IsSeq(rows) /\ Len(above) \in Nat /\ Len(rows) \in Nat
      /\ \A i \in 1 .. Len(above) : above[i].rowIndex = i - 1 /\ RowOK(above[i])
      /\ \A i \in 1 .. Len(rows) : rows[i].rowIndex = Len(above) + i - 1 /\ RowOK(rows[i])
  <2>1. IsSeq(above) /\ IsSeq(rows)
    BY <1>1 DEF RowsOK
  <2>2. Len(above) \in Nat /\ Len(rows) \in Nat
    BY <2>1, SeqDomain
  <2>3. \A i \in 1 .. Len(above) : above[i].rowIndex = i - 1 /\ RowOK(above[i])
    BY <1>1 DEF RowsOK, NumberedFrom
  <2>4. \A i \in 1 .. Len(rows) : rows[i].rowIndex = Len(above) + i - 1 /\ RowOK(rows[i])
    BY <1>1 DEF RowsOK, NumberedFrom
  <2> QED BY <2>1, <2>2, <2>3, <2>4
<1>4. /\ IsSeq(all) /\ Len(all) = Len(above) + Len(rows)
      /\ \A i \in 1 .. Len(above) : all[i] = above[i]
      /\ \A i \in Len(above) + 1 .. Len(above) + Len(rows) : all[i] = rows[i - Len(above)]
  BY <1>3, JoinedSeq
<1> HIDE DEF all
<1>5. ASSUME NEW i \in 1 .. Len(all) PROVE all[i].rowIndex = i - 1 /\ RowOK(all[i])
  <2>1. CASE i <= Len(above)
    <3>1. i \in 1 .. Len(above)
      BY <1>3, <1>4, <2>1
    <3> QED BY <1>3, <1>4, <3>1
  <2>2. CASE ~(i <= Len(above))
    <3> DEFINE j == i - Len(above)
    <3>1. i \in Len(above) + 1 .. Len(above) + Len(rows) /\ j \in 1 .. Len(rows)
          /\ Len(above) + j - 1 = i - 1
      BY <1>3, <1>4, <2>2
    <3>2. all[i] = rows[j]
      BY <1>4, <3>1
    <3> HIDE DEF j
    <3> QED BY <1>3, <3>1, <3>2
  <2> QED BY <2>1, <2>2
<1>6. \A i \in 1 .. Len(all) : all[i].nodes # <<>>
  BY <1>5, SeqDomain DEF RowOK
<1> QED BY <1>2, <1>4, <1>5, <1>6

LEMMA DisplayTypes == DisplayInv => TypeOK
<1> SUFFICES ASSUME DisplayInv PROVE TypeOK
  OBVIOUS
<1>1. Good(t) /\ events \in 0 .. MaxEvents /\ t.vt.buf = <<>>
  BY DEF DisplayInv
<1>2. /\ Height(Screen(t)) = t.height /\ Screen(t).columnCount = t.width
      /\ t.width \in Nat /\ t.height \in Nat /\ t.width > 0
      /\ t.tabStops \subseteq 0 .. t.width - 1
  BY <1>1 DEF Good, Sound, Fit, Base
<1>3. /\ getVTScrollTop(t) \in 0 .. getVTScrollBottom(t)
      /\ getVTScrollBottom(t) \in 0 .. t.height - 1
  BY <1>1 DEF Good, Sound, RegionOK
<1>4. Row(t) \in 0 .. t.height - 1 /\ Column(t) \in Nat /\ Column(t) < t.width
  BY <1>1, <1>2 DEF Good, Sound, OnIt, Row, Column
<1>5. Column(t) \in 0 .. t.width - 1
  BY <1>2, <1>4
<1> DEFINE all == AllRows(t)
<1>6. IsSeq(all) /\ \A i \in 1 .. Len(all) : all[i].nodes # <<>>
  BY <1>1, GoodRows
<1> HIDE DEF all
<1>7. DOMAIN all = 1 .. Len(all)
  BY <1>6, SeqDomain
<1>8. \A row \in ToSet(all) : row.nodes # <<>>
  BY <1>6, <1>7 DEF ToSet
<1>9. \A row \in ToSet(AllRows(t)) : row.nodes # <<>>
  BY <1>8 DEF all
<1> QED BY <1>1, <1>2, <1>3, <1>4, <1>5, <1>9 DEF TypeOK

LEMMA DisplayNumbers == DisplayInv => RowsNumbered
<1> SUFFICES ASSUME DisplayInv PROVE RowsNumbered
  OBVIOUS
<1>1. ASSUME NEW u, Good(u)
      PROVE  \A i \in DOMAIN AllRows(u) : AllRows(u)[i].rowIndex = i - 1
  <2> DEFINE all == AllRows(u)
  <2>1. IsSeq(all) /\ \A i \in 1 .. Len(all) : all[i].rowIndex = i - 1
    BY <1>1, GoodRows
  <2> HIDE DEF all
  <2>2. DOMAIN all = 1 .. Len(all)
    BY <2>1, SeqDomain
  <2>3. \A i \in DOMAIN all : all[i].rowIndex = i - 1
    BY <2>1, <2>2
  <2> QED BY <2>3 DEF all
<1>2. Good(t)
  BY DEF DisplayInv
<1>3. ASSUME NEW log \in NextLogs PROVE \A u \in ToSet(OneByOne(log)) : Good(u)
  <2>1. IsSeq(log)
    BY LogsSeq DEF NextLogs
  <2> QED BY <1>2, <2>1, OneByOneGood
<1> QED BY <1>1, <1>2, <1>3, Zenon DEF RowsNumbered, OnTheWay

LEMMA DisplayPalette == DisplayInv => PaletteShown
<1> SUFFICES ASSUME DisplayInv PROVE PaletteShown
  OBVIOUS
<1>1. ASSUME NEW u, Good(u)
      PROVE  \A i \in DOMAIN u.colors.css.palette \cup DOMAIN Overrides(u) :
               ShownColor(u, i) = getColorPalette(u, i)
  <2>1. ShowsPalette(u)
    BY <1>1 DEF Good, Sound, Fit, Base
  <2> QED BY <2>1 DEF ShowsPalette
<1>2. Good(t)
  BY DEF DisplayInv
<1>3. ASSUME NEW log \in NextLogs PROVE \A u \in ToSet(OneByOne(log)) : Good(u)
  <2>1. IsSeq(log)
    BY LogsSeq DEF NextLogs
  <2> QED BY <1>2, <2>1, OneByOneGood
<1> QED BY <1>1, <1>2, <1>3, Zenon DEF PaletteShown, OnTheWay

----------------------------------------------------------------------------
\* The theorems.

\* Whatever the logs are, whatever the user does and whatever size the window
\* takes, the screen that is shown has the size of the terminal, and its cursor,
\* its scroll region and its tab stops are on it.
THEOREM TerminalTypeCorrect == Spec => []TypeOK
<1> QED BY DisplayInvariant, DisplayTypes, PTL

\* Rows are numbered by their place, after every event and wherever the parser
\* is on the way through a log: the scroll port finds them.
THEOREM RowNumbersCorrect == Spec => []RowsNumbered
<1> QED BY DisplayInvariant, DisplayNumbers, PTL

\* The colours of the page are those of the screen that is shown, however the
\* palette was changed, reset and swapped.
THEOREM PaletteCorrect == Spec => []PaletteShown
<1> QED BY DisplayInvariant, DisplayPalette, PTL

LEMMA ResizeTexts ==
  ASSUME DisplayInv, NEW size \in Sizes, onResize_(size)
  PROVE  Texts(AllRows(t')) = Texts(AllRows(t))
<1> DEFINE columnCount == size[1]
           rowCount == size[2]
           u == realizeSize_(t, columnCount, rowCount)
<1>1. columnCount \in Nat /\ columnCount > 0 /\ rowCount \in Nat /\ rowCount > 0
  BY DisplayAssumption DEF onResize_
<1>2. t' = u
  BY DEF onResize_, Happens
<1> HIDE DEF columnCount, rowCount
<1>3. Texts(AllRows(u)) = Texts(AllRows(t))
  BY <1>1, SizeGood DEF DisplayInv
<1> HIDE DEF u
<1> QED BY <1>2, <1>3

\* The window may take any size, of fewer rows or more: rows below the cursor
\* that realizeHeight_ drops are empty, rows that scroll off stay in scrollback,
\* rows taken back from it are those that were last, and what is appended is
\* blank. A log that was shown can still be read, its rows in their order.
THEOREM ResizeCorrect == Spec => ResizeKeepsText
<1>1. DisplayInv /\ [Next]_vars
      => [\A size \in Sizes : onResize_(size) => Texts(AllRows(t')) = Texts(AllRows(t))]_vars
  BY ResizeTexts
<1> QED BY <1>1, DisplayInvariant, PTL DEF Spec, ResizeKeepsText

=============================================================================
