-------------------------- MODULE MCTerminalDisplay --------------------------
(***************************************************************************)
(* A terminal of three columns and two rows that may grow to four of both  *)
(* and shrink again, and logs with one control function or a few that      *)
(* belong together.                                                        *)
(***************************************************************************)
EXTENDS TerminalDisplay

Esc(rest) == <<"ESC">> \o rest
Csi(rest) == <<"ESC", "[">> \o rest

PlainLogs == {<<"a">>, <<"b", "c", "d", "e">>, <<"a", "WIDE", "b">>}

EditLogs ==
  {Csi(<<"7", "m", "f">>),
   Csi(<<"4", "1", "m">>) \o <<"g">> \o Csi(<<"2", "J">>),
   Csi(<<"H">>) \o <<"h", "TAB", "i">> \o Csi(<<"2", "D">>) \o Csi(<<"P">>),
   Csi(<<"H">>) \o Csi(<<"@">>) \o Csi(<<"1", "K">>),
   Csi(<<"9", "B">>) \o Csi(<<"X">>) \o <<"BS", "j">>,
   Csi(<<"0", ";", "5", "z">>) \o <<"k">>,
   Csi(<<"4", "h">>) \o Csi(<<"?", "7", "l">>)}

RowLogs ==
  {Csi(<<"2", "r">>) \o Csi(<<"M">>),
   Csi(<<"A">>) \o Csi(<<"L">>),
   Csi(<<";", "3", "r">>) \o <<"l", "LF", "m">>,
   Csi(<<"?", "6", "h">>) \o Csi(<<"T">>)}

ScreenLogs ==
  {Csi(<<"?", "1", "0", "4", "9", "h">>),
   Csi(<<"?", "1", "0", "4", "9", "l">>) \o Csi(<<"3", "J">>),
   Csi(<<"?", "4", "7", "h">>),
   Csi(<<"?", "4", "7", "h">>) \o <<"w">> \o Csi(<<"?", "4", "7", "l">>),
   Csi(<<"?", "1", "0", "0", "0", "h">>),
   Esc(<<"7">>), Esc(<<"8">>), Esc(<<"]", "8", ";", "o">>), Csi(<<"6", "n">>)}

StringLogs ==
  {Esc(<<"]", "8", ";", ";", "o">>) \o Esc(<<"\\">>) \o <<"p">>,
   Esc(<<"P", "q", "r">>) \o Esc(<<"\\">>)}

OtherLogs ==
  {Esc(<<"#", "8">>), Esc(<<"c">>), Csi(<<"H">>) \o Esc(<<"M">>) \o Esc(<<"D">>),
   Csi(<<"3", "CAN", "1", "m">>)}

InputLogs ==
  {Csi(<<"?", "1", "0", "0", "4", "h">>) \o Csi(<<"?", "1", "0", "0", "2", "h">>),
   Csi(<<"?", "2", "0", "0", "4", "h">>),
   Csi(<<"?", "1", "h">>) \o Csi(<<"?", "1", "0", "0", "7", "h">>)}

ColourLogs ==
  {Esc(<<"]", "4", ";", "1", ";", "#", "f", "0", "0">>) \o Esc(<<"\\">>),
   Esc(<<"]", "4", ";", "1", ";", "?", "BEL", "x">>),
   Esc(<<"]", "1", "0", ";", "r", "g", "b", ":", "f", "/", "8", "0", "/", "0", ";", "#", "0", "f", "0", "BEL">>)
     \o Csi(<<"?", "5", "h">>) \o Esc(<<"]", "1", "1", "1", "BEL">>)
     \o Esc(<<"]", "1", "0", "4", ";", "1", "BEL">>),
   Csi(<<"!", "p">>) \o Esc(<<"]", "2", ";", "t", "BEL">>) \o Csi(<<"5", " ", "q">>)}

CharsetLogs ==
  {Esc(<<"%", "@">>) \o Esc(<<")", "0">>) \o <<"SO">>, <<"SI">> \o Esc(<<"%", "G">>)}

PastedTexts == {<<"u", "LF", "v">>, Csi(<<"K">>)}

AllLogs ==
  InputLogs \cup PlainLogs \cup EditLogs \cup RowLogs \cup ScreenLogs \cup StringLogs
    \cup OtherLogs \cup ColourLogs \cup CharsetLogs

WindowSizes == {<<3, 2>>, <<4, 4>>}

SmallWindow == {<<3, 2>>}

=============================================================================
