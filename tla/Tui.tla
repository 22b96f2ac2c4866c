--------------------------------- MODULE Tui ---------------------------------
(***************************************************************************)
(* The interactive browser (tui/app.py, tui/input.py): the bytes of a      *)
(* terminal are put together into keys, a key is handled according to the  *)
(* mode the application is in, and the list is drawn again in whatever     *)
(* size the terminal has by then.                                          *)
(*                                                                         *)
(* A finding is [id, state, severity, texts]: `texts` holds its route, file *)
(* and method in lower case, each a sequence of characters.                *)
(***************************************************************************)
EXTENDS Integers, Sequences, FiniteSets

CONSTANTS
  Findings,      \* the findings of the scan that is shown
  Bytes,         \* what a terminal may send
  Lower,         \* of a character: its lower case
  Rows,          \* the heights a terminal may have
  MaxQuery,      \* bound on the length of the search text
  None

SortModes  == <<"severity", "file", "route", "state">>
StateCycle == <<None, "EXPOSED", "UNKNOWN", "PROTECTED", "PUBLIC">>
SevCycle   == <<None, "CRITICAL", "HIGH", "MEDIUM", "LOW">>
Formats    == <<"json", "sarif", "table">>

ASSUME TuiAssumption == IsFiniteSet(Findings) /\ Rows \subseteq Nat /\ MaxQuery \in Nat

VARIABLES
  platform,      \* sys.platform, "win32" or "unix"
  unread,        \* the bytes of a key that is not complete
  ui,            \* the application state of TuiApp
  height,        \* the height of the list when it was last drawn
  report,        \* the format of the report exported last
  screen,        \* "main" or "alternate"
  ended          \* "no", "quit", or "failed" by an exception

vars == <<platform, unread, ui, height, report, screen, ended>>

-----------------------------------------------------------------------------
(* input.py: from bytes to keys *)

\* _char_to_key; what is left of Ctrl and a letter is "ctrl".
CharToKey(b) ==
  CASE b \in {"ESC", "NUL"} -> "escape"
    [] b = "CR"  -> "enter"
    [] b = "TAB" -> "tab"
    [] b = "DEL" -> "backspace"
    [] b = "^C"  -> "ctrl+c"
    [] b = "^A"  -> "ctrl"
    [] OTHER     -> b

\* _ANSI_MAP.  Its sequences of four bytes are never looked up.
AnsiMap == {<<<<"ESC", "[", "A">>, "up">>,   <<<<"ESC", "[", "B">>, "down">>,
            <<<<"ESC", "[", "C">>, "right">>, <<<<"ESC", "[", "D">>, "left">>,
            <<<<"ESC", "[", "H">>, "home">>, <<<<"ESC", "[", "F">>, "end">>,
            <<<<"ESC", "[", "5", "~">>, "pageup">>, <<<<"ESC", "[", "6", "~">>, "pagedown">>,
            <<<<"ESC", "[", "3", "~">>, "delete">>,
            <<<<"ESC", "O", "H">>, "home">>, <<<<"ESC", "O", "F">>, "end">>}

ScanMap == {<<"H", "up">>, <<"P", "down">>, <<"K", "left">>, <<"M", "right">>, <<"I", "pageup">>,
            <<"Q", "pagedown">>, <<"G", "home">>, <<"O", "end">>, <<"S", "delete">>}

LookUp(map, x, default) ==
  IF \E e \in map : e[1] = x THEN (CHOOSE e \in map : e[1] = x)[2] ELSE default

\* Faulty variant: a sequence is read up to its final byte, so that the keys of
\* four bytes are found.
CompleteAtFinalByte(seq) ==
  IF platform = "win32" THEN seq[1] \notin {"E0", "NUL"} \/ Len(seq) = 2
  ELSE \/ seq[1] # "ESC"
       \/ Len(seq) = 2 /\ seq[2] \notin {"[", "O"}
       \/ Len(seq) > 2 /\ seq[Len(seq)] \notin {"0", "1", "2", "3", "4", "5", "6", ";", "ESC", "CR"}

\* An Escape waits for one more byte, and for a third after "[" or "O".
Complete(seq) ==
  IF platform = "win32" THEN seq[1] \notin {"E0", "NUL"} \/ Len(seq) = 2
  ELSE \/ seq[1] # "ESC"
       \/ Len(seq) = 2 /\ seq[2] \notin {"[", "O"}
       \/ Len(seq) = 3

\* read_key
KeyOf(seq) ==
  IF platform = "win32" /\ Len(seq) = 2 THEN LookUp(ScanMap, seq[2], "scan")
  ELSE IF Len(seq) > 1 THEN LookUp(AnsiMap, seq, "escape")
  ELSE CharToKey(seq[1])

NamedKeys == {"escape", "enter", "tab", "backspace", "ctrl+c", "ctrl", "up", "down", "left", "right",
              "home", "end", "pageup", "pagedown", "delete", "scan"}
IsPrintable(key) == key \notin NamedKeys

-----------------------------------------------------------------------------
(* app.py: what is listed, and the selection *)

Contains(text, query) ==
  \E i \in 0 .. Len(text) - Len(query) : SubSeq(text, i + 1, i + Len(query)) = query

Query(u) == [i \in DOMAIN u.text |-> Lower[u.text[i]]]

\* _findings, without their order
Visible(u) ==
  {f \in Findings : /\ u.state \in {None, f.state}
                    /\ u.severity \in {None, f.severity}
                    /\ u.text = <<>> \/ \E t \in f.texts : Contains(t, Query(u))}

Count(u) == Cardinality(Visible(u))

Larger(a, b)  == IF a >= b THEN a ELSE b
Smaller(a, b) == IF a <= b THEN a ELSE b

\* Faulty variant: an empty list is left as it is.
ClampedIfAny(u) ==
  IF Count(u) > 0 /\ u.sel >= Count(u) THEN [u EXCEPT !.sel = Count(u) - 1] ELSE u

\* _clamp_selection
Clamped(u) ==
  IF Count(u) = 0 THEN [u EXCEPT !.sel = 0, !.offset = 0]
  ELSE [u EXCEPT !.sel = Smaller(@, Count(u) - 1)]

\* _move_cursor
Moved(u, delta) ==
  IF Count(u) = 0 THEN u
  ELSE [u EXCEPT !.sel = Larger(0, Smaller(Count(u) - 1, @ + delta))]

\* Faulty variant: the window only follows the selection downwards.
DrawnDownwards(u, h) ==
  [u EXCEPT !.offset = IF u.sel >= u.offset + h THEN u.sel - h + 1 ELSE u.offset]

\* _ensure_visible
Drawn(u, h) ==
  [u EXCEPT !.offset = IF u.sel < u.offset THEN u.sel
                       ELSE IF u.sel >= u.offset + h THEN u.sel - h + 1
                       ELSE u.offset]

ListHeight(rows) == Larger(rows, 10) - 3

-----------------------------------------------------------------------------
(* SearchInput *)

Insert(u, char) ==
  [u EXCEPT !.text = SubSeq(@, 1, u.cursor) \o <<char>> \o SubSeq(@, u.cursor + 1, Len(@)),
            !.cursor = @ + 1]

Backspace(u) ==
  IF u.cursor = 0 THEN u
  ELSE [u EXCEPT !.text = SubSeq(@, 1, u.cursor - 1) \o SubSeq(@, u.cursor + 1, Len(@)),
                 !.cursor = @ - 1]

-----------------------------------------------------------------------------
(* Keyboard dispatch *)

After(cycle, x) ==
  LET i == CHOOSE j \in DOMAIN cycle : cycle[j] = x IN cycle[(i % Len(cycle)) + 1]

NormalKey(u, key) ==
  CASE key \in {"q", "ctrl+c"} -> [u EXCEPT !.quit = TRUE]
    [] key \in {"?", "h"}      -> [u EXCEPT !.help = ~@]
    [] key \in {"k", "up"}     -> Moved(u, -1)
    [] key \in {"j", "down"}   -> Moved(u, 1)
    [] key = "pageup"          -> Moved(u, -10)
    [] key = "pagedown"        -> Moved(u, 10)
    [] key = "home"            -> Clamped([u EXCEPT !.sel = 0])
    [] key = "end"             -> [u EXCEPT !.sel = Larger(0, Count(u) - 1)]
    [] key = "/"               -> [u EXCEPT !.search = TRUE, !.text = <<>>, !.cursor = 0]
    [] key = "f"               -> Clamped([u EXCEPT !.state = After(StateCycle, @)])
    [] key = "v"               -> Clamped([u EXCEPT !.severity = After(SevCycle, @)])
    [] key = "s"               -> [u EXCEPT !.sort = After(SortModes, @)]
    [] key = "o"               -> [u EXCEPT !.prompt = TRUE, !.format = Formats[1]]
    [] key = "escape"          -> [u EXCEPT !.help = FALSE]
    [] OTHER                   -> u

SearchKey(u, key) ==
  CASE key \in {"escape", "enter"} -> Clamped([u EXCEPT !.search = FALSE])
    [] key = "backspace" -> Clamped(Backspace(u))
    [] key = "left"      -> [u EXCEPT !.cursor = Larger(0, @ - 1)]
    [] key = "right"     -> [u EXCEPT !.cursor = Smaller(Len(u.text), @ + 1)]
    [] key = "home"      -> [u EXCEPT !.cursor = 0]
    [] key = "end"       -> [u EXCEPT !.cursor = Len(u.text)]
    [] IsPrintable(key)  -> Clamped(Insert(u, key))
    [] OTHER             -> u

ExportKeys == {"j", "s", "t", "enter"}

ChosenFormat(u, key) ==
  CASE key = "j" -> Formats[1] [] key = "s" -> Formats[2] [] key = "t" -> Formats[3] [] OTHER -> u.format

ExportKey(u, key) ==
  CASE key \in {"escape", "q"} -> [u EXCEPT !.prompt = FALSE]
    [] key \in ExportKeys      -> [u EXCEPT !.prompt = FALSE, !.format = ChosenFormat(u, key)]
    [] OTHER                   -> u

\* While help is shown, any other key hides it and does nothing else.
HidesHelp(u, key) == u.help /\ key \notin {"escape", "?", "h", "q", "ctrl+c"}

Dispatch(u, key) ==
  IF HidesHelp(u, key) THEN [u EXCEPT !.help = FALSE]
  ELSE IF u.prompt THEN ExportKey(u, key)
  ELSE IF u.search THEN SearchKey(u, key)
  ELSE NormalKey(u, key)

Exports(key) == ~HidesHelp(ui, key) /\ ui.prompt /\ key \in ExportKeys

-----------------------------------------------------------------------------
(* The event loop *)

\* MaxQuery bounds what is typed.
WithinBound(key) == ui.search /\ IsPrintable(key) => Len(ui.text) < MaxQuery

Handle(key) ==
  /\ WithinBound(key)
  /\ unread' = <<>>
  /\ \E rows \in Rows :
       /\ height' = ListHeight(rows)
       /\ ui' = Drawn(Dispatch(ui, key), height')
  /\ report' = IF Exports(key) THEN ChosenFormat(ui, key) ELSE report
  /\ IF ui'.quit THEN ended' = "quit" /\ screen' = "main" ELSE UNCHANGED <<ended, screen>>
  /\ UNCHANGED platform

Type(b) ==
  /\ ended = "no"
  /\ LET seq == Append(unread, b)
     IN  IF Complete(seq) THEN Handle(KeyOf(seq))
         ELSE unread' = seq /\ UNCHANGED <<platform, ui, height, report, screen, ended>>

\* The terminal is gone: every read returns nothing.
EndOfInput == ended = "no" /\ platform = "unix" /\ Handle("escape")

\* Ctrl-C as a signal while a key is read: an Escape inside the try of read_key,
\* otherwise the key of its own that read_keys makes of it.
InterruptRead ==
  /\ ended = "no"
  /\ \/ (platform = "unix" \/ unread # <<>>) /\ Handle("escape")
     \/ unread = <<>> /\ Handle("ctrl+c")

\* The report cannot be written: the exception leaves run at once.
ExportFails(b) ==
  /\ ended = "no"
  /\ LET seq == Append(unread, b) IN Complete(seq) /\ Exports(KeyOf(seq))
  /\ ended' = "failed" /\ unread' = <<>>
  /\ UNCHANGED <<platform, ui, height, report, screen>>

\* Ctrl-C strikes while a key is handled or the screen is drawn.
Interrupted ==
  /\ ended = "no" /\ unread = <<>>
  /\ ended' = "failed"
  /\ UNCHANGED <<platform, unread, ui, height, report, screen>>

FirstView == [sel |-> 0, offset |-> 0, sort |-> "severity", state |-> None, severity |-> None,
              text |-> <<>>, cursor |-> 0, search |-> FALSE, help |-> FALSE, prompt |-> FALSE,
              format |-> Formats[1], quit |-> FALSE]

Init ==
  /\ platform \in {"win32", "unix"}
  /\ unread = <<>> /\ ui = FirstView /\ report = None /\ ended = "no"
  /\ \E rows \in Rows : height = ListHeight(rows)
  /\ screen = "alternate"

Next == \/ \E b \in Bytes : Type(b) \/ ExportFails(b)
        \/ EndOfInput \/ InterruptRead \/ Interrupted

Spec == Init /\ [][Next]_vars

-----------------------------------------------------------------------------
(* Properties *)

\* Whatever was typed, filtered, searched or resized, the selection is one of
\* the findings that are listed, and its row is inside the window drawn last.
SelectionIsShown ==
  IF Visible(ui) = {} THEN ui.sel = 0
  ELSE ui.sel < Count(ui) /\ ui.offset <= ui.sel /\ ui.sel < ui.offset + height

\* One more byte for the reader, with what it has read of a key and the view
\* that stands.  (The frames between keys move the window only.)
Fed(s, b) ==
  LET seq == Append(s.unread, b)
  IN  IF Complete(seq) THEN [unread |-> <<>>, ui |-> Dispatch(s.ui, KeyOf(seq))]
      ELSE [s EXCEPT !.unread = seq]

Now == [unread |-> unread, ui |-> ui]

\* Escape, Enter and q, sent as bytes, leave from wherever one is, in every mode
\* and in the middle of every key: no mode and no half-read sequence holds the
\* user (_UnixInput.read_key, _WindowsInput.read_key, TuiApp._dispatch).
EscapeEnterQuit == Fed(Fed(Fed(Now, "ESC"), "CR"), "q").ui.quit

\* The help overlay says of Escape that it cancels a search and closes an overlay
\* (tui/widgets.py), so that q should quit after it.  It does not on Unix: a lone
\* Escape is no key yet, and the q completes it.
EscapeAloneSuffices == Fed(Fed(Now, "ESC"), "q").ui.quit
=============================================================================
