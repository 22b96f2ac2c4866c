------------------------------ MODULE TuiProofs ------------------------------
(***************************************************************************)
(* Proofs about Tui, for any findings, any bytes and any terminal: the     *)
(* selection is always one of the rows on the screen, and the bytes of     *)
(* Escape, Enter and q always leave.  The induction is on IInv: every      *)
(* handler keeps the selection within the list, whatever the list has      *)
(* become, at most one of the two prompts is open, and what has been read  *)
(* of a key is one of few beginnings.                                      *)
(***************************************************************************)
EXTENDS Tui, FiniteSetTheorems, SequenceTheorems, TLAPS

Fields == {"sel", "offset", "sort", "state", "severity", "text", "cursor", "search", "help", "prompt",
           "format", "quit"}

\* What the handlers rely on and keep.
Good(u) ==
  /\ DOMAIN u = Fields
  /\ u.sel \in Nat /\ u.offset \in Nat
  /\ u.sel = 0 \/ u.sel < Count(u)
  /\ ~(u.search /\ u.prompt)
  /\ u.search \in BOOLEAN /\ u.prompt \in BOOLEAN

\* What may have been read of a key that is not complete.
Beginnings ==
  IF platform = "win32" THEN {<<>>, <<"E0">>, <<"NUL">>}
  ELSE {<<>>, <<"ESC">>, <<"ESC", "[">>, <<"ESC", "O">>}

IInv ==
  /\ Good(ui)
  /\ unread \in Beginnings
  /\ height \in Nat
  /\ ui.offset <= ui.sel /\ ui.sel < ui.offset + height

-----------------------------------------------------------------------------
(* The list *)

\* What is listed depends on the filters and the query alone (_findings).
LEMMA SameVisible ==
  ASSUME NEW u, NEW v, u.state = v.state, u.severity = v.severity, u.text = v.text
  PROVE  Visible(u) = Visible(v) /\ Count(u) = Count(v)
BY DEF Visible, Count, Query

\* The length of the list.
LEMMA CountIsNat ==
  ASSUME NEW u
  PROVE  Count(u) \in Nat /\ (Count(u) = 0 <=> Visible(u) = {})
<1>1. IsFiniteSet(Visible(u))
  BY TuiAssumption, FS_Subset DEF Visible, TuiAssumption
<1> QED
  BY <1>1, FS_CardinalityType, FS_EmptySet DEF Count

\* Emptying the query shows more.
LEMMA EmptyQueryShowsMore ==
  ASSUME NEW u, NEW v, u.state = v.state, u.severity = v.severity, v.text = <<>>
  PROVE  Count(u) <= Count(v)
<1>1. Visible(u) \subseteq Visible(v) /\ Visible(v) \subseteq Findings
  BY DEF Visible
<1>2. IsFiniteSet(Visible(v))
  BY <1>1, TuiAssumption, FS_Subset DEF TuiAssumption
<1> QED
  BY <1>1, <1>2, FS_Subset DEF Count

-----------------------------------------------------------------------------
(* The handlers *)

\* A clamped selection is in the list, whatever it was and whatever is listed.
LEMMA ClampedIsGood ==
  ASSUME NEW u, DOMAIN u = Fields, u.sel \in Nat, u.offset \in Nat, ~(u.search /\ u.prompt),
         u.search \in BOOLEAN, u.prompt \in BOOLEAN
  PROVE  /\ Good(Clamped(u))
         /\ Clamped(u).search = u.search /\ Clamped(u).prompt = u.prompt /\ Clamped(u).help = u.help
<1>1. /\ Clamped(u).state = u.state /\ Clamped(u).severity = u.severity /\ Clamped(u).text = u.text
      /\ Clamped(u).search = u.search /\ Clamped(u).prompt = u.prompt /\ Clamped(u).help = u.help
      /\ DOMAIN Clamped(u) = Fields
  BY DEF Clamped, Fields
<1>2. Count(Clamped(u)) = Count(u) /\ Count(u) \in Nat
  BY <1>1, SameVisible, CountIsNat
<1>3. CASE Count(u) = 0
  BY <1>1, <1>2, <1>3 DEF Clamped, Good, Fields
<1>4. CASE Count(u) # 0
  <2>1. Clamped(u).sel = Smaller(u.sel, Count(u) - 1) /\ Clamped(u).offset = u.offset
    BY <1>4 DEF Clamped, Fields
  <2>2. Smaller(u.sel, Count(u) - 1) \in Nat /\ Smaller(u.sel, Count(u) - 1) < Count(u)
    BY <1>2, <1>4 DEF Smaller
  <2> QED
    BY <1>1, <1>2, <2>1, <2>2 DEF Good
<1> QED
  BY <1>1, <1>3, <1>4

\* Arrow and page keys.
LEMMA MovedIsGood ==
  ASSUME NEW u, Good(u), NEW d \in Int
  PROVE  Good(Moved(u, d))
<1>1. /\ Moved(u, d).state = u.state /\ Moved(u, d).severity = u.severity /\ Moved(u, d).text = u.text
      /\ Moved(u, d).search = u.search /\ Moved(u, d).prompt = u.prompt
      /\ Moved(u, d).offset = u.offset /\ DOMAIN Moved(u, d) = Fields
  BY DEF Moved, Good, Fields
<1>2. Count(Moved(u, d)) = Count(u) /\ Count(u) \in Nat
  BY <1>1, SameVisible, CountIsNat
<1>3. CASE Count(u) = 0
  BY <1>3 DEF Moved
<1>4. CASE Count(u) # 0
  <2>1. Moved(u, d).sel = Larger(0, Smaller(Count(u) - 1, u.sel + d))
    BY <1>4 DEF Moved, Good, Fields
  <2>2. /\ Larger(0, Smaller(Count(u) - 1, u.sel + d)) \in Nat
        /\ Larger(0, Smaller(Count(u) - 1, u.sel + d)) < Count(u)
    BY <1>2, <1>4 DEF Larger, Smaller, Good
  <2> QED
    BY <1>1, <1>2, <2>1, <2>2 DEF Good
<1> QED
  BY <1>3, <1>4

\* A step that changes neither the list nor the selection, and opens no second
\* prompt.
LEMMA StillGood ==
  ASSUME NEW u, Good(u), NEW v, DOMAIN v = Fields,
         v.state = u.state, v.severity = u.severity, v.text = u.text, v.sel = u.sel, v.offset = u.offset,
         v.search \in BOOLEAN, v.prompt \in BOOLEAN, ~(v.search /\ v.prompt)
  PROVE  Good(v)
BY SameVisible DEF Good

\* The keys of the list.
LEMMA NormalKeyIsGood ==
  ASSUME NEW u, NEW key, Good(u), ~u.search, ~u.prompt
  PROVE  Good(NormalKey(u, key))
<1>1. CASE key \in {"q", "ctrl+c", "?", "h", "s", "o", "escape"}
  <2>1. /\ DOMAIN NormalKey(u, key) = Fields
        /\ NormalKey(u, key).state = u.state /\ NormalKey(u, key).severity = u.severity
        /\ NormalKey(u, key).text = u.text /\ NormalKey(u, key).sel = u.sel
        /\ NormalKey(u, key).offset = u.offset /\ NormalKey(u, key).search = u.search
        /\ NormalKey(u, key).prompt \in BOOLEAN
    BY <1>1 DEF NormalKey, Good, Fields
  <2> QED
    BY <2>1, StillGood DEF Good
<1>2. CASE key \in {"k", "up", "j", "down", "pageup", "pagedown"}
  <2>1. \E d \in Int : NormalKey(u, key) = Moved(u, d)
    BY <1>2 DEF NormalKey
  <2> QED
    BY <2>1, MovedIsGood
<1>3. CASE key = "home"
  <2> DEFINE v == [u EXCEPT !.sel = 0]
  <2>1. NormalKey(u, key) = Clamped(v)
    BY <1>3 DEF NormalKey
  <2>2. /\ DOMAIN v = Fields /\ v.sel \in Nat /\ v.offset \in Nat /\ ~(v.search /\ v.prompt)
        /\ v.search \in BOOLEAN /\ v.prompt \in BOOLEAN
    BY DEF Good, Fields
  <2> QED
    BY <2>1, <2>2, ClampedIsGood
<1>4. CASE key = "end"
  <2> DEFINE v == [u EXCEPT !.sel = Larger(0, Count(u) - 1)]
  <2>1. NormalKey(u, key) = v
    BY <1>4 DEF NormalKey
  <2>2. /\ DOMAIN v = Fields /\ v.sel = Larger(0, Count(u) - 1) /\ v.offset = u.offset
        /\ v.state = u.state /\ v.severity = u.severity /\ v.text = u.text
        /\ v.search = u.search /\ v.prompt = u.prompt
    BY DEF Good, Fields
  <2>3. Count(v) = Count(u) /\ Count(u) \in Nat
    BY <2>2, SameVisible, CountIsNat
  <2>4. Larger(0, Count(u) - 1) \in Nat /\ (Larger(0, Count(u) - 1) = 0 \/ Larger(0, Count(u) - 1) < Count(u))
    BY <2>3 DEF Larger
  <2> HIDE DEF v
  <2>5. Good(v)
    BY <2>2, <2>3, <2>4 DEF Good
  <2> QED
    BY <2>1, <2>5
<1>5. CASE key = "/"
  <2> DEFINE v == [u EXCEPT !.search = TRUE, !.text = <<>>, !.cursor = 0]
  <2>1. NormalKey(u, key) = v
    BY <1>5 DEF NormalKey
  <2>2. /\ DOMAIN v = Fields /\ v.sel = u.sel /\ v.offset = u.offset
        /\ v.search \in BOOLEAN /\ v.prompt \in BOOLEAN /\ ~(v.search /\ v.prompt)
        /\ v.state = u.state /\ v.severity = u.severity /\ v.text = <<>>
    BY DEF Good, Fields
  <2>3. Count(u) <= Count(v) /\ Count(u) \in Nat /\ Count(v) \in Nat
    BY <2>2, EmptyQueryShowsMore, CountIsNat
  <2> HIDE DEF v
  <2>4. Good(v)
    BY <2>2, <2>3 DEF Good
  <2> QED
    BY <2>1, <2>4
<1>6. CASE key = "f"
  <2> DEFINE v == [u EXCEPT !.state = After(StateCycle, @)]
  <2>1. NormalKey(u, key) = Clamped(v)
    BY <1>6 DEF NormalKey
  <2>2. /\ DOMAIN v = Fields /\ v.sel \in Nat /\ v.offset \in Nat /\ ~(v.search /\ v.prompt)
        /\ v.search \in BOOLEAN /\ v.prompt \in BOOLEAN
    BY DEF Good, Fields
  <2> QED
    BY <2>1, <2>2, ClampedIsGood
<1>7. CASE key = "v"
  <2> DEFINE v == [u EXCEPT !.severity = After(SevCycle, @)]
  <2>1. NormalKey(u, key) = Clamped(v)
    BY <1>7 DEF NormalKey
  <2>2. /\ DOMAIN v = Fields /\ v.sel \in Nat /\ v.offset \in Nat /\ ~(v.search /\ v.prompt)
        /\ v.search \in BOOLEAN /\ v.prompt \in BOOLEAN
    BY DEF Good, Fields
  <2> QED
    BY <2>1, <2>2, ClampedIsGood
<1>8. CASE key \notin {"q", "ctrl+c", "?", "h", "s", "o", "escape", "k", "up", "j", "down", "pageup",
                       "pagedown", "home", "end", "/", "f", "v"}
  BY <1>8 DEF NormalKey
<1> QED
  BY <1>1, <1>2, <1>3, <1>4, <1>5, <1>6, <1>7, <1>8

\* The keys of the search prompt.
LEMMA SearchKeyIsGood ==
  ASSUME NEW u, NEW key, Good(u), u.search, ~u.prompt
  PROVE  Good(SearchKey(u, key))
<1> DEFINE Typing(v) == /\ DOMAIN v = Fields /\ v.sel \in Nat /\ v.offset \in Nat
                        /\ v.search \in BOOLEAN /\ v.prompt = FALSE
<1>0. ASSUME NEW v, Typing(v) PROVE Good(Clamped(v))
  BY <1>0, ClampedIsGood
<1>1. CASE key \in {"escape", "enter"}
  <2>1. SearchKey(u, key) = Clamped([u EXCEPT !.search = FALSE])
    BY <1>1 DEF SearchKey, IsPrintable, NamedKeys
  <2>2. Typing([u EXCEPT !.search = FALSE])
    BY DEF Good, Fields
  <2> QED
    BY <1>0, <2>1, <2>2
<1>2. CASE key = "backspace"
  <2>1. SearchKey(u, key) = Clamped(Backspace(u))
    BY <1>2 DEF SearchKey, IsPrintable, NamedKeys
  <2>2. Typing(Backspace(u))
    BY DEF Good, Fields, Backspace
  <2> QED
    BY <1>0, <2>1, <2>2
<1>3. CASE key \in {"left", "right", "home", "end"}
  <2>1. \E c : SearchKey(u, key) = [u EXCEPT !.cursor = c]
    BY <1>3 DEF SearchKey, IsPrintable, NamedKeys
  <2>2. PICK c : SearchKey(u, key) = [u EXCEPT !.cursor = c]
    BY <2>1
  <2> DEFINE v == [u EXCEPT !.cursor = c]
  <2>3. /\ DOMAIN v = Fields /\ v.state = u.state /\ v.severity = u.severity /\ v.text = u.text
        /\ v.sel = u.sel /\ v.offset = u.offset /\ v.search = u.search /\ v.prompt = u.prompt
    BY DEF Good, Fields
  <2> HIDE DEF v
  <2>4. Good(v)
    BY <2>3, StillGood DEF Good
  <2> QED
    BY <2>2, <2>4 DEF v
<1>4. CASE key \notin {"escape", "enter", "backspace", "left", "right", "home", "end"} /\ IsPrintable(key)
  <2>1. SearchKey(u, key) = Clamped(Insert(u, key))
    BY <1>4 DEF SearchKey, IsPrintable, NamedKeys
  <2>2. Typing(Insert(u, key))
    BY DEF Good, Fields, Insert
  <2> QED
    BY <1>0, <2>1, <2>2
<1>5. CASE key \notin {"escape", "enter", "backspace", "left", "right", "home", "end"} /\ ~IsPrintable(key)
  BY <1>5 DEF SearchKey, IsPrintable, NamedKeys
<1> QED
  BY <1>1, <1>2, <1>3, <1>4, <1>5

\* The keys of the export prompt.
LEMMA ExportKeyIsGood ==
  ASSUME NEW u, NEW key, Good(u), u.prompt
  PROVE  Good(ExportKey(u, key))
<1> DEFINE v == ExportKey(u, key)
<1>1. /\ DOMAIN v = Fields /\ v.state = u.state /\ v.severity = u.severity /\ v.text = u.text
      /\ v.sel = u.sel /\ v.offset = u.offset /\ v.search = u.search /\ v.prompt \in BOOLEAN
  BY DEF ExportKey, ExportKeys, Good, Fields
<1> HIDE DEF v
<1>2. Good(v)
  BY <1>1, StillGood DEF Good
<1> QED
  BY <1>2 DEF v

\* Every key keeps the state good, in every mode (_dispatch).
LEMMA DispatchIsGood ==
  ASSUME NEW u, NEW key, Good(u)
  PROVE  Good(Dispatch(u, key))
<1>1. CASE HidesHelp(u, key)
  <2> DEFINE v == [u EXCEPT !.help = FALSE]
  <2>1. /\ DOMAIN v = Fields /\ v.state = u.state /\ v.severity = u.severity /\ v.text = u.text
        /\ v.sel = u.sel /\ v.offset = u.offset /\ v.search = u.search /\ v.prompt = u.prompt
    BY DEF Good, Fields
  <2>2. Dispatch(u, key) = v
    BY <1>1 DEF Dispatch
  <2> HIDE DEF v
  <2> QED
    BY <2>1, <2>2, StillGood DEF Good
<1>2. CASE ~HidesHelp(u, key) /\ u.prompt
  BY <1>2, ExportKeyIsGood DEF Dispatch
<1>3. CASE ~HidesHelp(u, key) /\ ~u.prompt /\ u.search
  BY <1>3, SearchKeyIsGood DEF Dispatch
<1>4. CASE ~HidesHelp(u, key) /\ ~u.prompt /\ ~u.search
  BY <1>4, NormalKeyIsGood DEF Dispatch
<1> QED
  BY <1>1, <1>2, <1>3, <1>4

\* What is drawn has the selection in its window (_ensure_visible).
LEMMA DrawnIsShown ==
  ASSUME NEW u, Good(u), NEW h \in Nat, h > 0
  PROVE  LET v == Drawn(u, h)
         IN  Good(v) /\ v.offset <= v.sel /\ v.sel < v.offset + h
<1> DEFINE v == Drawn(u, h)
<1>1. /\ DOMAIN v = Fields /\ v.state = u.state /\ v.severity = u.severity /\ v.text = u.text
      /\ v.sel = u.sel /\ v.search = u.search /\ v.prompt = u.prompt
      /\ v.offset = IF u.sel < u.offset THEN u.sel
                    ELSE IF u.sel >= u.offset + h THEN u.sel - h + 1
                    ELSE u.offset
  BY DEF Drawn, Good, Fields
<1>2. v.offset \in Nat /\ v.offset <= v.sel /\ v.sel < v.offset + h
  BY <1>1 DEF Good
<1>3. Count(v) = Count(u)
  BY <1>1, SameVisible
<1> HIDE DEF v
<1>4. Good(v)
  BY <1>1, <1>2, <1>3 DEF Good
<1> QED
  BY <1>2, <1>4 DEF v

-----------------------------------------------------------------------------
(* The induction *)

\* The window has room for a row, however small the terminal.
LEMMA HeightIsPositive ==
  ASSUME NEW rows \in Rows
  PROVE  ListHeight(rows) \in Nat /\ ListHeight(rows) > 0
BY TuiAssumption DEF TuiAssumption, ListHeight, Larger

\* A byte after what was read.
LEMMA Appended ==
  ASSUME NEW a, NEW b, NEW c
  PROVE  /\ Append(<<>>, a) = <<a>>
         /\ Append(<<a>>, b) = <<a, b>>
         /\ Append(<<a, b>>, c) = <<a, b, c>>
<1>1. Append(<<>>, a) = <<a>>
  OBVIOUS
<1>2. Append(<<a>>, b) = <<a, b>>
  <2> DEFINE s == Append(<<a>>, b)
  <2>1. <<a>> \in Seq({a, b}) /\ Len(<<a>>) = 1
    OBVIOUS
  <2>2. s \in Seq({a, b}) /\ Len(s) = 2 /\ s[1] = a /\ s[2] = b
    BY <2>1
  <2>3. <<a, b>> \in Seq({a, b}) /\ Len(<<a, b>>) = 2
    OBVIOUS
  <2>4. \A i \in 1 .. 2 : s[i] = <<a, b>>[i]
    BY <2>2
  <2> QED
    BY <2>2, <2>3, <2>4, SeqEqual
<1>3. Append(<<a, b>>, c) = <<a, b, c>>
  <2> DEFINE s == Append(<<a, b>>, c)
  <2>1. <<a, b>> \in Seq({a, b, c}) /\ Len(<<a, b>>) = 2
    OBVIOUS
  <2>2. s \in Seq({a, b, c}) /\ Len(s) = 3 /\ s[1] = a /\ s[2] = b /\ s[3] = c
    BY <2>1
  <2>3. <<a, b, c>> \in Seq({a, b, c}) /\ Len(<<a, b, c>>) = 3
    OBVIOUS
  <2>4. \A i \in 1 .. 3 : s[i] = <<a, b, c>>[i]
    BY <2>2
  <2> QED
    BY <2>2, <2>3, <2>4, SeqEqual
<1> QED
  BY <1>1, <1>2, <1>3

\* How many bytes make a key (read_key).
LEMMA KeyLength ==
  ASSUME NEW a, NEW b, NEW c
  PROVE  /\ platform = "win32" => /\ Complete(<<a>>) <=> a \notin {"E0", "NUL"}
                                  /\ Complete(<<a, b>>)
         /\ platform # "win32" => /\ Complete(<<a>>) <=> a # "ESC"
                                  /\ Complete(<<a, b>>) <=> (a # "ESC" \/ b \notin {"[", "O"})
                                  /\ Complete(<<a, b, c>>)
<1>1. Len(<<a>>) = 1 /\ Len(<<a, b>>) = 2 /\ Len(<<a, b, c>>) = 3
  OBVIOUS
<1>2. <<a>>[1] = a /\ <<a, b>>[1] = a /\ <<a, b>>[2] = b /\ <<a, b, c>>[1] = a
  OBVIOUS
<1>3. Complete(<<a>>) <=> IF platform = "win32" THEN a \notin {"E0", "NUL"} ELSE a # "ESC"
  BY <1>1, <1>2 DEF Complete
<1>4. Complete(<<a, b>>) <=> (platform = "win32" \/ a # "ESC" \/ b \notin {"[", "O"})
  BY <1>1, <1>2 DEF Complete
<1>5. platform # "win32" => Complete(<<a, b, c>>)
  BY <1>1, <1>2 DEF Complete
<1> QED
  BY <1>3, <1>4, <1>5

\* A key that is still not complete is such a beginning (read_key).
LEMMA OpenKeys ==
  ASSUME NEW b, unread \in Beginnings, ~Complete(Append(unread, b))
  PROVE  Append(unread, b) \in Beginnings
<1>1. CASE unread = <<>>
  <2>1. Append(unread, b) = <<b>>
    BY <1>1, Appended
  <2>2. b \in (IF platform = "win32" THEN {"E0", "NUL"} ELSE {"ESC"})
    BY <2>1, KeyLength
  <2> QED
    BY <2>1, <2>2 DEF Beginnings
<1>2. CASE platform = "win32" /\ unread # <<>>
  <2>1. PICK a : unread = <<a>>
    BY <1>2 DEF Beginnings
  <2> QED
    BY <1>2, <2>1, Appended, KeyLength
<1>3. CASE platform # "win32" /\ unread = <<"ESC">>
  <2>1. Append(unread, b) = <<"ESC", b>>
    BY <1>3, Appended
  <2>2. b \in {"[", "O"}
    BY <1>3, <2>1, KeyLength
  <2> QED
    BY <1>3, <2>1, <2>2 DEF Beginnings
<1>4. CASE platform # "win32" /\ unread \in {<<"ESC", "[">>, <<"ESC", "O">>}
  <2>1. PICK c : unread = <<"ESC", c>>
    BY <1>4
  <2>2. Append(unread, b) = <<"ESC", c, b>>
    BY <2>1, Appended
  <2> QED
    BY <1>4, <2>2, KeyLength
<1> QED
  BY <1>1, <1>2, <1>3, <1>4 DEF Beginnings

\* The first frame.
LEMMA InitIInv == Init => IInv
<1> SUFFICES ASSUME Init PROVE IInv
  OBVIOUS
<1>1. height \in Nat /\ height > 0
  BY HeightIsPositive DEF Init
<1>2. ui = FirstView
  BY DEF Init
<1>3. /\ DOMAIN FirstView = Fields /\ FirstView.sel = 0 /\ FirstView.offset = 0
      /\ FirstView.search \in BOOLEAN /\ FirstView.prompt \in BOOLEAN
      /\ ~(FirstView.search /\ FirstView.prompt)
  BY DEF FirstView, Fields
<1>4. Good(ui)
  BY <1>2, <1>3 DEF Good
<1>5. ui.offset <= ui.sel /\ ui.sel < ui.offset + height
  BY <1>1, <1>2, <1>3
<1>6. unread \in Beginnings
  BY DEF Init, Beginnings
<1> QED
  BY <1>1, <1>4, <1>5, <1>6 DEF IInv

\* One key, handled and drawn (run).
LEMMA HandleIInv ==
  ASSUME NEW key, IInv, Handle(key)
  PROVE  IInv'
<1>1. PICK rows \in Rows : height' = ListHeight(rows) /\ ui' = Drawn(Dispatch(ui, key), height')
  BY DEF Handle
<1>2. height' \in Nat /\ height' > 0
  BY <1>1, HeightIsPositive
<1>3. Good(Dispatch(ui, key))
  BY DispatchIsGood DEF IInv
<1>4. Good(ui') /\ ui'.offset <= ui'.sel /\ ui'.sel < ui'.offset + height'
  BY <1>1, <1>2, <1>3, DrawnIsShown
<1>5. Good(ui)' <=> Good(ui')
  BY DEF Good, Count, Visible, Query
<1>6. (unread \in Beginnings)'
  BY DEF Handle, Beginnings
<1> QED
  BY <1>2, <1>4, <1>5, <1>6 DEF IInv

\* Bytes that complete no key, and ends of the session, change no selection.
LEMMA NextIInv == IInv /\ [Next]_vars => IInv'
<1> SUFFICES ASSUME IInv, [Next]_vars PROVE IInv'
  OBVIOUS
<1>1. ASSUME UNCHANGED <<platform, ui, height>>, unread' \in Beginnings PROVE IInv'
  BY <1>1 DEF IInv, Good, Count, Visible, Query, Beginnings
<1>2. ASSUME NEW b \in Bytes, Type(b) PROVE IInv'
  <2>1. CASE Complete(Append(unread, b))
    BY <1>2, <2>1, HandleIInv DEF Type
  <2>2. CASE ~Complete(Append(unread, b))
    BY <1>1, <1>2, <2>2, OpenKeys DEF Type, IInv
  <2> QED
    BY <2>1, <2>2
<1>3. ASSUME NEW b \in Bytes, ExportFails(b) PROVE IInv'
  BY <1>1, <1>3 DEF ExportFails, Beginnings
<1>4. CASE EndOfInput
  BY <1>4, HandleIInv DEF EndOfInput
<1>5. CASE InterruptRead
  BY <1>5, HandleIInv DEF InterruptRead
<1>6. CASE Interrupted
  BY <1>1, <1>6 DEF Interrupted, IInv
<1>7. CASE UNCHANGED vars
  BY <1>1, <1>7 DEF vars, IInv
<1> QED
  BY <1>2, <1>3, <1>4, <1>5, <1>6, <1>7 DEF Next

\* The inductive invariant of the browser.
THEOREM Invariance == Spec => []IInv
BY InitIInv, NextIInv, PTL DEF Spec

\* The selection is always a listed finding inside the window drawn last.
THEOREM SelectionAlwaysShown == Spec => []SelectionIsShown
<1>1. IInv => SelectionIsShown
  <2> SUFFICES ASSUME IInv PROVE SelectionIsShown
    OBVIOUS
  <2>1. Count(ui) \in Nat /\ (Count(ui) = 0 <=> Visible(ui) = {})
    BY CountIsNat
  <2> QED
    BY <2>1 DEF IInv, Good, SelectionIsShown
<1> QED
  BY <1>1, Invariance, PTL

-----------------------------------------------------------------------------
(* The way out *)

\* Neither prompt is open: q quits, and the other keys used here do not matter.
Free(u) == DOMAIN u = Fields /\ ~u.prompt /\ ~u.search

\* Escape frees every view (_handle_export_key, _handle_search_key).
LEMMA EscapeFrees ==
  ASSUME NEW u, Good(u)
  PROVE  Free(Dispatch(u, "escape"))
<1> DEFINE v == Dispatch(u, "escape")
<1>1. CASE u.prompt
  <2>1. v = [u EXCEPT !.prompt = FALSE]
    BY <1>1 DEF Dispatch, HidesHelp, ExportKey, ExportKeys
  <2> QED
    BY <1>1, <2>1 DEF Good, Fields, Free
<1>2. CASE ~u.prompt /\ u.search
  <2> DEFINE w == [u EXCEPT !.search = FALSE]
  <2>1. v = Clamped(w)
    BY <1>2 DEF Dispatch, HidesHelp, SearchKey, IsPrintable, NamedKeys
  <2>2. /\ DOMAIN w = Fields /\ w.sel \in Nat /\ w.offset \in Nat
        /\ w.search = FALSE /\ w.prompt = FALSE
    BY <1>2 DEF Good, Fields
  <2> HIDE DEF w
  <2>3. Good(Clamped(w)) /\ Clamped(w).search = w.search /\ Clamped(w).prompt = w.prompt
    BY <2>2, ClampedIsGood
  <2> QED
    BY <2>1, <2>2, <2>3 DEF Good, Free
<1>3. CASE ~u.prompt /\ ~u.search
  <2>1. v = [u EXCEPT !.help = FALSE]
    BY <1>3 DEF Dispatch, HidesHelp, NormalKey
  <2> QED
    BY <1>3, <2>1 DEF Good, Fields, Free
<1> QED
  BY <1>1, <1>2, <1>3

\* So does Enter, when help is not shown; in the export prompt it exports.
LEMMA EnterFrees ==
  ASSUME NEW u, Good(u), ~u.help
  PROVE  Free(Dispatch(u, "enter"))
<1> DEFINE v == Dispatch(u, "enter")
<1>1. CASE u.prompt
  <2>1. v = [u EXCEPT !.prompt = FALSE, !.format = ChosenFormat(u, "enter")]
    BY <1>1 DEF Dispatch, HidesHelp, ExportKey, ExportKeys
  <2> QED
    BY <1>1, <2>1 DEF Good, Fields, Free
<1>2. CASE ~u.prompt /\ u.search
  <2> DEFINE w == [u EXCEPT !.search = FALSE]
  <2>1. v = Clamped(w)
    BY <1>2 DEF Dispatch, HidesHelp, SearchKey, IsPrintable, NamedKeys
  <2>2. /\ DOMAIN w = Fields /\ w.sel \in Nat /\ w.offset \in Nat
        /\ w.search = FALSE /\ w.prompt = FALSE
    BY <1>2 DEF Good, Fields
  <2> HIDE DEF w
  <2>3. Good(Clamped(w)) /\ Clamped(w).search = w.search /\ Clamped(w).prompt = w.prompt
    BY <2>2, ClampedIsGood
  <2> QED
    BY <2>1, <2>2, <2>3 DEF Good, Free
<1>3. CASE ~u.prompt /\ ~u.search
  <2>1. v = u
    BY <1>3 DEF Dispatch, HidesHelp, NormalKey
  <2> QED
    BY <1>3, <2>1 DEF Good, Free
<1> QED
  BY <1>1, <1>2, <1>3

\* Enter leaves a free view free: it hides the help, or does nothing.
LEMMA EnterKeepsFree ==
  ASSUME NEW u, Free(u)
  PROVE  Free(Dispatch(u, "enter"))
<1>1. CASE u.help
  <2>1. Dispatch(u, "enter") = [u EXCEPT !.help = FALSE]
    BY <1>1 DEF Dispatch, HidesHelp
  <2> QED
    BY <2>1 DEF Free, Fields
<1>2. CASE ~u.help
  BY <1>2 DEF Free, Dispatch, HidesHelp, NormalKey
<1> QED
  BY <1>1, <1>2

\* The scan code of no known key hides the help at most.
LEMMA ScanHidesHelp ==
  ASSUME NEW u, Good(u)
  PROVE  ~Dispatch(u, "scan").help
<1>1. CASE u.help
  <2>1. Dispatch(u, "scan") = [u EXCEPT !.help = FALSE]
    BY <1>1 DEF Dispatch, HidesHelp
  <2> QED
    BY <2>1 DEF Good, Fields
<1>2. CASE ~u.help
  BY <1>2 DEF Dispatch, HidesHelp, ExportKey, ExportKeys, SearchKey, IsPrintable, NamedKeys, NormalKey
<1> QED
  BY <1>1, <1>2

\* Where nothing holds the user, q quits.
LEMMA QQuits ==
  ASSUME NEW u, Free(u)
  PROVE  Dispatch(u, "q").quit = TRUE
<1>1. Dispatch(u, "q") = [u EXCEPT !.quit = TRUE]
  BY DEF Free, Dispatch, HidesHelp, NormalKey
<1> QED
  BY <1>1 DEF Free, Fields

\* What the readers of both platforms make of the three bytes, from each
\* beginning of a key.
LEMMA BytesRead ==
  ASSUME NEW u
  PROVE  /\ platform # "win32" =>
              /\ Fed([unread |-> <<>>, ui |-> u], "ESC") = [unread |-> <<"ESC">>, ui |-> u]
              /\ Fed([unread |-> <<"ESC">>, ui |-> u], "CR") = [unread |-> <<>>, ui |-> Dispatch(u, "escape")]
              /\ Fed([unread |-> <<"ESC">>, ui |-> u], "ESC") = [unread |-> <<>>, ui |-> Dispatch(u, "escape")]
              /\ \A c \in {"[", "O"} :
                   Fed([unread |-> <<"ESC", c>>, ui |-> u], "ESC")
                     = [unread |-> <<>>, ui |-> Dispatch(u, "escape")]
         /\ platform = "win32" =>
              /\ Fed([unread |-> <<>>, ui |-> u], "ESC") = [unread |-> <<>>, ui |-> Dispatch(u, "escape")]
              /\ \A c \in {"E0", "NUL"} :
                   Fed([unread |-> <<c>>, ui |-> u], "ESC") = [unread |-> <<>>, ui |-> Dispatch(u, "scan")]
         /\ Fed([unread |-> <<>>, ui |-> u], "CR") = [unread |-> <<>>, ui |-> Dispatch(u, "enter")]
         /\ Fed([unread |-> <<>>, ui |-> u], "q") = [unread |-> <<>>, ui |-> Dispatch(u, "q")]
<1>1. /\ LookUp(AnsiMap, <<"ESC", "CR">>, "escape") = "escape"
      /\ LookUp(AnsiMap, <<"ESC", "ESC">>, "escape") = "escape"
      /\ \A c \in {"[", "O"} : LookUp(AnsiMap, <<"ESC", c, "ESC">>, "escape") = "escape"
  BY DEF LookUp, AnsiMap
<1>2. LookUp(ScanMap, "ESC", "scan") = "scan"
  BY DEF LookUp, ScanMap
<1>3. CharToKey("ESC") = "escape" /\ CharToKey("CR") = "enter" /\ CharToKey("q") = "q"
  BY DEF CharToKey
<1>4. /\ KeyOf(<<"ESC">>) = "escape" /\ KeyOf(<<"CR">>) = "enter" /\ KeyOf(<<"q">>) = "q"
      /\ platform = "win32" => \A c \in {"E0", "NUL"} : KeyOf(<<c, "ESC">>) = "scan"
      /\ platform # "win32" => /\ KeyOf(<<"ESC", "CR">>) = "escape" /\ KeyOf(<<"ESC", "ESC">>) = "escape"
                               /\ \A c \in {"[", "O"} : KeyOf(<<"ESC", c, "ESC">>) = "escape"
  BY <1>1, <1>2, <1>3 DEF KeyOf
<1>5. ASSUME NEW a, NEW b
      PROVE  /\ Complete(<<b>>) => Fed([unread |-> <<>>, ui |-> u], b)
                                     = [unread |-> <<>>, ui |-> Dispatch(u, KeyOf(<<b>>))]
             /\ ~Complete(<<b>>) => Fed([unread |-> <<>>, ui |-> u], b) = [unread |-> <<b>>, ui |-> u]
             /\ Complete(<<a, b>>) => Fed([unread |-> <<a>>, ui |-> u], b)
                                        = [unread |-> <<>>, ui |-> Dispatch(u, KeyOf(<<a, b>>))]
  BY Appended DEF Fed
<1>6. ASSUME NEW c
      PROVE  Complete(<<"ESC", c, "ESC">>) =>
               Fed([unread |-> <<"ESC", c>>, ui |-> u], "ESC")
                 = [unread |-> <<>>, ui |-> Dispatch(u, KeyOf(<<"ESC", c, "ESC">>))]
  BY Appended DEF Fed
<1>7. CASE platform = "win32"
  BY <1>4, <1>5, <1>7, KeyLength
<1>8. CASE platform # "win32"
  <2>1. /\ ~Complete(<<"ESC">>) /\ Complete(<<"CR">>) /\ Complete(<<"q">>)
        /\ Complete(<<"ESC", "CR">>) /\ Complete(<<"ESC", "ESC">>)
        /\ \A c : Complete(<<"ESC", c, "ESC">>)
    BY <1>8, KeyLength
  <2> QED
    BY <1>4, <1>5, <1>6, <1>8, <2>1
<1> QED
  BY <1>7, <1>8

\* The bytes of Escape, Enter and q leave the browser from every state it can be
\* in, in the middle of a key as well.
THEOREM AlwaysAWayOut == Spec => []EscapeEnterQuit
<1>1. IInv => EscapeEnterQuit
  <2> SUFFICES ASSUME IInv PROVE EscapeEnterQuit
    OBVIOUS
  <2> DEFINE At(u) == [unread |-> <<>>, ui |-> u]
  <2>1. Good(ui) /\ unread \in Beginnings
    BY DEF IInv
  <2>2. \E u : Free(u) /\ Fed(Fed(Now, "ESC"), "CR") = At(u)
    <3>1. CASE platform = "win32" /\ unread = <<>>
      <4>1. Fed(Now, "ESC") = At(Dispatch(ui, "escape"))
        BY <3>1, BytesRead DEF Now
      <4>2. Fed(At(Dispatch(ui, "escape")), "CR") = At(Dispatch(Dispatch(ui, "escape"), "enter"))
        BY BytesRead
      <4> QED
        BY <2>1, <4>1, <4>2, EscapeFrees, EnterKeepsFree
    <3>2. CASE platform = "win32" /\ unread \in {<<"E0">>, <<"NUL">>}
      <4>1. Fed(Now, "ESC") = At(Dispatch(ui, "scan"))
        BY <3>2, BytesRead DEF Now
      <4>2. Fed(At(Dispatch(ui, "scan")), "CR") = At(Dispatch(Dispatch(ui, "scan"), "enter"))
        BY BytesRead
      <4> QED
        BY <2>1, <4>1, <4>2, ScanHidesHelp, DispatchIsGood, EnterFrees
    <3>3. CASE platform # "win32" /\ unread = <<>>
      <4>1. Fed(Now, "ESC") = [unread |-> <<"ESC">>, ui |-> ui]
        BY <3>3, BytesRead DEF Now
      <4>2. Fed([unread |-> <<"ESC">>, ui |-> ui], "CR") = At(Dispatch(ui, "escape"))
        BY <3>3, BytesRead
      <4> QED
        BY <2>1, <4>1, <4>2, EscapeFrees
    <3>4. CASE platform # "win32" /\ unread \in {<<"ESC">>, <<"ESC", "[">>, <<"ESC", "O">>}
      <4>1. Fed(Now, "ESC") = At(Dispatch(ui, "escape"))
        BY <3>4, BytesRead DEF Now
      <4>2. Fed(At(Dispatch(ui, "escape")), "CR") = At(Dispatch(Dispatch(ui, "escape"), "enter"))
        BY BytesRead
      <4> QED
        BY <2>1, <4>1, <4>2, EscapeFrees, EnterKeepsFree
    <3> QED
      BY <2>1, <3>1, <3>2, <3>3, <3>4 DEF Beginnings
  <2>3. PICK u : Free(u) /\ Fed(Fed(Now, "ESC"), "CR") = At(u)
    BY <2>2
  <2>4. Fed(At(u), "q") = At(Dispatch(u, "q"))
    BY BytesRead
  <2>5. Fed(Fed(Fed(Now, "ESC"), "CR"), "q") = At(Dispatch(u, "q"))
    BY <2>3, <2>4
  <2>6. At(Dispatch(u, "q")).ui.quit = TRUE
    BY <2>3, QQuits
  <2> HIDE DEF At
  <2>7. Fed(Fed(Fed(Now, "ESC"), "CR"), "q").ui.quit = TRUE
    BY <2>5, <2>6
  <2> QED
    BY <2>7 DEF EscapeEnterQuit
<1> QED
  BY <1>1, Invariance, PTL
=============================================================================
