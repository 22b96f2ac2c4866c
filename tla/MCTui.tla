-------------------------------- MODULE MCTui --------------------------------
(* Model-checking instance: nine findings in a window of seven or more     *)
(* rows, with filters and searches that leave nine, eight, one or none.    *)
EXTENDS Tui

MCFindings ==
  {[id |-> i, state |-> "EXPOSED", severity |-> "CRITICAL", texts |-> {<<"a">>, <<"x", "a">>}] : i \in 1 .. 8}
    \cup {[id |-> 9, state |-> "UNKNOWN", severity |-> "HIGH", texts |-> {<<"o", "x">>}]}

MCBytes == {"ESC", "[", "O", "A", "B", "C", "D", "H", "F", "5", "~", "CR", "DEL", "^C", "E0", "I", "Q",
            "q", "?", "j", "/", "f", "v", "o"}

MCLower == [b \in MCBytes |-> CASE b = "O" -> "o" [] b = "A" -> "a" [] OTHER -> b]
=============================================================================
