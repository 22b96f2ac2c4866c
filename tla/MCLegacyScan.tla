---------------------------- MODULE MCLegacyScan -----------------------------
(* Model-checking instance: a routed file, a file that two packs support    *)
(* (one takes it as an endpoint), a source file no pack supports, and one   *)
(* the project ignores.                                                     *)
EXTENDS LegacyScan, TLC

MCFiles == {"api", "page", "tool", "stub"}
MCDirs  == {"legacy", "cmd"}
MCDirsOf(f) == CASE f = "page" -> {"legacy"} [] f = "tool" -> {"cmd"} [] OTHER -> {}

MCPacks == {[name |-> "routes", files |-> {"api", "page", "stub"}, model |-> "route", exempt |-> {"/health"}],
            [name |-> "pages", files |-> {"page"}, model |-> "file", exempt |-> {}]}

Line(route, guard, muted) == [route |-> route, guard |-> guard, muted |-> muted]
Text(guard, lines) == [guard |-> guard, lines |-> lines, readable |-> TRUE]
Unreadable == [guard |-> FALSE, lines |-> <<>>, readable |-> FALSE]

MCContents(f) ==
  CASE f = "api"  -> {Text(FALSE, <<Line("/a", FALSE, FALSE), Line("/b", FALSE, FALSE)>>),
                      Text(FALSE, <<Line("/a", FALSE, TRUE), Line("/b", TRUE, FALSE)>>),
                      Text(FALSE, <<Line("/a", TRUE, FALSE)>>),
                      Text(TRUE,  <<Line("/a", FALSE, FALSE)>>),
                      Text(FALSE, <<Line("/a", FALSE, TRUE)>>)}
    [] f = "page" -> {Text(FALSE, <<>>), Text(TRUE, <<Line("/health", FALSE, FALSE)>>), Unreadable}
    [] OTHER      -> {Text(FALSE, <<Line("/a", FALSE, FALSE)>>)}

Set(settings) == [settings |-> settings, form |-> "good"]
Bad(form)     == [settings |-> <<>>, form |-> form]
MCProjectFiles == {Bad("absent"), Bad("malformed"),
                   Set([fail_on |-> "UNKNOWN", strict_coverage |-> TRUE, excludes |-> {"cmd"}]),
                   Set([public_paths |-> {"/a"}, min_confidence |-> "low"])}
Undecodable == {Bad("absent"), Bad("undecodable")}
NoProjectFile == {Bad("absent")}

Cmd(given, base, write, report) ==
  [given |-> given, write |-> write, report |-> report, baseline |-> base, packs |-> <<>>]
MCCommands ==
  {Cmd([fail_on |-> "UNKNOWN"], FALSE, FALSE, FALSE),
   Cmd([fail_on |-> "EXPOSED"], TRUE, FALSE, FALSE),
   Cmd([fail_on |-> "MEDIUM", excludes |-> {"cmd"}], TRUE, FALSE, TRUE),
   Cmd([fail_on |-> "UNKNOWN", excludes |-> {"legacy", "cmd"}, min_confidence |-> "high"], TRUE, FALSE, FALSE),
   Cmd([fail_on |-> "INFO", strict_coverage |-> TRUE, excludes |-> {"cmd"}], TRUE, FALSE, FALSE),
   Cmd([excludes |-> {"cmd"}], FALSE, TRUE, FALSE),
   Cmd(<<>>, FALSE, TRUE, FALSE),
   Cmd([fail_on |-> "UNKNOWN"], FALSE, TRUE, FALSE),
   [Cmd(<<>>, FALSE, FALSE, FALSE) EXCEPT !.packs = <<"good", "malformed", "undecodable">>]}
StrictCommands ==
  {Cmd([strict_coverage |-> TRUE, excludes |-> {"cmd"}], FALSE, FALSE, FALSE),
   Cmd([fail_on |-> "EXPOSED", strict_coverage |-> TRUE, excludes |-> {"cmd"}], FALSE, FALSE, TRUE)}
=============================================================================
