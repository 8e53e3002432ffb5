----------------------------- MODULE MCUserland -----------------------------
(***************************************************************************)
(* A session of a few keys.  The startup file ends with one of these       *)
(* lines: filters, redirections, empty commands, builtins, a command that  *)
(* is not there.  The line is then in the history to be recalled and       *)
(* edited.  Or it is a script of package managers, several at once, that   *)
(* leaves the shell by itself.                                             *)
(***************************************************************************)
EXTENDS Userland

MCRcLines == {<<"gen", "|", "cat">>, <<"gen", "|", "|", "cat", "<", "f">>,
              <<"gen", ">", "o", "|", "|">>, <<"cat", "<", "f", ">", "o">>,
              <<"cd">>, <<"pwd">>, <<"exit">>, <<"cat", "|", "none">>, <<>>}

MCScripts == {<<<<"+a", "|", "-b">>>>, <<<<"+b", "|", "+a">>>>, <<<<"+a", "|", "+a">>>>,
              <<<<"+b", "|", "-b">>>>, <<<<"+a">>, <<"+b">>>>}

\* The first line does nothing and is the first of the history.
MCRcFiles == {<<<<"|">>, l>> : l \in MCRcLines} \cup {Append(s, <<"exit">>) : s \in MCScripts}

MCPhxCommands == [w \in {"+a", "+b", "-b"} |->
                     CASE w = "+a" -> <<"install", "a">>
                       [] w = "+b" -> <<"install", "b">>
                       [] w = "-b" -> <<"remove", "b">>]

MCPkgFiles == [p \in {"a", "b"} |-> IF p = "a" THEN {"a/x", "a/y"} ELSE {"b/x"}]

MCDisks == <<"sda", "nvme0n1">>

=============================================================================
