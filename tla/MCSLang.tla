------------------------------ MODULE MCSLang ------------------------------
(***************************************************************************)
(* The files of the slang run: the documented forms of the language, each  *)
(* with one fragment changed, dropped or added anywhere, and every short   *)
(* text of the characters that open, close or escape a comment or literal. *)
(***************************************************************************)
EXTENDS SLang

CONSTANTS MaxTricky   \* the length of the short texts

Programs ==
    {<<"use", " ", "\"", "s", ".", "h", "\"", "\n", "fn", " ", "x", "(", ")", "{">>,
     <<"use", " ", "<", "s", ".", "h", ">", "\n", "var", " ", "str", " ", "y", ";">>,
     <<"fn", " ", "x", "(", "i32", " ", "y", ")", " ", "-", ">", " ", "u8", " ", "{", "null">>,
     <<"let", " ", "x", ":", "i32", "=", "0", ".", "1", ";", "var", " ", "y", "=", "x", ";">>,
     <<"for", " ", "x", " ", "in", " ", "0", ".", ".", "=", "1", " ", "{", "loop", ";">>,
     <<"x", "=", "\"", "\\", "\"", "\"", ";", "/", "/", "'", "\n", "/", "*", "*", "/">>}

Fragments == {"fn", "use", "var", "in", "i32", "x", "0", ".", "=", "<", ">", "(", ")", "{",
              ":", "/", "*", "\"", "'", "\\", " ", "\n"}

Edited(s) == {ReplaceAt(s, i, f) : i \in DOMAIN s, f \in Fragments}
             \cup {RemoveAt(s, i) : i \in DOMAIN s}
             \cup {InsertAt(s, i, f) : i \in 1..(Len(s) + 1), f \in Fragments}

\* A keyword is a fragment of its own: where a digit or a word would run into
\* it the fragments would not be the lexer's characters.
WellCut(s) == \A i \in 1..(Len(s) - 1) :
                 s[i] \in Idents \cup Digits => s[i + 1] \notin Idents \ {"x"}

MCSources == {s \in UNION {Edited(p) : p \in Programs} : WellCut(s)}
             \cup BoundedSeq({"/", "*", "\"", "'", "\\", "\n", "x"}, MaxTricky)

=============================================================================
