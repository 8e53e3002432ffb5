------------------------------- MODULE SLang -------------------------------
(***************************************************************************)
(* The S language compiler, tools/s-lang/sc.c: main reads one source file, *)
(* lexes it into an array of tokens (lexer_next), rewrites the tokens into *)
(* C (translate_tokens) and prints the text, saves it or hands it to gcc.  *)
(*                                                                         *)
(* A source is a sequence of fragments: a word, a digit, or one character. *)
(* A token is [type, text] with text a sequence of fragments; the output   *)
(* is the sequence of the texts handed to ob_str, in order.  Line and      *)
(* column numbers reach no output and are left out.                        *)
(***************************************************************************)
EXTENDS Integers, Sequences, FiniteSets, FiniteSetsExt, SequencesExt

CONSTANTS Sources     \* the files the compiler may be given

\* What lexer_peek gives past the end of the file; a source is text without it.
NUL == "nul"

ASSUME SourcesAssumption == Sources \subseteq Seq(STRING \ {NUL})

VARIABLES src,        \* the file's text, buf in read_file
          pos,        \* lex.pos, counted from 1
          tokens,     \* tr.tokens
          tpos,       \* tr.pos, counted from 1
          out,        \* body: the texts appended so far
          prelude,    \* whether "#include <s.h>" goes in front
          tmp,        \* whether /tmp/sc_<pid>.c exists
          stage,      \* where transpile and main are
          ret         \* main's return value, -1 while it runs

scVars == <<src, pos, tokens, tpos, out, prelude, tmp, stage, ret>>

Digits == {"0", "1"}
HexDigits == Digits \cup {"f"}
NumberSuffixes == {"u", "f"}
Blanks == {" "}
Keywords == {"use", "fn", "let", "var", "null", "loop", "for", "in"}

\* translate_type: the S name of a type and its C name.
TypeNames ==
    [i8 |-> <<"int8_t">>, i16 |-> <<"int16_t">>, i32 |-> <<"int32_t">>,
     i64 |-> <<"int64_t">>, u8 |-> <<"uint8_t">>, u16 |-> <<"uint16_t">>,
     u32 |-> <<"uint32_t">>, u64 |-> <<"uint64_t">>, f32 |-> <<"float">>,
     f64 |-> <<"double">>, str |-> <<"char", "*">>, byte |-> <<"uint8_t">>,
     usize |-> <<"size_t">>, isize |-> <<"ssize_t">>]

Idents == Keywords \cup DOMAIN TypeNames \cup {"x", "y", "u", "f", "s", "h", "utils"}

PairOps == {<<"-", ">">>, <<"=", "=">>, <<"!", "=">>, <<"<", "=">>, <<">", "=">>,
            <<"&", "&">>, <<"|", "|">>, <<"<", "<">>, <<">", ">">>,
            <<"+", "+">>, <<"-", "-">>}
           \cup ({"+", "-", "*", "/", "%", "&", "|", "^"} \X {"="})

-----------------------------------------------------------------------------
(* The lexer.  Each ...End is the position after the token that starts at p. *)

peek(s, p) == IF p \in DOMAIN s THEN s[p] ELSE NUL

\* Every "while (peek is in S) advance" loop of lexer_next.
SpanEnd(s, p, S) == Min({q \in p..(Len(s) + 1) : peek(s, q) \notin S})

LineCommentEnd(s, p) == Min({q \in p..(Len(s) + 1) : peek(s, q) \in {NUL, "\n"}})

\* The loop runs while two characters are left: an unterminated comment ends
\* before the file's last character.
BlockCommentEnd(s, p) ==
    LET ends == {q \in (p + 2)..(Len(s) - 1) : s[q] = "*" /\ s[q + 1] = "/"}
    IN  IF ends # {} THEN Min(ends) + 2 ELSE Max({p + 2, Len(s)})

\* Mutant: a literal ends at the next quote, escaped or not.
QuotedEndNoEscape(s, p) ==
    Min({Len(s) + 1} \cup {q + 1 : q \in {k \in (p + 1)..Len(s) : s[k] = s[p]}})

\* A backslash takes the next character with it; an unterminated literal
\* runs to the end of the file.
QuotedEnd(s, p) ==
    LET end[q \in 1..(Len(s) + 1)] ==
            IF q > Len(s) THEN q
            ELSE IF s[q] = "\\" THEN end[Min({q + 2, Len(s) + 1})]
            ELSE IF s[q] = s[p] THEN q + 1
            ELSE end[q + 1]
    IN  end[p + 1]

\* One "." is part of a number, and only in front of a digit: 0..1 is a range.
NumberEnd(s, p) ==
    IF s[p] = "0" /\ peek(s, p + 1) = "x"
    THEN SpanEnd(s, p + 2, HexDigits)
    ELSE LET i == SpanEnd(s, p, Digits)
             fraction == peek(s, i) = "." /\ peek(s, i + 1) \in Digits
         IN  SpanEnd(s, IF fraction THEN SpanEnd(s, i + 1, Digits) ELSE i, NumberSuffixes)

\* lexer_next: the type of the token at p and the position after it.
Scan(s, p) ==
    LET c == s[p]
        d == peek(s, p + 1)
        Is(t, e) == [type |-> t, end |-> e]
    IN  CASE c \in Blanks -> Is("space", SpanEnd(s, p, Blanks))
          [] c = "\n" -> Is("newline", p + 1)
          [] c = "/" /\ d = "/" -> Is("line", LineCommentEnd(s, p))
          [] c = "/" /\ d = "*" -> Is("block", BlockCommentEnd(s, p))
          [] c = "\"" -> Is("string", QuotedEnd(s, p))
          [] c = "'" -> Is("char", QuotedEnd(s, p))
          [] c \in Digits -> Is("number", NumberEnd(s, p))
          [] c \in Idents -> Is("word", SpanEnd(s, p, Idents \cup Digits))
          [] c = "." /\ d = "." -> IF peek(s, p + 2) = "=" THEN Is("dotdoteq", p + 3)
                                                         ELSE Is("dotdot", p + 2)
          [] c = "-" /\ d = ">" -> Is("arrow", p + 2)
          [] <<c, d>> \in PairOps \ {<<"-", ">">>} -> Is("op", p + 2)
          [] OTHER -> Is("punct", p + 1)

-----------------------------------------------------------------------------
(* The translator.  A translate_* function started at token p gives the     *)
(* position it leaves tr->pos at and the texts it appends.                  *)

EOF == [type |-> "eof", text |-> <<>>]

Tok(p) == IF p \in DOMAIN tokens THEN tokens[p] ELSE EOF

IsWord(t, w) == t = [type |-> "word", text |-> <<w>>]

IsPunct(t, c) == t = [type |-> "punct", text |-> <<c>>]

\* The first position from p on at which Stop holds; the EOF token stops all.
FirstAt(p, Stop(_)) ==
    Min({q \in p..Len(tokens) : Tok(q).type = "eof" \/ Stop(q)} \cup {Max({p, Len(tokens)})})

SkipSpaces(p) == FirstAt(p, LAMBDA q : Tok(q).type # "space")

IsAlias(t) == /\ t.type = "word" /\ Len(t.text) = 1
              /\ t.text[1] \in DOMAIN TypeNames

Mapped(t) == IF IsAlias(t) THEN TypeNames[t.text[1]] ELSE t.text

\* What a loop that appends the tokens from p up to q leaves in its buffer.
Texts(p, q) == [i \in 1..(q - p) |-> Tok(p + i - 1).text]
MappedTexts(p, q) == [i \in 1..(q - p) |-> Mapped(Tok(p + i - 1))]

\* The loop that removes the blanks at the end of a buffer.
Strip(t) == SubSeq(t, 1, Max({0} \cup {k \in DOMAIN t : t[k] \notin Blanks}))
Trim(texts) ==
    LET n == Max({0} \cup {i \in DOMAIN texts : Strip(texts[i]) # <<>>})
    IN  SubSeq(texts, 1, n - 1) \o (IF n = 0 THEN <<>> ELSE <<Strip(texts[n])>>)

\* The position after the ")" that closes the "(" at p.
ParamsEnd(p) ==
    LET depth(q) == Cardinality({i \in p..q : IsPunct(Tok(i), "(")})
                      - Cardinality({i \in p..q : IsPunct(Tok(i), ")")})
        close == FirstAt(p + 1, LAMBDA q : depth(q) = 0)
    IN  IF Tok(close).type = "eof" THEN close ELSE close + 1

translate_fn(p) ==
    LET n == SkipSpaces(p + 1)
        name == Tok(n).text
        l == SkipSpaces(n + 1)
        after == ParamsEnd(l)
        params == MappedTexts(l, after)
        arrow == SkipSpaces(after)
        rtype == SkipSpaces(arrow + 1)
        retEnd == FirstAt(rtype, LAMBDA q : \/ IsPunct(Tok(q), "{") \/ IsPunct(Tok(q), ";")
                                          \/ Tok(q).type = "newline")
    IN  IF Tok(n).type # "word"
        THEN [pos |-> n + 1, out |-> <<<<"fn">>, <<" ">>, name>>]
        ELSE IF ~IsPunct(Tok(l), "(")
        THEN [pos |-> l, out |-> <<<<"void">>, <<" ">>, name>>]
        ELSE IF Tok(arrow).type # "arrow"
        THEN [pos |-> arrow, out |-> <<<<"void">>, <<" ">>, name>> \o params]
        ELSE [pos |-> retEnd,
              out |-> Trim(MappedTexts(rtype, retEnd)) \o <<<<" ">>, name>> \o params]

translate_use(p) ==
    LET h == SkipSpaces(p + 1)
        close == FirstAt(h + 1, LAMBDA q : IsPunct(Tok(q), ">") \/ Tok(q).type = "newline")
    IN  CASE Tok(h).type = "string" ->
               [pos |-> h + 1, out |-> <<<<"#include", " ">>, Tok(h).text>>]
          [] IsPunct(Tok(h), "<") ->
               [pos |-> close + 1, out |-> <<<<"#include", " ">>>> \o Texts(h, close + 1)]
          [] OTHER ->
               [pos |-> h + 1, out |-> <<<<"/*", "use", " ">>, Tok(h).text, <<" ", "*/">>>>]

\* Mutant: tr->pos is not taken back to the name when no colon follows it.
DeclareNoRestore(p, prefix) ==
    LET n == SkipSpaces(p + 1)
        colon == SkipSpaces(n + 1)
    IN  IF Tok(n).type # "word" THEN [pos |-> n, out |-> prefix]
        ELSE [pos |-> colon + 1, out |-> prefix \o <<Mapped(Tok(n))>>]

\* translate_let with prefix "const ", translate_var with none.
Declare(p, prefix) ==
    LET n == SkipSpaces(p + 1)
        colon == SkipSpaces(n + 1)
        ty == SkipSpaces(colon + 1)
    IN  CASE Tok(n).type # "word" -> [pos |-> n, out |-> prefix]
          [] Tok(n).type = "word" /\ ~IsAlias(Tok(n)) /\ IsPunct(Tok(colon), ":") ->
               [pos |-> IF Tok(ty).type = "eof" THEN ty ELSE ty + 1,
                out |-> prefix \o <<Mapped(Tok(ty)), <<" ">>, Tok(n).text>>]
          [] OTHER -> [pos |-> n + 1, out |-> prefix \o <<Mapped(Tok(n))>>]

translate_let(p) == Declare(p, <<<<"const", " ">>>>)

translate_var(p) == Declare(p, <<>>)

\* Mutant: "not a range" is reported with tr->pos taken back, and nobody
\* emits the word.
ForRangeStuck(p) == [pos |-> p, out |-> <<>>]

\* The range form, or the plain word "for" when the tokens are not a range.
try_translate_for_range(p) ==
    LET v == SkipSpaces(p + 1)
        in == SkipSpaces(v + 1)
        start == SkipSpaces(in + 1)
        range == FirstAt(start, LAMBDA q : Tok(q).type \in {"dotdot", "dotdoteq", "newline"})
        stop == SkipSpaces(range + 1)
        end == FirstAt(stop, LAMBDA q : IsPunct(Tok(q), "{") \/ Tok(q).type = "newline")
        name == Tok(v).text
        less == IF Tok(range).type = "dotdoteq" THEN " <= " ELSE " < "
    IN  IF /\ Tok(v).type = "word" /\ IsWord(Tok(in), "in")
           /\ Tok(range).type \in {"dotdot", "dotdoteq"}
        THEN [pos |-> end,
              out |-> <<<<"for", " (", "int ">>, name, <<" = ">>>> \o Texts(start, range)
                      \o <<<<"; ">>, name, <<less>>>> \o Trim(Texts(stop, end))
                      \o <<<<"; ">>, name, <<"++", ")">>>>]
        ELSE [pos |-> p + 1, out |-> <<Tok(p).text>>]

\* One turn of the loop in translate_tokens.
Translate(p) ==
    LET t == Tok(p)
    IN  CASE IsWord(t, "use") -> translate_use(p)
          [] IsWord(t, "fn") -> translate_fn(p)
          [] IsWord(t, "let") -> translate_let(p)
          [] IsWord(t, "var") -> translate_var(p)
          [] IsWord(t, "null") -> [pos |-> p + 1, out |-> <<<<"NULL">>>>]
          [] IsWord(t, "loop") -> [pos |-> p + 1, out |-> <<<<"while", " (", "1", ")">>>>]
          [] IsWord(t, "for") -> try_translate_for_range(p)
          [] OTHER -> [pos |-> p + 1, out |-> <<Mapped(t)>>]

\* The search for an explicit use of s.h: strstr finds "s.h" anywhere in the
\* text of the token after the word use.
HasSInclude ==
    \E i \in DOMAIN tokens :
        /\ IsWord(tokens[i], "use")
        /\ LET t == Tok(SkipSpaces(i + 1)).text
           IN  \E k \in 1..(Len(t) - 2) : /\ t[k] \in {"s", "utils"}
                                          /\ t[k + 1] = "." /\ t[k + 2] = "h"

-----------------------------------------------------------------------------

ScInit == /\ src \in Sources /\ pos = 1 /\ tokens = <<>> /\ tpos = 1 /\ out = <<>>
        /\ prelude = FALSE /\ tmp = FALSE /\ stage = "args" /\ ret = -1

Exit(rc) == stage' = "done" /\ ret' = rc

\* main's option loop ends the program: help, version, a bad option, no file.
ParseArgs == /\ stage = "args"
             /\ \E rc \in {0, 1} : Exit(rc)
             /\ UNCHANGED <<src, pos, tokens, tpos, out, prelude, tmp>>

\* read_file returns the text, or NULL when fopen fails.
read_file == /\ stage = "args"
             /\ \/ stage' = "lex" /\ UNCHANGED ret
                \/ Exit(1)
             /\ UNCHANGED <<src, pos, tokens, tpos, out, prelude, tmp>>

\* lexer_next and tr_push.
LexOne == /\ stage = "lex" /\ pos <= Len(src)
          /\ LET t == Scan(src, pos)
             IN  /\ tokens' = Append(tokens, [type |-> t.type,
                                              text |-> SubSeq(src, pos, t.end - 1)])
                 /\ pos' = t.end
          /\ UNCHANGED <<src, tpos, out, prelude, tmp, stage, ret>>

\* The EOF token is pushed and the tokens are searched for s.h.
LexEnd == /\ stage = "lex" /\ pos > Len(src)
          /\ tokens' = Append(tokens, EOF)
          /\ prelude' = ~HasSInclude
          /\ stage' = "translate"
          /\ UNCHANGED <<src, pos, tpos, out, tmp, ret>>

TranslateOne == /\ stage = "translate" /\ Tok(tpos).type # "eof"
                /\ LET t == Translate(tpos)
                   IN  tpos' = t.pos /\ out' = out \o t.out
                /\ UNCHANGED <<src, pos, tokens, prelude, tmp, stage, ret>>

\* The body goes behind the banner and, if needed, the prelude.
BuildOutput == /\ stage = "translate" /\ Tok(tpos).type = "eof"
               /\ stage' = "output"
               /\ UNCHANGED <<src, pos, tokens, tpos, out, prelude, tmp, ret>>

\* --emit-c prints; -C saves, or dies when the file cannot be opened.
EmitC == /\ stage = "output"
         /\ \E rc \in {0, 1} : Exit(rc)
         /\ UNCHANGED <<src, pos, tokens, tpos, out, prelude, tmp>>

\* The temporary file for gcc is written, or main dies.
WriteTemp == /\ stage = "output"
             /\ \/ tmp' = TRUE /\ stage' = "gcc" /\ UNCHANGED ret
                \/ Exit(1) /\ UNCHANGED tmp
             /\ UNCHANGED <<src, pos, tokens, tpos, out, prelude>>

\* gcc is run, whatever it says the temporary file is removed.
Compile == /\ stage = "gcc"
           /\ tmp' = FALSE
           /\ \E rc \in {0, 1} : Exit(rc)
           /\ UNCHANGED <<src, pos, tokens, tpos, out, prelude>>

Ended == stage = "done" /\ UNCHANGED scVars

ScNext == \/ ParseArgs \/ read_file \/ LexOne \/ LexEnd \/ TranslateOne
        \/ BuildOutput \/ EmitC \/ WriteTemp \/ Compile \/ Ended

ScSpec == ScInit /\ [][ScNext]_scVars

-----------------------------------------------------------------------------
(* Reference: the comments and literals of a source, one character at a    *)
(* time, by the rules C has once lines are spliced.  A newline inside a    *)
(* quoted literal, which C forbids, is read as part of it.                 *)

\* A backslash at the end of a line: C takes both away before it looks for
\* comments and literals, and the lines become one.
Spliced(s) == \E i \in DOMAIN s : s[i] = "\\" /\ peek(s, i + 1) = "\n"

\* The state after character c, which d follows.
Region(st, c, d) ==
    CASE st = "code" -> CASE c = "/" /\ d = "/" -> "line"
                          [] c = "/" /\ d = "*" -> "open"
                          [] c = "\"" -> "string"
                          [] c = "'" -> "char"
                          [] OTHER -> "code"
      [] st = "line" -> IF d \in {"\n", NUL} THEN "code" ELSE "line"
      [] st = "open" -> "block"
      [] st = "block" -> IF c = "*" /\ d = "/" THEN "close" ELSE "block"
      [] st = "close" -> "code"
      [] st = "string" -> CASE c = "\\" -> "stringEscape" [] c = "\"" -> "code" [] OTHER -> st
      [] st = "char" -> CASE c = "\\" -> "charEscape" [] c = "'" -> "code" [] OTHER -> st
      [] st = "stringEscape" -> "string"
      [] st = "charEscape" -> "char"

Regions(s) ==
    LET r[i \in 0..Len(s)] == IF i = 0 THEN "code" ELSE Region(r[i - 1], s[i], peek(s, i + 1))
    IN  r

\* The first and the last position of every comment and literal, and whether
\* the source leaves none of them open.
Literals(s) ==
    LET r == Regions(s)
    IN  [closed |-> r[Len(s)] = "code",
         spans |-> {<<i, Min({Len(s)} \cup {j \in i..Len(s) : r[j] = "code"})>> :
                        i \in {k \in DOMAIN s : r[k - 1] = "code" /\ r[k] # "code"}}]

\* Where each of the lexer's tokens starts.
Starts(ts) ==
    LET start[k \in 1..Len(ts)] ==
            IF k = 1 THEN 1 ELSE start[k - 1] + Len(ts[k - 1].text)
    IN  start

\* The same of the lexer's tokens.
TokenSpans ==
    LET start == Starts(tokens)
    IN  {<<start[k], start[k] + Len(tokens[k].text) - 1>> :
            k \in {i \in DOMAIN tokens : tokens[i].type \in {"line", "block", "string", "char"}}}

(***************************************************************************)
(* In a file without spliced lines the lexer takes for a comment or a      *)
(* literal exactly what C takes for one: a quote inside a comment, a "//"  *)
(* inside a string, an escaped quote and "*/" right after "/*" are where   *)
(* lexer_next could slip, and every keyword it then rewrote would be       *)
(* inside the user's text.  Spliced lines it does slip on: a line comment  *)
(* that ends in a backslash goes on in C, and ends here.                   *)
(***************************************************************************)
RegionsRight ==
    stage = "translate" /\ tpos = 1 /\ ~Spliced(src) =>
        LET l == Literals(src) IN l.closed => TokenSpans = l.spans

\* What a token owes to the output: all but S's own syntax.
Owed(t) == /\ t.type \in {"word", "number", "string", "char", "line", "block", "op", "punct"}
           /\ \A k \in Keywords : ~IsWord(t, k)
           /\ ~IsPunct(t, ":")

(***************************************************************************)
(* The translator drops nothing the programmer wrote: every name, number,  *)
(* literal, comment and operator is in the C text as often as in the       *)
(* source, whichever translate_* consumed it and on however malformed an   *)
(* input (a type under its S or its C name).                               *)
(***************************************************************************)
NothingLost ==
    stage = "output" =>
        LET Same(t) == Strip(Mapped([type |-> "word", text |-> t]))
            owed == [i \in DOMAIN tokens |->
                        IF Owed(tokens[i]) THEN Same(tokens[i].text) ELSE <<>>]
            given == [i \in DOMAIN out |-> Same(out[i])]
        IN  \A t \in ToSet(owed) \ {<<>>} :
                Cardinality({i \in DOMAIN owed : owed[i] = t})
                    <= Cardinality({i \in DOMAIN given : given[i] = t})

(***************************************************************************)
(* No loop of the lexer or the translator stands still or runs past its    *)
(* array, on any text: each turn moves lex.pos or tr.pos forward and at    *)
(* most to the end, so that, as no state but the last is without a         *)
(* successor, the compiler ends on every file.                             *)
(***************************************************************************)
LoopsAdvance ==
    /\ stage = "lex" /\ pos <= Len(src) => Scan(src, pos).end \in (pos + 1)..(Len(src) + 1)
    /\ stage = "translate" /\ Tok(tpos).type # "eof" =>
           Translate(tpos).pos \in (tpos + 1)..(Len(tokens) + 1)

=============================================================================
