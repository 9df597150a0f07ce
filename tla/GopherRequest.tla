----------------------------- MODULE GopherRequest -----------------------------
(***************************************************************************)
(* request::Request (src/src/gopher/request.cc): how the line a client     *)
(* sends is taken apart.                                                   *)
(*                                                                         *)
(* A line is a sequence of symbols: Slash, UrlMark for a "URL:" at the     *)
(* beginning, and names for the text between them.                         *)
(***************************************************************************)
EXTENDS StrUtil

CONSTANTS
  Slash,      \* '/'
  UrlMark,    \* "URL:"
  Dot,        \* the name "."
  DotDot      \* the name ".."

ASSUME SymbolsAssumption == Cardinality({Slash, UrlMark, Dot, DotDot}) = 4

\* Request::is_url
IsUrl(raw) == raw # <<>> /\ Head(raw) = UrlMark

\* The text of a request, which is no separator; Request::first is npos when it
\* has none.
Text(raw) == {i \in DOMAIN raw : raw[i] # Slash}
First(raw) == Nth(Text(raw), 1)

\* Request::selector() of a request that is not a URL: from first to the next
\* separator or to the end.  Leading separators are skipped.
SelectorOf(raw) ==
  LET ends == {i \in Occurrences(raw, Slash) : First(raw) < i}
  IN CASE Text(raw) = {} -> <<>>
       [] Text(raw) # {} /\ ends = {} -> SubSeq(raw, First(raw), Len(raw))
       [] OTHER -> SubSeq(raw, First(raw), Nth(ends, 1) - 1)

\* Request::query(): here leading separators are not skipped.
Query(raw) == Tail(Tokenize(raw, Slash))

\* The tokens as_path() does not skip.
Tokens(raw) == LET query == Query(raw)
               IN Those(query, {i \in DOMAIN query : query[i] # <<>>})

\* Mutant of Refused: only "." is looked for.
RefusedDot(tok) == tok = <<Dot>>

\* The tokens for which as_path() throws BadRequest.
Refused(tok) == tok \in {<<Dot>>, <<DotDot>>}

BadRequest(raw) == LET tokens == Tokens(raw)
                   IN \E i \in DOMAIN tokens : Refused(tokens[i])

\* as_path() otherwise, as the sequence of the names it joins with '/'.
AsPath(raw) == LET tokens == Tokens(raw)
               IN [i \in DOMAIN tokens |-> Head(tokens[i])]

-------------------------------------------------------------------------------
(* What it names, told from the positions of its separators.               *)

\* The names after the first separator.
NamesAfter(raw) == {i \in Text(raw) : \E j \in Occurrences(raw, Slash) : j < i}

\* A line has a separator between two names.
IsLine(raw) == /\ raw \in Seq({raw[i] : i \in DOMAIN raw})
               /\ IsUrl(raw) \/ \A i \in NamesAfter(raw) : raw[i - 1] = Slash
===============================================================================
