----------------------------- MODULE QueryText ------------------------------
(***************************************************************************)
(* The text of a query: one that starts with SELECT or PREFIX goes to the  *)
(* SPARQL translator, any other to DontoQL (donto-cli's query command).    *)
(***************************************************************************)
EXTENDS SparqlGrammar

CONSTANT Source \* what users write: [text, means, layout, ...], the query it renders or None

VARIABLES
  means,    \* history: the query the text renders
  language  \* the parser the text goes to

tvars == <<dvars, means, language, prefixes, graphs>>

LanguageOf(t) ==
  IF t # <<>> /\ "s" \in DOMAIN t[1] /\ t[1].s \in {"SELECT", "PREFIX"} THEN "sparql" ELSE "dontoql"

\* A text that means something has a layout that says so.
ASSUME SourcesAreSpelled ==
  \A s \in Source : s.means # None =>
    IF LanguageOf(s.text) = "dontoql" THEN Renders(s.text, s.layout, s.means)
    ELSE RendersSelect(s.text, s.layout, s.means)

\* Nothing is told from a keyword.
ASSUME NoneIsNoWord == None \notin {"GRAPH", "FILTER", "LIMIT", "OFFSET"}

InitText(s) ==
    /\ means = s.means
    /\ language = LanguageOf(s.text)
    /\ prefixes = <<>> /\ graphs = <<>>
    /\ IF LanguageOf(s.text) = "dontoql" THEN InitDontoQL({s.text})
       ELSE S!InitSparql({s.text}) /\ toks = <<>>

ParseDontoQL == language = "dontoql" /\ NextDontoQL /\ UNCHANGED <<means, language, prefixes, graphs>>
ParseSparql == language = "sparql" /\ S!NextSparql /\ UNCHANGED <<means, language, toks>>

Parse == ParseDontoQL \/ ParseSparql

Ended == status \in {"parsed", "error", "panic"}

\* What is written is what is read: of a text that renders a query, every part
\* is read into the query's fields and nothing else is, in whatever order the
\* clauses are written (the last one wins), and a text is never refused
\* because of what stands next to what.
ReadsWhatIsWritten ==
  means # None /\ Ended => status = "parsed" /\ query = means
=============================================================================
