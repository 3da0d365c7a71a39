------------------------------- MODULE Browser -------------------------------
(***************************************************************************)
(* The stateless bridge to a page (browser/main.go).  The page holds the   *)
(* text of the file; each call parses the text it is given, applies one    *)
(* operation to the document, and returns a view: the source grid, and the *)
(* canonical text, which the page gives to its next call.                  *)
(***************************************************************************)
EXTENDS DocumentText

CONSTANTS Files,      \* the texts a page starts from
          Typed,      \* the cells a user may type
          GridDim,    \* BrowserLimits().GridDim: how far an edit may grow the grid
          None,       \* no view yet
          Failed,     \* the view of a call that failed
          MaxLines    \* bound: lines in the text the page holds

ASSUME FilesAssumption == Files \subseteq File
ASSUME TypedAssumption == Typed \subseteq Cell
ASSUME ViewAssumption == None # Failed
ASSUME LimitsAssumption == GridDim \in Nat /\ MaxLines \in Nat

VARIABLES
  text,   \* the text the page holds
  view    \* what the last call returned

vars == <<text, view>>

\* Where a page may ask for an edit: before the grid, in it, past it.
Lines == -1..(GridDim + 1)

\* Mutant: the grid is squared off to its widest row.
SquareSource(doc) ==
  LET w == WidestRow(doc.cells) IN
  [r \in DOMAIN doc.cells |-> [c \in 1..w |-> IF c <= Len(doc.cells[r]) THEN doc.cells[r][c]
                                             ELSE BlankCell]]

Source(doc) == doc.cells

Render(doc) == [source |-> Source(doc), text |-> TextOf(doc)]

Init == text \in Files /\ view = None

Parsed == ParseDocument(text)

\* A call fails when the text does not parse, or the operation refuses; the page
\* keeps the text it had.
Call(doc, refused) ==
  IF ~Parses(text) \/ refused THEN view' = Failed /\ UNCHANGED text
  ELSE view' = Render(doc) /\ text' = view'.text

Compute == Call(Parsed, FALSE)

SetCell(row, col, c) ==
  Call(DocSetCell(Parsed, row, col, c),
       ~({row, col} \subseteq 0..(GridDim - 1)) \/ ~Readable(c))

InsertRow(at) == Call(DocInsertRow(Parsed, at), FALSE)

DeleteRow(at) == Call(DocDeleteRow(Parsed, at), FALSE)

InsertCol(at) == Call(DocInsertCol(Parsed, at), FALSE)

DeleteCol(at) == Call(DocDeleteCol(Parsed, at), FALSE)

\* The bounds on the texts explored; none of them is in the code.
Within(file) == /\ Len(file) <= MaxLines
                /\ \A i \in DOMAIN file : Len(file[i]) <= GridDim

Next == /\ \/ Compute
           \/ \E row, col \in Lines, c \in Typed : SetCell(row, col, c)
           \/ \E at \in Lines : \/ InsertRow(at)
                                \/ DeleteRow(at)
                                \/ InsertCol(at)
                                \/ DeleteCol(at)
        /\ Within(text')

Spec == Init /\ [][Next]_vars

-----------------------------------------------------------------------------
(***************************************************************************)
(* Correctness.                                                            *)
(***************************************************************************)

Answered == view \notin {None, Failed}

\* Every formula that an edit printed reads as a formula again.
PrintsReadably(source) ==
  \A row \in ToSet(source) : \A k \in DOMAIN row : row[k].rendered => Readable(row[k])

\* The text of a view is a fixed point, whatever mix of calls led to it: it parses, and
\* the document it parses to is written as the same text again.  Only a formula an edit
\* printed can keep it from parsing, by a call that lost its parentheses or a reference
\* moved into a column TRUE or FALSE (renderCall, renderCell); what the page calls after
\* that fails.
TextIsFixedPoint ==
  Answered /\ PrintsReadably(view.source)
    => Parses(view.text) /\ TextOf(ParseDocument(view.text)) = view.text

\* The grid and the text of a view come from one document and describe each other.
ViewDescribesText == Answered /\ Parses(view.text) => ParseDocument(view.text).cells = view.source

\* The rows a text keeps as rows: those without cells, and those whose first field
\* does not read as a comment.
PlainRows(source) ==
  {r \in DOMAIN source : source[r] = <<>> \/ source[r][1].text \notin HashText}

\* What is left of that in the code: the two differ only in the rows that hold no
\* cell, read back with one, in the rows whose first field reads as a comment, which
\* are not read back at all, and in the printed calls that read as cells (Fields).
ViewDescribesPlainRows ==
  /\ Answered /\ Parses(view.text)
  /\ \A row \in ToSet(view.source) : row # <<>> => row[1].text \notin BangText
  => LET plain == PlainRows(view.source)
     IN ParseDocument(view.text).cells
          = [k \in 1..Cardinality(plain) |-> Fields(view.source[Nth(plain, k)])]
=============================================================================
