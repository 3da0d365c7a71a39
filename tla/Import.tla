-------------------------------- MODULE Import --------------------------------
(***************************************************************************)
(* A cell that imports a table over the network                            *)
(* (internal/engine/import.go): each pass sends one request, checks the    *)
(* media type of the answer, reads the body by it and takes the whole of   *)
(* it in the shape its function promises, or is #IMPORT!.                  *)
(*                                                                         *)
(* The server publishes one table, a sequence of records of cells, in any  *)
(* media type it likes; it may fail, answer something else or a body that  *)
(* cannot be read.                                                         *)
(***************************************************************************)
EXTENDS Integers, SequencesExt

CONSTANTS Cell,         \* the texts of the cells of a table
          Blank,        \* the empty text
          Note,         \* a text that begins with "# "
          Shebang,      \* a text that begins with "#!"
          Tables,       \* the tables published
          ResultCells,  \* the cell budget
          None

\* A record has a cell.
TablesAreRecords == Tables \subseteq Seq(Seq(Cell) \ {<<>>}) /\ ResultCells \in Nat

Names == {"importcell", "importrow", "importcolumn", "importrange", "importsheet"}

VARIABLES name, arg,    \* the call: its function and what its arguments come to
          isEnabled,    \* is there a fetcher?
          table,        \* what the server publishes
          request,      \* the media type asked for, while the answer is awaited
          val           \* the value of the pass, None until it is known

vars == <<name, arg, isEnabled, table, request, val>>

Args == {"url", "error", "many"}

Error(code) == [kind |-> "error", code |-> code]
Scalar(cell) == [kind |-> "scalar", text |-> cell]
Array(rows) == [kind |-> "array", arr |-> rows]

-----------------------------------------------------------------------------
(* Media types. A vendor type has the name of its function; case and       *)
(* parameters are a flourish that matching strips.                         *)

Media == Names \cup {"tsv", "csv", "html"}
ContentTypes == [media : Media, isPlain : BOOLEAN]

ImportMedia(fn) == fn

Base(contentType) == contentType.media

\* Mutant: a media type is matched with its case and parameters.
AcceptableAsWritten(contentType, media) ==
  Base(contentType) = media \/ (contentType.isPlain /\ Base(contentType) \in {"tsv", "csv"})

Acceptable(contentType, media) == Base(contentType) \in {media, "tsv", "csv"}

-----------------------------------------------------------------------------
(* Bodies. A line stands for a record of the table, its first cell first.  *)

IsComment(i, line) == line[1] = Note \/ (i = 1 /\ line[1] = Shebang)

ReadTSV(lines) ==
  FoldLeftDomain(LAMBDA out, i : IF IsComment(i, lines[i]) THEN out ELSE Append(out, lines[i]),
                 <<>>, lines)

\* The CSV reader skips empty lines, which are what a record of one empty cell is.
ReadCSV(lines) ==
  FoldLeft(LAMBDA out, line : IF line = <<Blank>> THEN out ELSE Append(out, line), <<>>, lines)

ReadImport(lines, received) == IF received = "csv" THEN ReadCSV(lines) ELSE ReadTSV(lines)

AllWidth(cells, width) == \A i \in DOMAIN cells : Len(cells[i]) = width

Oversize(rows, cols) == rows * cols > ResultCells

\* Mutant: the rows as wide as the first are taken, the others left.
FittingRows(cells) ==
  LET fitting == SelectSeq(cells, LAMBDA row : Len(row) = Len(cells[1]))
  IN  IF Oversize(Len(fitting), Len(cells[1])) THEN Error("#IMPORT!") ELSE Array(fitting)

ImportScalar(cells) ==
  IF Len(cells) = 1 /\ Len(cells[1]) = 1 THEN Scalar(cells[1][1]) ELSE Error("#IMPORT!")

ImportRow(cells) ==
  IF Len(cells) # 1 \/ Oversize(1, Len(cells[1])) THEN Error("#IMPORT!") ELSE Array(cells)

ImportColumn(cells) ==
  IF ~AllWidth(cells, 1) \/ Oversize(Len(cells), 1) THEN Error("#IMPORT!") ELSE Array(cells)

ImportRange(cells) ==
  IF ~AllWidth(cells, Len(cells[1])) \/ Oversize(Len(cells), Len(cells[1]))
  THEN Error("#IMPORT!") ELSE Array(cells)

ShapeImport(cells, media) == CASE media = "importcell"   -> ImportScalar(cells)
                               [] media = "importrow"    -> ImportRow(cells)
                               [] media = "importcolumn" -> ImportColumn(cells)
                               [] OTHER                  -> ImportRange(cells)

ParseImport(lines, received, media) ==
  LET cells == ReadImport(lines, received)
  IN  IF cells = <<>> THEN Error("#IMPORT!") ELSE ShapeImport(cells, media)

-----------------------------------------------------------------------------

Init == /\ name \in Names /\ arg \in Args /\ isEnabled \in BOOLEAN
        /\ table \in Tables
        /\ request = None /\ val = None

cellAndServer == <<name, arg, isEnabled, table>>

\* The call fails before anything is asked of the server.
EvalImportFails ==
  /\ request = None /\ val = None
  /\ \/ arg = "many" /\ val' = Error("#VALUE!")
     \/ arg = "error" /\ val' = Error("#N/A")
     \/ arg = "url" /\ ~isEnabled /\ val' = Error("#IMPORT!")
  /\ UNCHANGED <<request, cellAndServer>>

FetchImport ==
  /\ request = None /\ val = None
  /\ arg = "url" /\ isEnabled
  /\ request' = ImportMedia(name)
  /\ UNCHANGED <<val, cellAndServer>>

\* The server fails, or sends a body that cannot be read.
FetchFails == /\ request # None
              /\ request' = None /\ val' = Error("#IMPORT!")
              /\ UNCHANGED cellAndServer

Fetched(contentType) ==
  /\ request # None
  /\ request' = None
  /\ val' = IF Acceptable(contentType, request)
            THEN ParseImport(table, Base(contentType), request) ELSE Error("#IMPORT!")
  /\ UNCHANGED cellAndServer

\* Another pass, later: nothing of this one is kept.
Recompute == val # None /\ val' = None /\ UNCHANGED <<request, cellAndServer>>

Next == \/ EvalImportFails \/ FetchImport \/ FetchFails
        \/ \E contentType \in ContentTypes : Fetched(contentType)
        \/ Recompute

Spec == Init /\ [][Next]_vars

-----------------------------------------------------------------------------

IsError(v) == v # None /\ v.kind = "error"

Rows(v) == IF v.kind = "array" THEN v.arr ELSE <<<<v.text>>>>

\* Records both readers keep as they are.
Plain(t) == \A i \in DOMAIN t : ~IsComment(i, t[i]) /\ t[i] # <<Blank>>

\* What spills is a rectangle within the budget, of the one row or the one column the
\* function's name promises.
FitsItsName(arr) ==
  /\ arr # <<>> /\ AllWidth(arr, Len(arr[1]))
  /\ Len(arr) * Len(arr[1]) <= ResultCells
  /\ name = "importrow" => Len(arr) = 1
  /\ name = "importcolumn" => Len(arr[1]) = 1
  /\ name # "importcell"

\* Whatever a server sends, an import is the whole of the table, in the shape its name
\* promises, or an error ("a shape or size mismatch is #IMPORT!", "never a salvage"),
\* and so the same at every pass that succeeds, whatever type its body came in, as
\* long as no record is one a reader skips: a comment in TSV, an empty line in CSV.
NeverASalvage ==
  (val # None /\ ~IsError(val)) =>
    /\ Plain(table) => Rows(val) = table
    /\ val.kind = "array" => FitsItsName(val.arr)

\* An answer in the vendor type and one in a standard tabular type are equally
\* good: a table that fits is never refused for the label of its body, however
\* the label is written (acceptable, base).
LabelIsNoMatter ==
  [][\A c \in ContentTypes :
       (Fetched(c) /\ c.media \in {name, "tsv", "csv"} /\ Plain(table)) =>
         (IsError(val') <=> (table = <<>> \/ IsError(ShapeImport(table, name))))]_vars
=============================================================================
