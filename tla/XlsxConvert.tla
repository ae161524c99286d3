----------------------------- MODULE XlsxConvert -----------------------------
(***************************************************************************)
(* refigure/xlsx: convert(), with iter_chart_entries() of charts.py and    *)
(* the two archive ceilings of core/zipsafe.py.                            *)
(*                                                                         *)
(* A package has a size for each of its parts, declared and actual, the    *)
(* workbook's sheets in order, a drawing for some of them, and charts:     *)
(*   sheets   : sequence of [part, grid, empty, drawing]; a chart sheet    *)
(*              has no grid of cells; drawing is a part name               *)
(*   drawings : drawing part -> [one, two], the anchors of either kind,    *)
(*              each [cell |-> <<row, col>>, refs |-> sequence of parts],  *)
(*              Bad where xdr:from does not give an integer                *)
(*   charts   : chart part -> the chart, as ChartTable reads it            *)
(* A reference that leads nowhere is a name that is no part.  The .rels    *)
(* parts are read with the part they belong to.  Parsing openpyxl and the  *)
(* mermaid renderer are external: they succeed or fail.                    *)
(***************************************************************************)
EXTENDS ChartTable, SeqFilters

CONSTANTS
  Packages,     \* the workbooks that may be given
  MaxEntries,   \* MAX_ENTRIES
  MaxMember,    \* MAX_MEMBER_BYTES
  MaxTotal,     \* MAX_TOTAL_BYTES
  ChunkSize,    \* _SAFE_READ_CHUNK_BYTES
  MaxColumn,    \* the last column that openpyxl has letters for
  NoPart        \* no reference

Cells == (Int \cup {Bad}) \X (Int \cup {Bad})

\* A part that an anchor refers to is read as a chart, one without elements if
\* it is something else.
IsDrawing(drawing, parts, charts) ==
  /\ IsSequence(drawing.one) /\ IsSequence(drawing.two)
  /\ \A anchor \in Range(drawing.one) \cup Range(drawing.two) :
       /\ anchor.cell \in Cells
       /\ IsSequence(anchor.refs) /\ Range(anchor.refs) \cap parts \subseteq charts

IsPackage(p) ==
  LET parts == DOMAIN p.declared
  IN  /\ p.actual \in [parts -> Nat]
      /\ IsSequence(p.sheets)
      /\ \A sheet \in Range(p.sheets) :
           /\ sheet.part \in parts /\ sheet.grid \in BOOLEAN
           /\ sheet.drawing \in parts =>
                IsDrawing(p.drawings[sheet.drawing], parts, DOMAIN p.charts)
      /\ \A c \in DOMAIN p.charts : IsChart(p.charts[c])

ASSUME XlsxAssumption ==
  /\ MaxEntries \in Nat /\ MaxMember \in Nat /\ MaxTotal \in Nat
  /\ ChunkSize \in Nat \ {0} /\ MaxColumn \in Nat
  /\ \A p \in Packages : IsPackage(p)

VARIABLES
  file,       \* the package
  stage,      \* where convert() is
  reads,      \* the parts that iter_chart_entries() has yet to read, in order
  held,       \* bytes of the part being read that safe_read() has kept; it
              \* looks at one chunk more before it raises
  entries,    \* the charts found: [sheet, cell, part]
  sections,   \* the sections written: [blank, table, blocks]
  counts,     \* [found, rendered]
  outcome     \* "running", "result", an exception of the library, or
              \* "Uncaught": one that convert() does not translate into these

xlsxVars == <<file, stage, reads, held, entries, sections, counts, outcome>>

Sheets == DOMAIN file.sheets
Parts == DOMAIN file.declared

XlsxInit ==
  /\ file \in Packages
  /\ stage = "check"
  /\ reads = <<>> /\ held = 0
  /\ entries = <<>> /\ sections = <<>>
  /\ counts = [found |-> 0, rendered |-> 0]
  /\ outcome = "running"

Raise(error) ==
  /\ stage' = "done"
  /\ outcome' = error
  /\ UNCHANGED <<file, reads, held, entries, sections, counts>>

-----------------------------------------------------------------------------
(* The ceilings *)

Declared(parts) == SumFunctionOnSet(file.declared, parts)

\* check_archive(): the ceilings that declared sizes must keep.
TooLargeDeclared ==
  \/ Cardinality(Parts) > MaxEntries
  \/ \E p \in Parts : file.declared[p] > MaxMember
  \/ Declared(Parts) > MaxTotal

\* What is no regular file or no archive ends here too.
CheckArchive ==
  /\ stage = "check"
  /\ \/ Raise("CorruptArchive")
     \/ /\ ~TooLargeDeclared
        /\ stage' = "load"
        /\ UNCHANGED <<file, reads, held, entries, sections, counts, outcome>>

-----------------------------------------------------------------------------
(* Finding the charts *)

\* _chart_anchors(): the anchors of one kind before those of the other.
Anchors(drawing) == file.drawings[drawing].one \o file.drawings[drawing].two

\* Mutant: only the first chart of an anchor, which may be a group of charts.
ChartRefsFirst(drawing) ==
  [a \in DOMAIN Anchors(drawing) |->
     [cell |-> Anchors(drawing)[a].cell, part |-> Anchors(drawing)[a].refs[1]]]

\* The charts of a drawing, several to an anchor where they are grouped.
ChartRefs(drawing) ==
  FlattenSeq([a \in DOMAIN Anchors(drawing) |->
    [r \in DOMAIN Anchors(drawing)[a].refs |->
       [cell |-> Anchors(drawing)[a].cell, part |-> Anchors(drawing)[a].refs[r]]]])

Present(part) == part \in Parts

\* The charts of a sheet that can be reached; anything else is passed over.
Reached(sheet) ==
  IF Present(file.sheets[sheet].drawing)
  THEN LET refs == ChartRefs(file.sheets[sheet].drawing)
           there == Kept(refs, {c \in Range(refs) : Present(c.part)})
       IN  [k \in DOMAIN there |->
              [sheet |-> sheet, cell |-> there[k].cell, part |-> there[k].part]]
  ELSE <<>>

\* The parts that a sheet makes iter_chart_entries() read, in order; with a
\* chart part goes the entry it yields.
SheetReads(sheet) ==
  LET s == file.sheets[sheet]
      found == Reached(sheet)
  IN  <<[part |-> s.part, yields |-> <<>>]>>
      \o (IF Present(s.drawing) THEN <<[part |-> s.drawing, yields |-> <<>>]>> ELSE <<>>)
      \o [k \in DOMAIN found |-> [part |-> found[k].part, yields |-> <<found[k]>>]]

\* load_workbook() reads the workbook or raises, by which BadZipFile tells a
\* damaged member from what is not a workbook.
Load ==
  /\ stage = "load"
  /\ \/ Raise("CorruptArchive")
     \/ Raise("UnsupportedFormat")
     \/ /\ stage' = "scan"
        /\ reads' = FlattenSeq([s \in Sheets |-> SheetReads(s)])
        /\ UNCHANGED <<file, held, entries, sections, counts, outcome>>

Left == file.actual[Head(reads).part] - held
Chunk == Min({Left, ChunkSize})

\* Mutant: a chunk is kept before it is counted.
ReadChunkKept ==
  /\ stage = "scan" /\ reads # <<>> /\ Left > 0
  /\ IF held > MaxMember THEN Raise("CorruptArchive")
     ELSE /\ held' = held + Chunk
          /\ UNCHANGED <<file, stage, reads, entries, sections, counts, outcome>>

\* safe_read(): the next chunk is kept if the ceiling allows it.
ReadChunk ==
  /\ stage = "scan" /\ reads # <<>> /\ Left > 0
  /\ IF held + Chunk > MaxMember THEN Raise("CorruptArchive")
     ELSE /\ held' = held + Chunk
          /\ UNCHANGED <<file, stage, reads, entries, sections, counts, outcome>>

\* _anchor_cell(): a cell that has a row and a column with letters.
Readable(cell) == cell[1] \in Int /\ cell[2] \in 1..MaxColumn

\* The part is read whole and parsed, unless it is damaged or no XML (openpyxl
\* does not look at charts that are grouped); a chart's anchor must have a cell.
ReadPart ==
  /\ stage = "scan" /\ reads # <<>> /\ Left = 0
  /\ \/ \E error \in {"CorruptArchive", "Uncaught"} : Raise(error)
     \/ /\ \A chart \in Range(Head(reads).yields) : Readable(chart.cell)
        /\ entries' = entries \o Head(reads).yields
        /\ reads' = Tail(reads)
        /\ held' = 0
        /\ UNCHANGED <<file, stage, sections, counts, outcome>>

-----------------------------------------------------------------------------
(* Writing the sheets *)

\* coordinate_to_tuple(): rows first.
CellBefore(c, d) == c[1] < d[1] \/ (c[1] = d[1] /\ c[2] < d[2])

\* A stable sort by cell: entry i goes before entry k.
Before(list, i, k) ==
  \/ CellBefore(list[i].cell, list[k].cell)
  \/ list[i].cell = list[k].cell /\ i < k

Sorted(list) ==
  LET rank(i) == Cardinality({k \in DOMAIN list : Before(list, k, i)}) + 1
  IN  [n \in DOMAIN list |-> list[CHOOSE i \in DOMAIN list : rank(i) = n]]

\* charts_by_sheet, sorted.
ChartsOf(sheet) == Sorted(Kept(entries, {c \in Range(entries) : c.sheet = sheet}))

\* coordinate_to_tuple() takes a row's minus sign for a part of the column.
FinishScan ==
  /\ stage = "scan" /\ reads = <<>>
  /\ IF \E chart \in Range(entries) : chart.cell[1] < 0 THEN Raise("Uncaught")
     ELSE /\ stage' = "write"
          /\ UNCHANGED <<file, reads, held, entries, sections, counts, outcome>>

\* _render_xlsx_chart_block(): the chart's data, or a marker if it has none.
Block(chart, renders) ==
  LET data == ParseChart(file.charts[chart.part])
  IN  [cell |-> chart.cell, part |-> chart.part, marker |-> NothingToShow(data),
       shown |-> IF NothingToShow(data) THEN [rows |-> <<>>, diagram |-> {}]
                 ELSE RenderChart(data, renders)]

Next1 == Len(sections) + 1   \* the sheet whose turn it is

Blocks(sheet, renders) ==
  LET charts == ChartsOf(sheet)
  IN  [k \in DOMAIN charts |-> Block(charts[k], renders[k])]

AddSection(blank, table, blocks) ==
  /\ sections' = Append(sections, [blank |-> blank, table |-> table, blocks |-> blocks])
  /\ counts' = [found    |-> counts.found + Len(blocks),
                rendered |-> counts.rendered
                  + Cardinality({k \in DOMAIN blocks : ~blocks[k].marker})]

\* The section of a sheet: its table unless it has no cells, then its charts.
WriteSheet(renders) ==
  LET empty == file.sheets[Next1].empty
      blocks == Blocks(Next1, renders)
  IN  AddSection(empty /\ blocks = <<>>, ~empty, blocks)

ChartRaises(sheet) ==
  \E k \in DOMAIN ChartsOf(sheet) : ParseRaises(file.charts[ChartsOf(sheet)[k].part])

\* openpyxl's chart sheets have no iter_rows().
Write ==
  /\ stage = "write" /\ Next1 \in Sheets
  /\ IF ~file.sheets[Next1].grid \/ ChartRaises(Next1) THEN Raise("Uncaught")
     ELSE /\ \E renders \in [DOMAIN ChartsOf(Next1) -> BOOLEAN] : WriteSheet(renders)
          /\ UNCHANGED <<file, stage, reads, held, entries, outcome>>

Finish ==
  /\ stage = "write" /\ Next1 \notin Sheets
  /\ stage' = "done"
  /\ outcome' = "result"
  /\ UNCHANGED <<file, reads, held, entries, sections, counts>>

XlsxNext == CheckArchive \/ Load \/ ReadChunk \/ ReadPart \/ FinishScan \/ Write \/ Finish

XlsxSpec == XlsxInit /\ [][XlsxNext]_xlsxVars

-----------------------------------------------------------------------------
(* Properties *)

\* The types of the state, and the ceilings: no byte past the ceiling of a part
\* is ever kept; and what was converted had declared sizes within the ceilings,
\* while every part that was read for its charts is in truth within the ceiling
\* of a part, whatever it declared.
XlsxTypes ==
  /\ stage \in {"check", "load", "scan", "write", "done"}
  /\ outcome \in {"running", "result", "CorruptArchive", "UnsupportedFormat", "Uncaught"}
  /\ outcome = "running" <=> stage # "done"
  /\ held \in 0..MaxMember
  /\ outcome = "result" =>
       /\ Len(sections) = Len(file.sheets)
       /\ ~TooLargeDeclared
       /\ \A s \in Sheets : \A read \in Range(SheetReads(s)) :
            file.actual[read.part] <= MaxMember

\* The anchored charts of a sheet that the package holds, counted by where
\* they stand and what they are.
Anchored(sheet, cell, part) ==
  LET d == file.sheets[sheet].drawing
      anchors == IF Present(d) THEN Anchors(d) ELSE <<>>
      here == {a \in DOMAIN anchors : anchors[a].cell = cell}
  IN  IF Present(part)
      THEN Cardinality(UNION {{a} \X {r \in DOMAIN anchors[a].refs :
                                         anchors[a].refs[r] = part} : a \in here})
      ELSE 0

Shown(section, cell, part) ==
  Cardinality({b \in DOMAIN section.blocks :
                 section.blocks[b].cell = cell /\ section.blocks[b].part = part})

\* Every chart is shown as often as it is anchored, grouped charts included,
\* in its own sheet's section and in the order of the cells, and counted; a
\* sheet that has only charts is not skipped.
ChartsShownOnce ==
  outcome = "result" =>
    /\ \A s \in Sheets :
         LET blocks == sections[s].blocks
         IN  /\ \A b \in DOMAIN blocks :
                  Shown(sections[s], blocks[b].cell, blocks[b].part)
                    = Anchored(s, blocks[b].cell, blocks[b].part)
             /\ \A d \in {file.sheets[s].drawing} \cap Parts : \A a \in DOMAIN Anchors(d) :
                  \A part \in Range(Anchors(d)[a].refs) \cap Parts :
                    Shown(sections[s], Anchors(d)[a].cell, part) > 0
             /\ \A b, c \in DOMAIN blocks :
                  CellBefore(blocks[b].cell, blocks[c].cell) => b < c
             /\ sections[s].blank <=> (~sections[s].table /\ blocks = <<>>)
    /\ counts.found = SeqSum([s \in Sheets |-> Len(sections[s].blocks)])

\* All blocks with data.
DataBlocks ==
  {b \in UNION {Range(sections[s].blocks) : s \in DOMAIN sections} : ~b.marker}

SeriesOf(part) == AllSeries(file.charts[part])

\* Where cache node k says that its value belongs, unless it says nothing or a
\* later node takes its place.
InForce(cache, k) ==
  /\ cache.pts[k].idx # Bad
  /\ cache.pts[k].idx \in 0..(PtCount(cache) - 1)
  /\ \A n \in DOMAIN cache.pts : n > k => cache.pts[n].idx # cache.pts[k].idx

\* The values in force at place i, counting from one: one at most.
AtPlace(cache, i) ==
  IF cache = NoCache THEN {}
  ELSE {cache.pts[k].v : k \in {n \in DOMAIN cache.pts :
                                  InForce(cache, n) /\ cache.pts[n].idx = i - 1}}

Labelled(all) == {s \in DOMAIN all : Points(all[s].cat) # <<>>}

\* The series that have categories all have the same ones: chart_data.py:356
\* says "usually shared across all of them".
SharedCategories(all) ==
  \A r, s \in Labelled(all) : Points(all[r].cat) = Points(all[s].cat)

\* A row has in each series' column the value that the series' own cache has in
\* force at that place, and none if it has none: no value is moved, invented or
\* lost by a gap, a malformed index or another series.  Where the categories
\* are shared, the row's label is in the same way the one that each labelled
\* series has at that place.  (A scatter chart whose series have x values of
\* their own is outside this: its rows are labelled with those of the first.)
ValuesInPlace ==
  \A b \in DataBlocks : \A i \in DOMAIN b.shown.rows :
    LET all == SeriesOf(b.part)
        row == b.shown.rows[i]
    IN  /\ \A s \in DOMAIN all : {row.cells[s]} \ {Gap} = AtPlace(all[s].val, i) \ {Gap}
        /\ SharedCategories(all) =>
             \A s \in Labelled(all) : {row.label} \ {Gap} = AtPlace(all[s].cat, i) \ {Gap}

\* What the table of a block says: a value for each row and each series.
Tabled(b) ==
  {<<i, s, b.shown.rows[i].cells[s]>> :
     i \in DOMAIN b.shown.rows, s \in DOMAIN SeriesOf(b.part)}

\* What a block's diagram says, and of what charts there is one.
DiagramTrue(b) ==
  LET chart == file.charts[b.part]
      known == {e \in DOMAIN chart : chart[e].tag \in KnownTags}
  IN  /\ b.shown.diagram = Tabled(b)
      /\ \A i \in DOMAIN b.shown.rows : Gap \notin Range(b.shown.rows[i].cells)
      /\ \A e \in known : chart[e].tag \in Stackable => ~chart[e].stacked
      /\ \A e \in known : (known = {e} /\ chart[e].tag \in PieLike) =>
           /\ Len(SeriesOf(b.part)) = 1
           /\ \A i \in DOMAIN b.shown.rows :
                b.shown.rows[i].cells[1] # NaN => b.shown.rows[i].cells[1] >= 0

\* A diagram says what the table says, no more and no less.  There is none
\* where a cell of the table is empty, where any bars, lines or areas of the
\* chart are stacked, nor, of a lone pie or doughnut, where there are several
\* series or a value that is no share because it is negative.
DiagramSaysTheTable == \A b \in DataBlocks : b.shown.diagram # {} => DiagramTrue(b)

\* chart_render.py:1-2: the table is "produced ALWAYS (lossless)".  Every
\* value the chart caches for a row of its own range is in the table.
TableLossless ==
  \A b \in DataBlocks : \A s \in DOMAIN SeriesOf(b.part) :
    LET cache == SeriesOf(b.part)[s].val
    IN  cache # NoCache => \A k \in DOMAIN cache.pts :
          (InForce(cache, k) /\ cache.pts[k].v # Gap)
            => \E i \in DOMAIN b.shown.rows :
                 i = cache.pts[k].idx + 1 /\ b.shown.rows[i].cells[s] = cache.pts[k].v
=============================================================================
