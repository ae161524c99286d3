------------------------------ MODULE ChartTable -----------------------------
(***************************************************************************)
(* refigure/core/chart_data.py and chart_render.py: what is read from a    *)
(* native chart part and what is shown of it.                              *)
(*                                                                         *)
(* A chart is the sequence of the chart elements of its plot area, each    *)
(* with its tag, whether its grouping is stacked, and its series.  A       *)
(* series has a cache of category labels and a cache of values; a cache is *)
(* the list of its c:pt nodes, in document order, and its c:ptCount.       *)
(* Absent, a cache is NoCache, as it is when the reference has no cache.   *)
(* Titles, names, number formats and the text of labels are left out.      *)
(***************************************************************************)
EXTENDS Integers, SequencesExt

CONSTANTS
  NoCache,   \* no cache node
  NoCount,   \* c:ptCount absent, or not an integer
  Bad,       \* absent where an integer is due, or not an integer
  Gap,       \* None: nothing cached, or a text like #N/A
  NaN        \* a float that has no integer part: nan, inf (as a value, minus
             \* infinity is one of the negative numbers)

\* The chart elements that are known (_ALL_CHART_TAGS), bars lying or standing.
KnownTags == {"bar", "column", "line", "area", "pie", "doughnut", "radar", "scatter"}
PieLike == {"pie", "doughnut"}
XyLike == {"column", "bar", "line", "area", "combo"}
Stackable == {"bar", "column", "line", "area"}

ASSUME BadIsNoIndex == Bad \notin Int

IsSequence(s) == s \in Seq(Range(s))

\* What an untrusted file may hold: any integers, or none.
IsCache(cache) ==
  \/ cache = NoCache
  \/ /\ cache.count \in Int \cup {NoCount}
     /\ IsSequence(cache.pts) /\ \A pt \in Range(cache.pts) : pt.idx \in Int \cup {Bad}

IsChart(chart) ==
  /\ IsSequence(chart)
  /\ \A e \in DOMAIN chart :
       /\ IsSequence(chart[e].series)
       /\ \A s \in Range(chart[e].series) : IsCache(s.cat) /\ IsCache(s.val)

-----------------------------------------------------------------------------
(* Reading the caches *)

Indices(cache) == {cache.pts[k].idx : k \in DOMAIN cache.pts} \ {Bad}

PtCount(cache) ==
  CASE cache.count # NoCount -> cache.count
    [] Indices(cache) = {}   -> 0
    [] OTHER                 -> Max(Indices(cache)) + 1

\* Mutant: a malformed index counts as zero.
WritersBadAsZero(cache, i) ==
  {k \in DOMAIN cache.pts :
     cache.pts[k].idx = i \/ (i = 0 /\ cache.pts[k].idx = Bad)}

\* The nodes whose index is i, counting from zero.
Writers(cache, i) == {k \in DOMAIN cache.pts : cache.pts[k].idx = i}

\* Each node is stored at its own index, the last one of an index winning;
\* indices out of range or malformed are passed over.
Materialize(cache) ==
  [i \in 1..PtCount(cache) |->
     LET writers == Writers(cache, i - 1)
     IN  IF writers = {} THEN Gap ELSE cache.pts[Max(writers)].v]

Points(cache) == IF cache = NoCache THEN <<>> ELSE Materialize(cache)

-----------------------------------------------------------------------------
(* parse_chart() *)

AllSeries(chart) == FlattenSeq([e \in DOMAIN chart |-> chart[e].series])

\* _format_plain_num(): a number without an integer part cannot be a label.
LabelRaises(series) == series.numeric /\ NaN \in Range(Points(series.cat))

\* The series whose categories are looked at: all up to the first that has any.
LookedAt(all) ==
  {s \in DOMAIN all : \A r \in 1..(s - 1) : Points(all[r].cat) = <<>>}

ParseRaises(chart) ==
  LET all == AllSeries(chart)
  IN  \E s \in LookedAt(all) : LabelRaises(all[s])

\* The categories of the first series that has any.
Categories(all) ==
  LET found == {s \in DOMAIN all : Points(all[s].cat) # <<>>}
  IN  IF found = {} THEN <<>> ELSE Points(all[Min(found)].cat)

ChartType(chart) ==
  LET present == {e \in DOMAIN chart : chart[e].tag \in KnownTags}
  IN  CASE present = {}                       -> "other"
        [] \E e \in present : present # {e} -> "combo"
        [] OTHER                              -> chart[CHOOSE e \in present : TRUE].tag

IsStacked(chart) ==
  \E e \in DOMAIN chart : chart[e].stacked /\ chart[e].tag \in Stackable

ParseChart(chart) ==
  LET all == AllSeries(chart)
  IN  [type    |-> ChartType(chart),
       stacked |-> IsStacked(chart),
       cats    |-> Categories(all),
       series  |-> [s \in DOMAIN all |-> Points(all[s].val)]]

-----------------------------------------------------------------------------
(* render_chart() *)

\* The labels of the rows: the categories, or else the row numbers.
RowLabels(data) ==
  IF data.cats # <<>> THEN data.cats
  ELSE [i \in 1..Max({0} \cup {Len(data.series[s]) : s \in DOMAIN data.series}) |-> i]

Cell(values, i) == IF i <= Len(values) THEN values[i] ELSE Gap

Table(data) ==
  LET labels == RowLabels(data)
  IN  [i \in DOMAIN labels |->
         [label |-> labels[i],
          cells |-> [s \in DOMAIN data.series |-> Cell(data.series[s], i)]]]

SeriesShapeOk(data) ==
  /\ data.cats # <<>>
  /\ \A s \in DOMAIN data.series :
       Len(data.series[s]) = Len(data.cats) /\ Gap \notin Range(data.series[s])

\* Mutant: series that are stacked are drawn on top of each other.
DrawableStacked(data) ==
  /\ SeriesShapeOk(data)
  /\ \/ /\ data.type \in PieLike
        /\ Len(data.series) = 1
        /\ \A v \in Range(data.series[1]) : v # NaN => v >= 0
     \/ data.type \in XyLike
     \/ data.type = "radar"

\* Whether there is a diagram to try: _mermaid_pie(), _mermaid_xychart() or
\* _mermaid_radar() returns one.
Drawable(data) ==
  /\ SeriesShapeOk(data)
  /\ \/ /\ data.type \in PieLike
        /\ Len(data.series) = 1
        /\ \A v \in Range(data.series[1]) : v # NaN => v >= 0
     \/ data.type \in XyLike /\ ~data.stacked
     \/ data.type = "radar"

\* What the diagram says: a value for each label's position and each series.
Diagram(data) ==
  {<<i, s, data.series[s][i]>> : i \in DOMAIN data.cats, s \in DOMAIN data.series}

\* Nothing was cached: the caller shows a marker with the captions instead.
NothingToShow(data) ==
  \A s \in DOMAIN data.series : Range(data.series[s]) \subseteq {Gap}

\* What is shown: the table always, the diagram if the renderer accepts it.
RenderChart(data, renders) ==
  [rows    |-> Table(data),
   diagram |-> IF Drawable(data) /\ renders THEN Diagram(data) ELSE {}]
=============================================================================
