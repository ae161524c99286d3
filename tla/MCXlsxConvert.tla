---------------------------- MODULE MCXlsxConvert ----------------------------
(***************************************************************************)
(* Workbooks for XlsxConvert, of four families: one chart with every small *)
(* pair of caches; two sheets, one of them perhaps a chart sheet, with     *)
(* every small arrangement of anchored, grouped and dangling charts; one   *)
(* chart at a cell that is there or not; and one chart in parts of every   *)
(* size around the ceilings, declared truly or not.                        *)
(***************************************************************************)
EXTENDS XlsxConvert

Cache(count, pts) == [count |-> count, pts |-> pts]
Pt(i, value) == [idx |-> i, v |-> value]

\* Every list of at most two nodes, with the count or without it.
AnyCaches ==
  [count : {NoCount, 2},
   pts : BoundedSeq([idx : {Bad, 0, 1}, v : {Gap, 5, -1}], 2)]

Labels(n) == Cache(n, [k \in 1..n |-> Pt(k - 1, 100 + k)])
CatCaches == {NoCache, Labels(0), Labels(1), Labels(2)}
YearNaN == Cache(2, <<Pt(0, 2020), Pt(1, NaN)>>)

Series(cat, numeric, val) == [cat |-> cat, numeric |-> numeric, val |-> val]
Element(tag, stacked, series) == [tag |-> tag, stacked |-> stacked, series |-> series]

\* The same two categories in another order, and with one that is overwritten;
\* and two others.
Swapped == Cache(2, <<Pt(1, 102), Pt(0, 101)>>)
Overwritten == Cache(NoCount, <<Pt(0, 999), Pt(1, 102), Pt(0, 101)>>)
OtherLabels == Cache(2, <<Pt(0, 201), Pt(1, 202)>>)

Kinds == {<<"pie", FALSE>>, <<"column", FALSE>>, <<"column", TRUE>>, <<"radar", FALSE>>,
          <<"scatter", FALSE>>, <<"bubble", FALSE>>}

OneSeries ==
  {<<Element(kind[1], kind[2], <<Series(cat, FALSE, val)>>)>> :
     kind \in Kinds, cat \in CatCaches, val \in AnyCaches \cup {NoCache}}
  \cup {<<Element("scatter", FALSE, <<Series(YearNaN, TRUE, Labels(2))>>)>>, <<>>}

FewVals == {Cache(NoCount, <<Pt(1, 7), Pt(0, 6)>>), Cache(2, <<Pt(1, 8)>>), Cache(3, <<Pt(2, 9)>>)}
FewCats == CatCaches \cup {Swapped, Overwritten, OtherLabels}
FewSeries == {Series(cat, FALSE, val) : cat \in FewCats, val \in FewVals}

\* Also two scatter series with x values of their own, and a pie beside an
\* element that is not known.
TwoSeries ==
  {<<Element(tag, FALSE, <<s, t>>)>> : tag \in {"column", "pie", "scatter"}, s, t \in FewSeries}
  \cup {<<Element(pair[1], pair[2], <<s>>), Element(pair[3], FALSE, <<t>>)>> :
          pair \in {<<"bar", FALSE, "line">>, <<"area", TRUE, "line">>, <<"pie", FALSE, "bubble">>},
          s, t \in FewSeries}

Flat(parts) == [p \in parts |-> 1]
Anchor(cell, refs) == [cell |-> cell, refs |-> refs]
Sheet(part, empty, drawing) ==
  [part |-> part, grid |-> TRUE, empty |-> empty, drawing |-> drawing]
ChartSheet(part, drawing) ==
  [part |-> part, grid |-> FALSE, empty |-> TRUE, drawing |-> drawing]

\* A workbook of one sheet with one chart, of the given sizes.
SingleAt(cell, chart, declared, actual) ==
  [sheets   |-> <<Sheet("sheet1", TRUE, "drawing1")>>,
   drawings |-> [d \in {"drawing1"} |->
                   [one |-> <<>>, two |-> <<Anchor(cell, <<"chart1">>)>>]],
   charts   |-> [c \in {"chart1"} |-> chart],
   declared |-> declared, actual |-> actual]

Single(chart, declared, actual) == SingleAt(<<1, 1>>, chart, declared, actual)

SingleParts == {"sheet1", "drawing1", "chart1"}
GoodChart == <<Element("column", FALSE, <<Series(Labels(2), FALSE, Labels(2))>>)>>
BareChart == <<Element("column", FALSE, <<Series(Labels(2), FALSE, NoCache)>>)>>

ByChart == {Single(chart, Flat(SingleParts), Flat(SingleParts)) : chart \in OneSeries \cup TwoSeries}

BySize ==
  {Single(GoodChart, declared, actual) :
     declared \in [SingleParts -> {1, 3, 4}], actual \in [SingleParts -> {1, 3, 4}]}

\* One chart at cells that can be read or not, at the edges of the columns
\* and of the rows.
ByCell ==
  {SingleAt(cell, GoodChart, Flat(SingleParts), Flat(SingleParts)) :
     cell \in {Bad, -1, 0, 1} \X {Bad, 0, 1, MaxColumn, MaxColumn + 1}}

AnyAnchors == [cell : {<<1, 2>>, <<2, 1>>}, refs : {<<"chart1">>, <<"chart2", "chart1">>, <<"gone", "chart2">>}]
AllParts == {"sheet1", "sheet2", "drawing1", "drawing2", "chart1", "chart2"}

\* Two sheets of which the first has any arrangement of anchors.
Double(empty, one, two, second, parts) ==
  [sheets   |-> <<Sheet("sheet1", empty, "drawing1"), second>>,
   drawings |-> [drawing1 |-> [one |-> one, two |-> two],
                 drawing2 |-> [one |-> <<Anchor(<<3, 3>>, <<"chart1">>)>>, two |-> <<>>]],
   charts   |-> [chart1 |-> GoodChart, chart2 |-> BareChart],
   declared |-> Flat(parts), actual |-> Flat(parts)]

SecondSheets ==
  {Sheet("sheet2", TRUE, NoPart), Sheet("sheet2", TRUE, "drawing2"), Sheet("sheet2", FALSE, "gone"),
   ChartSheet("sheet2", "drawing2")}

ByAnchors ==
  {Double(empty, one, two, second, AllParts) :
     empty \in BOOLEAN, one \in BoundedSeq(AnyAnchors, 1), two \in BoundedSeq(AnyAnchors, 2),
     second \in SecondSheets}

MCPackages ==
  ByChart \cup BySize \cup ByCell \cup ByAnchors
    \cup {Double(TRUE, <<>>, <<>>, Sheet("sheet2", TRUE, NoPart), AllParts \cup {"media1"})}
=============================================================================
