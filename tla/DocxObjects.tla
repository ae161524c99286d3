----------------------------- MODULE DocxObjects ----------------------------
(***************************************************************************)
(* refigure/docx/__init__.py and refigure/docx_groups.py: what becomes of  *)
(* the pictures, charts and composite groups of a DOCX document.           *)
(*                                                                         *)
(* convert() cuts the objects that mammoth cannot read (groups of shapes,  *)
(* native charts) out of the body and leaves a sentinel for each; mammoth  *)
(* turns the rest into text, pictures into markers; the sentinels become   *)
(* the table of a chart or a marker; pictures that are nowhere in the text *)
(* are listed at its end.  A marker of a group or chart names it by a hash *)
(* of its XML, by which vlm later finds it again in the original document. *)
(*                                                                         *)
(* A body is the sequence of its elements in document order, each with its *)
(* kind, the index of the container it is in (0: a block of the body) and  *)
(* what it shows.  A box (a text box) and a group are mc:AlternateContent  *)
(* elements, whose VML fallback repeats their content.  A hash is          *)
(* represented by what is hashed: hashes do not collide.                   *)
(***************************************************************************)
EXTENDS FiniteSets, SequencesExt, SeqFilters

CONSTANTS
  Large, Small,   \* pictures, of at least DOCX_IMAGE_MIN_BYTES or not
  Data, NoData,   \* the data of a chart; a chart without any
  Nothing,        \* what a container shows by itself
  MaxElements     \* bound on the size of a body

ASSUME DocxAssumption == MaxElements \in Nat /\ Large \cap Small = {}

Kinds == {<<"image", p>> : p \in Large \cup Small}
         \cup {<<"chart", d>> : d \in Data \cup {NoData}}
         \cup {<<"box", Nothing>>, <<"group", Nothing>>}

\* The indices of the containers that an element is in, 0 (the body) included.
Ancestors(t) ==
  LET above[i \in 0..Len(t)] == IF i = 0 THEN {} ELSE {t[i].up} \cup above[t[i].up]
  IN  above

\* Sequences of elements that are the document order of some body.
IsBody(t) ==
  \A i \in DOMAIN t :
    /\ t[i].up < i
    /\ t[i].up \in {i - 1} \cup (IF i = 1 THEN {} ELSE Ancestors(t)[i - 1])
    /\ t[i].up # 0 => t[t[i].up].kind \in {"box", "group"}

Bodies ==
  LET Element(n) == {[kind |-> k[1], what |-> k[2], up |-> u] : k \in Kinds, u \in 0..(n - 1)}
  IN  {t \in UNION {[1..n -> Element(n)] : n \in 0..MaxElements} : IsBody(t)}

VARIABLES
  body,      \* word/document.xml as it was given
  other,     \* the pictures that headers, notes and the like refer to
  phase,     \* strip, inject, list, done, failed
  tree,      \* the body with the objects cut out so far
  todo,      \* the objects still to be cut out
  groups,    \* list[DocxGroup]: [id, media, kind, data]
  text,      \* the marks in the text, in order: [kind, what, at]
  placed,    \* placed_ids
  fallback   \* the pictures under "Figures (position unknown)"

docxVars == <<body, other, phase, tree, todo, groups, text, placed, fallback>>

-----------------------------------------------------------------------------
(* docx_groups.py: detection *)

\* The elements of the subtree of i: what is under a sentinel was cut out.
Within(t, i) ==
  LET above == Ancestors(t)
  IN  {j \in DOMAIN t :
         j = i \/ (i \in above[j] /\ \A k \in above[j] : k > i => t[k].kind # "sentinel")}

\* etree.tostring(): the element with all it holds, wherever it stands.
Content(t, i) ==
  {[off |-> j - i, kind |-> t[j].kind, what |-> t[j].what,
    up |-> IF j = i THEN 0 ELSE t[j].up - i] : j \in Within(t, i)}

\* mc:Choice carries a wpg:wgp, however deep.
IsGroup(t, i) ==
  t[i].kind \in {"box", "group"} /\ \E j \in Within(t, i) : t[j].kind = "group"

\* A w:drawing with a c:chart outside mc:AlternateContent.
IsBareChart(t, i) == t[i].kind = "chart" /\ Ancestors(t)[i] = {0}

\* The elements of the set S, in document order.
InOrder(t, S) == Kept([i \in DOMAIN t |-> i], S)

GroupsOf(t) == InOrder(t, {i \in DOMAIN t : IsGroup(t, i)})
BareCharts(t) == InOrder(t, {i \in DOMAIN t : IsBareChart(t, i)})

\* Mutant: inner groups are cut out before those around them.
ObjectsInnerFirst(t) == Reverse(GroupsOf(t)) \o BareCharts(t)

\* _iter_objects(): the groups in document order, then the charts.
Objects(t) == GroupsOf(t) \o BareCharts(t)

\* _group_media_ids(), of any size.
Media(t, i) == {t[j].what : j \in {k \in Within(t, i) : t[k].kind = "image"}}

\* extract_group_docx(): the element that the original holds by that id.
Extracted(id) == Kept(Objects(body), {i \in DOMAIN body : Content(body, i) = id})

-----------------------------------------------------------------------------
(* convert() *)

DocxInit ==
  /\ body \in Bodies /\ other \in SUBSET Large
  /\ phase = "strip"
  /\ tree = body /\ todo = Objects(body)
  /\ groups = <<>> /\ text = <<>>
  /\ placed = {} /\ fallback = {}

\* A member of the archive is corrupt or too large, or mammoth refuses the
\* document: CorruptArchiveError, UnsupportedFormatError.
Reject ==
  /\ phase \notin {"done", "failed"}
  /\ phase' = "failed"
  /\ UNCHANGED <<body, other, tree, todo, groups, text, placed, fallback>>

Description(i) ==
  [id |-> Content(tree, i), media |-> Media(tree, i), data |-> tree[i].what,
   kind |-> IF tree[i].kind = "chart" THEN "chart" ELSE "group"]

Cut(i) ==
  tree' = [tree EXCEPT ![i] = [kind |-> "sentinel", what |-> Content(tree, i), up |-> tree[i].up]]

\* Mutant: an object that another one holds is not described.
StripOutermost ==
  /\ phase = "strip" /\ todo # <<>>
  /\ groups' = IF Ancestors(tree)[Head(todo)] = {0}
               THEN Append(groups, Description(Head(todo))) ELSE groups
  /\ Cut(Head(todo))
  /\ todo' = Tail(todo)
  /\ UNCHANGED <<body, other, phase, text, placed, fallback>>

\* One turn of the loop of extract_and_strip_groups().
Strip ==
  /\ phase = "strip" /\ todo # <<>>
  /\ groups' = Append(groups, Description(Head(todo)))
  /\ Cut(Head(todo))
  /\ todo' = Tail(todo)
  /\ UNCHANGED <<body, other, phase, text, placed, fallback>>

\* mammoth reads the rewritten body: text, sentinels among it, and pictures,
\* for which convert_image() leaves a marker unless they are small.  It does
\* not see charts.
Read ==
  LET shown == {i \in DOMAIN tree :
                  /\ \A k \in Ancestors(tree)[i] \ {0} : tree[k].kind # "sentinel"
                  /\ \/ tree[i].kind = "sentinel"
                     \/ tree[i].kind = "image" /\ tree[i].what \in Large}
  IN  /\ phase = "strip" /\ todo = <<>>
      /\ text' = [n \in DOMAIN InOrder(tree, shown) |->
                    LET i == InOrder(tree, shown)[n]
                    IN  [kind |-> tree[i].kind, what |-> tree[i].what, at |-> i]]
      /\ placed' = {tree[i].what : i \in {k \in shown : tree[k].kind = "image"}}
      /\ phase' = "inject"
      /\ UNCHANGED <<body, other, tree, todo, groups, fallback>>

\* inject_group_markers(): by_id keeps the last group of each id.
Inject ==
  LET ById(id) == CHOOSE n \in DOMAIN groups :
                    groups[n].id = id /\ \A k \in DOMAIN groups : groups[k].id = id => k <= n
      Resolve(mark) ==
        IF mark.kind # "sentinel" THEN mark
        ELSE LET g == groups[ById(mark.what)]
             IN  [kind |-> IF g.kind = "chart" /\ g.data # NoData THEN "table" ELSE "figure",
                  what |-> mark.what, at |-> mark.at]
  IN  /\ phase = "inject"
      /\ text' = [n \in DOMAIN text |-> Resolve(text[n])]
      /\ phase' = "list"
      /\ UNCHANGED <<body, other, tree, todo, groups, placed, fallback>>

\* all_media_ids()
Absorbed == UNION {groups[n].media : n \in DOMAIN groups}

\* _docx_referenced_media_ids(), of the original document.
Referenced == other \cup {body[i].what : i \in {k \in DOMAIN body : body[k].kind = "image"}}

\* Mutant: what groups absorbed comes up again.
ListAbsorbed ==
  /\ phase = "list"
  /\ fallback' = (Referenced \cap Large) \ placed
  /\ phase' = "done"
  /\ UNCHANGED <<body, other, tree, todo, groups, text, placed>>

\* _docx_image_markers()
List ==
  /\ phase = "list"
  /\ fallback' = (Referenced \cap Large) \ (placed \cup Absorbed)
  /\ phase' = "done"
  /\ UNCHANGED <<body, other, tree, todo, groups, text, placed>>

DocxNext == Strip \/ Read \/ Inject \/ List \/ Reject

DocxSpec == DocxInit /\ [][DocxNext]_docxVars

-----------------------------------------------------------------------------
(* Properties *)

\* The types of the state; every object is either to be cut out or is cut out
\* and described.
DocxTypes ==
  /\ phase \in {"strip", "inject", "list", "done", "failed"}
  /\ Len(tree) = Len(body)
  /\ Len(groups) + Len(todo) = Len(Objects(body))
  /\ \A g \in ToSet(groups) : g.kind \in {"group", "chart"} /\ g.media \subseteq Large \cup Small
  /\ \A m \in ToSet(text) : m.kind \in {"image", "sentinel", "figure", "table"}
  /\ placed \cup fallback \subseteq Large

\* No picture of the document is lost, and none comes up twice for no reason:
\* a large one that the document refers to has a marker where it stands, or is
\* part of a figure that has one, or else is listed at the end.
PicturesShownOnce ==
  phase = "done" =>
    LET inline == {m.what : m \in {n \in ToSet(text) : n.kind = "image"}}
        inFigures == UNION {Media(body, m.at) : m \in {n \in ToSet(text) : n.kind = "figure"}}
    IN  /\ Referenced \cap Large \subseteq inline \cup inFigures \cup fallback
        /\ fallback \cap (inline \cup inFigures) = {}

\* Every object that is not part of another has its marker or table in its
\* place, and by the id of a marker the object is found again in the original
\* document, although ids are taken while the document is being cut.
FiguresFound ==
  phase \in {"list", "done"} =>
    LET above == Ancestors(body)
        figures == {m \in ToSet(text) : m.kind # "image"}
        outermost == {i \in ToSet(Objects(body)) : ToSet(Objects(body)) \cap above[i] = {}}
    IN  /\ {m.at : m \in figures} = outermost
        /\ \A m \in figures : Extracted(m.what) # <<>>
                              /\ Content(body, Extracted(m.what)[1]) = Content(body, m.at)
=============================================================================
