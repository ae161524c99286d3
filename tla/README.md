# A verification development of refigure

refigure converts DOCX and XLSX files to Markdown: as a Python library, as the
command `refigure`, and as an MCP server (`refigure-mcp`) whose clients convert
documents over stdio or HTTP. Pictures, charts and shape groups of a DOCX file
become markers, which an optional pass resolves by paid calls to a
vision-language model (VLM).

This directory holds TLA+ modules translated from the source, TLC
configurations that check them on small instances, and proofs for every
instance, checked by TLAPS. `PROJECT.json` lists which definition stands for
which lines, what every run checks, a mutation of the model that breaks each
property, the hazards of the code with the properties aimed at them, and the
theorems.

    tlc -workers 2 -config StateSoftCap.cfg MCServerState   # one run
    tlapm ServerStateProofs.tla                             # one proof module

## 1. Inventory

| Part | Source (`src/refigure/`) | State it keeps | Operations | What is hard |
|---|---|---|---|---|
| LRU store | `mcp/_lru.py` | ordered entries, byte total | insert, get, remove, `on_evict` | two limits at once, one entry too large by itself, callbacks after the unlock |
| Result store | `mcp/state.py` | LRU, per-caller index and byte counters | insert, get | an index that follows a store which evicts behind its back; quotas; expiry against recency |
| Rate limit | `mcp/state.py` | counter and window per caller | check-and-consume n | window boundaries, batches, refusals |
| Start-up, auth, admission | `mcp/cli.py`, `mcp/auth.py`, `mcp/server.py` | token map, soft cap switch | parse, load, build, admit | lines that conflict, limits that do not go together, whose rate a request spends |
| Conversion bridge | `mcp/server.py`, `xlsx/__init__.py` | capacity limiter, tasks, threads, a process-wide load lock | single call, batch, timeout, cancellation | abandoned threads, late results, isolation of items, tokens |
| VLM enhancement | `vlm/__init__.py` | pre-flight table, shared cache | probe, describe, judge, store | time between count and payment; concurrent conversions of one document |
| VLM calls | `vlm/client.py`, `vlm/__init__.py` | attempts and sleeps of a call | send, retry, judge, union of verdicts | which errors to retry, how often; a judge that fails |
| Cache backends | `vlm/cache.py`, `mcp/vlm_cache.py` | memory, file, mutex, flock | load, get, set | crashes and failures between the steps of a write, two servers |
| Command line | `cli.py` | one run: plan, loop, exit code | stdin, single file, batch | duplicates, links, colliding outputs, failures in the middle |
| DOCX objects | `docx/__init__.py`, `docx_groups.py` | the body being rewritten, ids of objects and pictures | cut out, read, inject, list, find again | nesting; hashes taken while the tree changes; two readings of the archive |
| XLSX conversion | `xlsx/`, `core/zipsafe.py` | the charts found, the sections written | check, load, read parts, write sheets | grouped charts, order, sizes that are not as declared |
| Chart data | `core/chart_data.py`, `core/chart_render.py` | none | parse, table, diagram | gaps and bad indices in cached data; diagram against table |
| Response gates | `vlm/__init__.py` | none | sanitize, witness, recall | text |

Interactions. A tool call is admitted by its shape and by the rate limit, then
crosses the bridge into a worker thread, where the converter runs: for XLSX
under the load lock, for DOCX through the object pipeline and, if asked, the VLM
enhancement, which reads and writes the cache that all threads share. Back on
the event loop, a large result goes to the result store, from which a resource
read takes it later. Apart from the caches and the two library locks, worker
threads share nothing; the result store and the rate counters are touched by
coroutines only.

## 2. Modules

| Module | Models | Kind |
|---|---|---|
| `SeqFilters` | filters of sequences without repetition, as functions | helper |
| `BoundedLru` | `BoundedLru` as operators on a record: order, entries, total | algorithm |
| `ResultStore` | what the result store promises its callers | abstract specification |
| `ServerState` | `ServerState.insert()` and `get()` over `BoundedLru` | component |
| `RateLimit` | `check_and_consume_rate_limit()` | component |
| `Gateway` | `main()` of `refigure-mcp` up to a serving process, then the admission of requests | composition with `RateLimit` |
| `ConversionPool` | event loop, limiter, worker threads, load lock | composition of the bridge, batches and `xlsx.convert()` |
| `VlmEnhance` | `enhance_docx_markdown()` by several conversions over one cache | composition |
| `VlmCall` | the calls for one figure: retry ladder, description, judges | component; one step of `VlmEnhance` |
| `FileCache` | `FileCacheBackend` and the flock, in several processes | component |
| `CliBatch` | one run of the command | component |
| `DocxObjects` | what becomes of pictures, charts and groups | algorithm, step by step |
| `ChartTable` | `parse_chart()` and `render_chart()` as operators | algorithm |
| `XlsxConvert` | `xlsx.convert()`, `iter_chart_entries()`, the archive ceilings | component over `ChartTable` |
| `MC*` | symmetry sets; small token files, answers, file trees and workbooks | model checking |
| `SeqFiltersProofs`, `ServerStateProofs` (with `BoundedLru`), `GatewayProofs` (with `RateLimit`), `ConversionPoolProofs`, `FileCacheProofs`, `VlmEnhanceProofs`, `VlmCallProofs`, `ConversionProofs` (`CliBatch`, `XlsxConvert`, `ChartTable` and `DocxObjects`) | lemmas and theorems | proofs |

A definition whose comment begins with "Mutant" is a plausible bug, put beside
the definition it would replace; no specification uses it.

### How state and actions correspond to the code

*ServerState.* `lru` is `_lru`, `byCaller` is `_by_caller`, `callerBytes` is
`_caller_bytes`. `Insert` is the whole of `insert()`: the trim of the caller's
own results (`OwnExcess`, `LruWithoutOwn`, `TrimmedIds`), the entry in the index,
the insertion in the store, its evictions, and the callback for each of them
(`IndexAfterEviction`, `BytesAfterEviction`). `Get` moves the entry to the young
end even when the answer is "not found", as `BoundedLru.get()` does before
`ServerState.get()` looks at caller and age. Both methods are called by
coroutines of one event loop, so each is one action, and the interval between
the LRU's unlock and its callbacks cannot be observed. Ids are numbered in the
order they are drawn; `issued` is a history variable.

*RateLimit and Gateway.* `Admit` and `Refuse` are the two returns of one method;
both write the counter. `admitted` is a history of what was granted up to each
instant. `Gateway` puts the way in before it: `CheckArgs` and `ResolveClient` are
what `main()` decides, `ReadLine` one turn of `load_token_file()`'s loop, `Build`
the conditions of `build_server()`, and `Exit` every way to an exit code.
`Request` is the head of the two tools: the shape checks, then `Admission`.
Over stdio there is one identity and no meter.

*ConversionPool.* A job is a single call or an item of a batch. `task` is what
its coroutine does, `thread` what its worker thread does: they part when a
timeout or a cancellation abandons the thread. `Enter` is
`to_thread.run_sync(limiter=...)`; `SettleJobs` returns the tokens of jobs that
end and hands them to the head of the queue (anyio's limiter is external and
modelled by its documented order). How many `tokens` there are is chosen in
`Init`. `Deliver` runs on the event loop and is where a large result is stored.
`Abort` is a progress report that raises, or a cancelled request. `Arrive`,
`Lock`, `Unlock`, `Finish` are the steps of a thread around
`_OPENPYXL_LOAD_LOCK`; a DOCX conversion goes straight to `Finish`.

*VlmEnhance.* Each access to the cache and each paid call is an action: `Probe`
and `Decide` are pre-flight, `Look` is `_get_entry()`, `Describe`, `Judge` and
`Store` the three costly steps, `NoPicture` and `Fail` the ways out. The code's
two loops (images, then groups) have the same shape and are one. The cache
copies entries in and out, as `BoundedLruVlmCache` does. `CacheGet` is
`_cache_get_safely()`: it answers what the cache holds, or nothing when `get()`
raises or gives something malformed, although the entry is still there. Such a
read, an `Evict` and a failing `Store` are what `losses` counts, at most
`MaxLosses` of them, so that "the cache loses nothing" means that every read and
write of it succeeds.

*VlmCall.* `Attempt` is one turn of `chat_request()`'s ladder: it returns, raises
or goes to sleep, from which `Wake` takes it back. `SdkSend` is a client without
a ladder. `SentSafely` is `_send_safely()`; `Defects` and `Union` are
`judge_defects()` and the panel. An answer is a kind and a code, or a text of
lines of which some answer a judge's questions.

*FileCache.* The steps of `set()` are `Enter` (mutex, memory), `Dump` (the
temporary file) and `Replace`; `Fail` is an exception in any of them, `Crash`
the death of the process between any two. `Acquire` and `Load` are start-up. An
entry is the number of the `set()` that made it, so "newer" has a meaning.

*CliBatch.* `Entries`, `Walk`, `Plan` and `Collide` are the pure functions of the
batch; the set of inputs already seen is `Unseen`, its complement by position;
`StartBatch` the checks before anything is written; `Convert`, `Fail` and
`WriteFails` the three ways through a turn of the loop. argparse's own errors
end in exit code 2 as the validation errors do.

*DocxObjects.* A body is a sequence of elements in document order with their
containers. `Strip` is one turn of `extract_and_strip_groups()`, so that ids are
hashes of a tree that earlier turns have changed. `Read` stands for mammoth
(external) with refigure's `convert_image()`; `Inject` and `List` are the rest of
`convert()`; `Extracted` is the detection that the VLM pass repeats later on the
original document. A hash is represented by what is hashed.

*ChartTable and XlsxConvert.* A cache is its `c:pt` nodes in document order and
its count; `Materialize` stores each at its own index, the last one winning.
`ChartType` is the tag of a lone known element, or "combo" of several.
`Table`, `SeriesShapeOk` and `Drawable` are the rules of `chart_render.py`.
`CheckArchive` and `ReadChunk` are the two ceilings of `zipsafe.py`, on declared
and on actual bytes. `held` is what `safe_read()` has kept of a part: it takes one
chunk more in hand before it raises, and never keeps that one. A part larger
than it declared, but within the ceiling, is read as it is. `SheetReads` lists
what `iter_chart_entries()` reads, one `ReadPart` for each. An anchor's cell is a
pair of which each half may be missing or no integer (`Cells`); `Readable` is
when `_anchor_cell()` gives a reference, for columns up to openpyxl's last
(`MaxColumn`). `Write` is a turn of `convert()`'s loop over the sheets; a chart
sheet has no grid of cells. Whatever leaves `convert()` and is none of the
library's exceptions is the outcome "Uncaught": an anchor without a readable
cell, a row before the first, XML of a grouped chart that does not parse, a chart
sheet, a numeric category that is no number. openpyxl and the mermaid renderer
are external: they succeed or fail.

## 3. Runs

| Run | Bounds, and why they are enough | Shows |
|---|---|---|
| `state_soft_cap` | 3 callers, 5 inserts, 8 entries, 16 bytes: quotas of 2 and 4; sizes 1, 4 (exactly a quarter) and 8 (half) make every limit bite first in some run, and fill the store exactly | the index and the counters stay exact; quotas hold; nothing is evicted needlessly, and no neighbour's result while the quotas of all callers fit into the store |
| `state_plain` | 2 callers, 4 inserts, 3 entries, 5 bytes, a clock of 3 instants against a lifetime of 1 | the store is bounded and LRU, and implements `ResultStore` |
| `gateway` | token files of up to three lines with every fault a line can have and a conflict behind another pair; 2 callers, limit 2, window 2, batches of up to 3, 5 instants: two windows straddled | who may convert; bursts stay within twice the rate; a refusal is earned; the largest batch can be admitted |
| `pool` | a single call and a batch of up to 2, over 1 or 2 tokens: every job may wait, and a thread may hang with the lock or the only token | tokens, queue, lock, isolation, late results; every call ends though converters hang |
| `vlm` | 2 conversions, documents of up to 2 markers out of 2, one loss: an eviction, a failed read or a failed write | spending, reuse, survival of verdicts |
| `vlm_call` | every sequence of answers, with the codes on both sides of each boundary; up to 2 judges, 11 verdicts: clean, partial, contradictory, too long, none | what is retried, how long; which defects count |
| `file_cache` | 2 processes of 2 threads, 2 keys, 4 sets, 2 crashes: a restart on each side of every step, two writers in one process | durability, a whole file, failed writes made good |
| `cli_batch` | every sequence of up to 3 out of 9 sources: directories with links, other formats, shared outputs, an empty one, a missing name | outputs, inputs, exit codes |
| `docx_objects` | every body of up to 4 elements nested in any way, 2 large pictures and a small one, any of them referred to from elsewhere | pictures and figures |
| `xlsx` | four families of workbooks: one chart with every cache of up to two nodes, gaps, negative values and bad indices included, and pairs of series, in one element or two, with the same categories, the same written differently, or others; one chart at every cell with a missing half, a column around the last (`MaxColumn` = 3) or a row before the first; two sheets, one of them perhaps a chart sheet, with every arrangement of up to three anchors; parts of every size around the ceilings, declared truly or not | charts, values, labels and diagrams are where the workbook has them; the ceilings; how a conversion may end |
| `vlm_spend` | 1 conversion, one picture shown twice | violated: see the findings |
| `xlsx_lossless` | as `xlsx` | violated: see the findings |

`pool` has 55,453 states. Batches of up to 3 over one token, liveness included
(392,483 states), and over up to two tokens (470,803 states) were checked once
with the same result; they take minutes and are not kept as runs.

Deadlock is not checked where the system may stop: a bounded run of the
program ends (`CliBatch`, `DocxObjects`, `VlmCall`, `XlsxConvert`), the process
has exited or its clock has reached the bound (`Gateway`), all calls have been
answered (`ConversionPool`, `VlmEnhance`), or all sets and crashes are spent
(`FileCache`).

*Fairness* is stated in `ConversionPool` alone: the event loop runs the
coroutines and timers that are ready (`Answer`, `Enter`, `Timeout` under weak
fairness). Nothing is assumed of worker threads, which may hang for ever, with
the token or with the load lock: that the calls are answered all the same is
what the hard timeout is for. The other modules state safety only; the code
promises no progress there beyond that of a sequential program.

### Findings

1. `vlm_spend`: pre-flight probes the cache once for each marker, not once for
   each picture, and the last probe of an id wins. When an entry is evicted
   between the probes of two occurrences, one is counted and both are paid for.
   `SpendWithinLimitIfDistinct` is the part that holds, and is proved.
2. `xlsx_lossless`: `_table()` (`core/chart_render.py:141`) has a row for each
   category. Of a series with more cached values than there are categories, the
   rest is in no row and, since the shapes differ, in no diagram. The module's
   docstring calls the table lossless. What holds, and is proved, is
   `ValuesInPlace`: the rows that there are have every value in force at their
   place, and no other.

Divergences met while modelling that are not kept as runs:

- `ServerState.insert()` trims the caller's own results and then inserts
  whatever the new one's size, so that a single result above a quarter of the
  store can make the shared eviction drop a neighbour's first, which the docstring
  (`mcp/state.py:157-160`) excludes. `NeighboursSafe` says when it is excluded:
  no result passes its caller's quota, and the quotas of all callers fit into the
  store (`QuotasFit`: at most four callers and, as quotas are rounded up to at
  least one, limits of at least that many).
- With a limit set, the second occurrence of a picture that was not cached is
  answered by pre-flight's memory of the miss (`vlm/__init__.py:1181`), so that it
  is described and judged again, other than the comment at 1102-1104 expects.
- The HTTP body limit (`mcp/cli.py:350-365`) is sized for one item, so a legal
  `convert_batch` of large items is rejected, though the comment says that no
  legal call is.
- `parse_chart()` raises on a numeric category that is NaN or infinite, and
  `iter_chart_entries()` lets a syntax error of a grouped chart's XML escape, and
  the errors of `_anchor_cell()` on an anchor without `xdr:from`, without an
  integer in it or with a column that has no letters; a row before the first
  fails later, when the charts are sorted. The docstrings promise degradation
  ("conversion doesn't fail on corrupted OOXML"). A workbook with a chart sheet
  ends in an `AttributeError`, since `convert()` asks every sheet for its
  `iter_rows()`. `ReadPart`, `FinishScan` and `Write` model them.
- The rows are labelled with the categories of the first series that has any
  (`core/chart_data.py:363-368`). Of a scatter chart whose series have x values
  of their own, the later ones stand beside the x values of the first. The comment
  says "usually shared", and for shared ones `ValuesInPlace` says that the label
  is right.
- A batch item that was stored before a progress report raised
  (`mcp/server.py:781-782`, `:878`) stays in the store until it expires or is
  evicted, though nobody is given its link. `NothingLeftBehind` therefore speaks
  of jobs and of results nobody waits for, not of every result of a call.
- `c:ptCount` is taken as it is: a chart may ask for a list of any length
  (`Materialize`). The model has no memory to run out of.
- `sanitize_vlm_markdown()` is not idempotent on nested fences, as
  `vlm/__init__.py:392-397` says it is. Text, not modelled.
- A misconfiguration that `build_server()` finds is reported with the exit code
  of an internal error. An empty token file starts a server nobody can reach.

## 4. Proofs

The theorems hold for every value of the constants that the named assumptions
of the modules allow; the runs evaluate these assumptions. They say that limits
are positive, sizes are naturals and callers finitely many, what a token file,
a directory and a text are, and of `VlmCall` that the codes of errors are those
of HTTP, 100 to 599: the ladder also tries again after a larger number, of which
its docstring does not speak. Of a workbook they say only what a parser
guarantees (`IsPackage`, `IsChart`): its sheets, anchors, references and nodes
come in sequences, a sheet is a part, and each half of a cell and each index is an
integer or `Bad`, which stands for one that is absent or malformed. Nothing is
assumed of the numbers themselves, nor of where the references lead. Each proof module has one inductive invariant
(`IInv`, or one for each group of properties), three facts about it (it holds
initially, every action keeps it, it implies the property), and one lemma per
action.

**`ServerStateProofs`**: `TypeCorrect`, `IndexCorrect`, `TagsCorrect`,
`BytesCorrect`, `StoreWithinLimits`, `QuotasKept`, and `Refinement`: `ServerState` implements `ResultStore`, with the ids in the store
as its `live` set. None of the parts of `IInv` is inductive alone: the index is
exact after an insert only because the store's entries carry the caller they
were put for (`TagsFaithful`), because new ids are larger than all that are
listed, and because the LRU's order lists its entries without repetition. The
trim is a recursive function over the caller's ids; `TrimEffect` describes it by
induction on its steps, done with an interval lemma (`UpTo`) because the
library's induction theorems cannot be instantiated by the provers at hand.
`InsertStore` describes what the LRU keeps, `InsertIndex` what the callbacks
leave of the index. The first sections prove what each operation of the LRU does
to its entries, for every store, above all that an insertion never drops what it inserts
(`InsertEffect`). `SeqFiltersProofs` proves that filters keep the elements, their
order, and that none repeats.

The counters, limits and quotas have an invariant of their own, `Counted`,
inductive relative to `IInv`. The code only ever adds a size to a counter or
subtracts one; that a counter is the sum of the sizes it stands for (`LruSize`,
a fold over a finite set) is what must be shown. It rests on sums that do not
depend on the order in which they are taken (`SumAnyOrder`), that split over
disjoint sets (`SizeSplit`), and that agree with the running total of a trim or
an eviction, taken oldest first (`RunningSize`, `OwnBytesLeft`). What a caller
holds after an insert is what the trim and the store left it, and the new result
if the insert was its own (`OwnedAfter`, `SizeAfter`); the loop's exit condition
then gives the quota for the caller who inserts (`OwnExcessFits`), and everybody
else can only have lost results (`InsertQuota`). The exact counters are needed
for the bounds, because what the loops compare with a limit is a counter.

Which results are lost is said by three action properties: `EvictionsNeeded`,
`ReadsSurvive` and `NeighboursKept`. All rest on one lemma of the store
(`DroppedAreInTheWay`): whatever an insert drops stood at a place from which on
the entries, with the new one, pass a limit. Between the caller's own trim and
the store's eviction that place may move, but what is after what does not
(`SameOrder`, `TrimEffect`, `GoneInTheWay`). Only an insert loses anything
(`OnlyInsertsLose`), and what was read last is the last of the order
(`ReadsAreNewest`). For the neighbours, the parts of a finite union are bounded
by the number of callers times the quota (`PartsBounded`); the trim leaves its
caller room for the new result (`OwnRoom`), and so the store after it has room
for everybody (`TrimSuffices`).

**`FileCacheProofs`**: `FileWhole`, `SavedForGood`, `MemoryCovers`, `WritesHeal`.
The process that owns the flock has all of the file in memory, and within it the
mutex makes what is written all of that memory (`Exclusive`, `Serialised`,
`WritesAll`); no entry is newer than the last `set()` (`NoneFromTheFuture`).

**`ConversionPoolProofs`**: `PoolExact`, `TokensKept`, `CallsEndClean`,
`JobsIsolated`. The heart is `Settling`: the jobs that leave give back their
tokens and the head of the queue takes them, so that the count stays and no
token is idle while a job waits. `CallsEndClean` says that a call that is over
holds no token and waits for none, and that what an abandoned thread produces
later is never stored. The proof rests on a queue without repetition, and on
jobs that have not started or are idle having no thread (`NotStarted`,
`IdleUnused`).

**`GatewayProofs`**: `GatewayTypes`, `ActsForFileOnly`;
`BurstBounded`, `RefusalsEarned`, `LargestBatchFits`. The map is at every moment
that of the lines read so far, which no accepted line contradicts
(`MapOfLinesRead`), and a server that serves over HTTP has read them all
(`LoadedWhole`). For the rate, a window's counter is what was granted since its
start, nothing was granted since beyond its end, and in the stretch before its
start no more than the rate was granted, because all of that belongs to the
window before (`Accounts`). A stretch of a window's length then takes part of at
most two windows. The proof is about the history `admitted`, kept as a running
total so that no sum over a set is needed.

**`VlmEnhanceProofs`**: `EnhanceTypes`, `SpendKept`, `CachedFree`, `VerdictsSafe`.
After pre-flight, the markers paid for together with those that pre-flight saw
to need payment never grow (`Budget`), since what was remembered is what the
loop looks at; that is at most the limit when the markers are distinct. Nothing
that was cached leaves the cache while it loses nothing, every read of it then
finds what is there (a read that fails is a loss), and what was described was not
there (`Fresh`). A conversion that verifies has a verdict in hand when
it stores (`InPlace`). That other conversions do not disturb any of this is one
lemma (`Bystander`).

**`VlmCallProofs`**: `LadderCorrect`, `TypesCorrect`, `DefectsCorrect`. `LadderInv`
says for each place of the call how many attempts were made and that all of them
but perhaps the last were transient; that the ladder retries exactly those is
`RetryableIsTransient`. For the verdict, `VerdictInv` accounts for each question
by what the judges said of it so far. What a judge finds is the filter of a
list (`Kept`), so that the lemmas of `SeqFiltersProofs` give that nothing is lost,
invented or repeated when findings are united.

**`ConversionProofs`** holds the proofs of the three programs that run from
start to end by themselves, which share what is known of sequences that are
joined, filtered and sorted: the code's lists are built by `FlattenSeq`, `Kept` and
`Sorted`, and induction over sequences is done with a set of sequences
(`SeqSetInduction`).

*`CliBatch`*: `OutputsKept`, `InputsTakenOnce`, `ExitCodesTrue`. The plan is
described for every list of sources: a walk meets exactly what its sources reach,
following no link but one that is itself a source (`WalkReached`, by induction over the sources, `FlattenElements`), and of the
positions of a walk those with the first occurrence of an input are kept
(`PlanTakesOnce`). The loop's invariant `Looped` says that what was written are
outputs of entries already passed; since no two entries of a plan have the same
output, the next one overwrites nothing (`ConvertKeeps`). While nothing failed,
the n-th output is that of the n-th entry, which makes exit code 0 mean that
everything is where it belongs.

*`ChartTable`*: `ValuesCorrect`, `DiagramsCorrect`. `PointInForce` is about one
cache and one place, and says both directions: what `Points` has there is the
value of the node of that index which no later node replaces, whatever the other
indices and the declared count are, and a gap if there is none. `TableOfPoints`
takes it to the table, where each cell is a point of its series and each label
one of the first labelled series; where the labelled series share their
categories, that is the label of each of them (`BlockValues`). The diagram is
drawn only where all series are as long as the labels (`BlockDiagram`), and what
`Drawable` asks of the parsed chart is taken back to the chart's elements:
nothing stacked among them, and of a lone pie or doughnut one series of shares
(`DrawableCharts`).

*`XlsxConvert`*: `XlsxTypesCorrect`, `ChartsCorrect`. What the first says of
sizes is that no byte past the ceiling of a part is kept, and that after an
answer every part read for its charts is within that ceiling in truth; the total
and the number of parts are only checked as declared. The code scans all sheets
first, mixes their charts in one list, and takes that list apart again when it
writes; the invariant must say that nothing is lost on the way. While it
scans, what was read and what is to be read are together all reads, and the
entries are what was read so far yields, at cells that could be read (`Scanned`);
so in the end they are the charts of all sheets, one sheet after the other
(`AllReadsYield`), and their cells are pairs of integers, which the sort needs
(`SheetCharts`). Those of one
sheet, filtered out, are again the ones reached from it (`ChartsOfSheet`, from
`KeptOneOf`: the other sheets' entries bear other names). Sorting is a
permutation, because ranks in a strict total order are distinct
(`BeforeOrders`, `SortedPermutes`), and so keeps how often a chart occurs
(`CountPermuted`), which is how often it is anchored (`ReachedAsAnchored`, where
the pairs of an anchor and a reference are counted by `CountFlatten`). Every
section written is `Written` for its sheet, and the count of charts is the sum
of the sections' sizes (`SumAppend`).

*`DocxObjects`*: `DocxTypesCorrect`, `PicturesCorrect`, `FiguresCorrect`. The
properties compare the document as it was given with what is left of a body that
every turn of the loop has cut further. `DocxInv` describes each stage in terms
of the first body alone: after k objects the body is `CutTree(k)`, and what was
noted of them is what the first body says (`Described`). That is so because of
the order in which objects are cut: a group comes before the groups that it
holds, so nothing within an object is gone when its id and its pictures are
taken (`CutContent`). Containers are followed upwards by `Ancestors`, a recursive
function, well defined because an element's container comes before it
(`AncestorsRecursion`), and transitive by induction over the elements
(`AncestorsOrder`). What mammoth then sees are the sentinels of the objects
that no other holds and the pictures outside all of them (`ShownElements`). Two
objects of the same content share an id, and `by_id` keeps one of their groups;
it does not matter which, since content fixes kind and data (`ContentTells`,
`LookedUp`). Every picture of an inner object is in the outermost one around it
(`InOutermost`), whose marker therefore stands for it.

Only model-checked: liveness (`EveryCallAnswered`), since fairness and ENABLED
are beyond the prover.

## 5. Not modelled

- The gates on a response other than the judge (`sanitize_vlm_markdown()`,
  `witness_defects()`, `token_recall()`, `numeric_counter()`): functions of text,
  of which nothing is left once the text is abstracted.
- mammoth, markdownify, openpyxl, pdfplumber, soffice, anyio, mermaidx and the
  MCP SDK: external, modelled from how the code uses them.
- Prompts, completion, registration of tools and resources: declarations.
- Captions, warnings, wording, logging, the text of labels and cells, number
  formats: no property here is about them. Tokens are taken to be ASCII.
- Power failure: `FileCache` loses a process, not what the system wrote.
- `FileCacheBackend.get()` hands out the stored dictionary itself, while
  `VlmEnhance` models a backend that copies. What the alias lets through is a
  verdict written a little before its `set()`.
- A native chart in a text box: detection leaves it to mammoth, which does not
  see it. `DocxObjects` generates such bodies, but its properties speak of the
  objects that detection returns.
- Scripts and demos: generators of assets, outside the library.

## 6. How the work was ordered

1. `BoundedLru`, `ServerState`, `ResultStore`: the shared state of the server,
   with its proofs and the refinement.
2. `RateLimit`, `ConversionPool`: admission and concurrency.
3. `VlmEnhance`: what is paid for. `FileCache`: what survives.
4. `CliBatch`, `DocxObjects`: the sequential pipelines.
5. `Gateway`, `VlmCall`, `ChartTable`, `XlsxConvert`: the way in, the paid call,
   the charts.
6. Proofs of `FileCache`, `ConversionPool`, `Gateway` with the rate limit, and
   `VlmEnhance`.
7. Proofs of what the result store loses, of `VlmCall`, of `CliBatch`, of the
   charts of a workbook, and of the figures of a document.

What would come next: the alias of the file backend as an alternative cache of
`VlmEnhance`, and charts in text boxes as a property of `DocxObjects`, once the
repository says what it promises there.

Compositions: `ServerState` and `RateLimit` are one class in the code, but share
only a lock and are checked apart; `ConversionPool` has its own view of the
store (`stored`), whose contents `ServerState` models; `VlmEnhance` sees the LRU
cache as a map that may lose entries, which `BoundedLru` implements, and a paid
call as one step, whose inside is `VlmCall`.
