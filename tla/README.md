# Formal model of fakedbfs

fakedbfs 2.1.0 keeps catalogues of files in one SQLite database. A C library
(`libfakedbfs/`) is used by four programs: `fcreatedb` loads specification files
(enumerations and catalogue field definitions, CFDs), `fedit` makes and removes
catalogues and edits entries, `findex` indexes files into a catalogue, `fquery`
runs queries. The library has one thread and no transactions; concurrency comes
from several programs that share the database file, from applications that hold
several queries of one instance, and from crashes between SQL statements.

## 1. Inventory

| Component | State | Operations | Interacts with | What is hard | Correct when |
|---|---|---|---|---|---|
| Definitions (`dbinit.c`, `sqlite.c`) | `enum_list`, `endef_*`, `cfd_list` with `refcount`, `cft_*` | `fdbfs_db_start`, `init_db_tables`, `fdbfs_dbspec_parse`, `make_tables_from_spec`, `new_enum`, `new_cft` | SQLite; the lists read before | races of loaders, crash between statements, `SQLITE_SCHEMA` | what is listed exists, is complete and has one author |
| Catalogues (`dbinit.c`, `fedit/commands.c`) | `cat_list`, `c_*` | `mkcat`, `rmcat` | definitions, `refcount` | lists out of date, partial failure | each table is described by its CFD; `refcount` counts |
| Lists in memory (`dbinit.c`, `libfakedbfs.c`) | `f->heads`, `f->catsh` | `enums_from_db`, `cats_from_db`, `catalogues_from_db` | every other part | reading while others write; an error pending from before | a prefix of what is on disk |
| Connection (`sqlite.c`) | SQLite handle, busy handler, schema cache | `db_open`, the statement helpers | the file's write lock | lock contention | retries before it gives up |
| Operand stack (`query.c`) | `stackbase`, `csp`, `items` | `spush`, `spop` and their projections | queries, applications | limits, pointer arithmetic | last in, first out, inside its block |
| Query execution (`query.c`, `fquery`) | `exec_state`, `cst`, stack, `f->curq` | `query_new`, `qne`, `init_exec`, `step`, `destroy` | operand stack, lists in memory, regex function | interleaved queries, errors and restarts, a full stack | no finalized statement used; rows complete and kept |
| Query text (`qtokenise.c`, `queryparser.y`, `query.c`) | the parser's stack, the instruction list | `query_parse`, the rules, both passes of `init_exec`, the SELECT | parser, execution | errors in the middle, a full parser stack, length of the buffer | refused as soon as it is no query; SQL never cut |
| Parser generator and skeleton (`lemon.c`, `lempar.c`) | tables at build time; the stack of a parser | closure, follow sets, packing; shift, reduce, recover | both grammars | packed and defaulted tables, recovery, overflow | the packed tables act as the grammar says |
| Specification text (`dbspec.l`, `dbspec.y`) | lexer condition, parser, `Heads` | the lexer, the code of each rule, `make_tables_from_spec`, release | definitions | files cut off, global lists and counters between the rules | the tables list what the file defines, as specfile(5) says |
| Sub-elements (`dbspec.y`, `dbinit.c`, `memory.c`) | linked lists that share tails and strings | own, ALLSUB, SELF, `<sameas>`; `copy_sub_list`, release | specification text | numbering, aliasing | values tell sub-elements apart; copies complete; nothing freed twice |
| Configuration (`conf.c`) | tree in memory, table `config` | `conf_init`, `get`, `set`, `read_from_db` | SQLite | order of sets, types, failed statements | a set value survives |
| Session (`libfakedbfs.c`) | the instance, its open statements, the pending message | `fdbfs_new`, `fdbfs_destroy` | all | failure half way, open statements at close | close releases everything |
| Plugins (`plugins.c`, `plugins/music`) | list of plugins | search, probe, open, initialise | session, configuration, indexing | partial failure, several directories | list complete |
| Indexing (`indexing.c`, `fields.c`, `findex`) | rows of `c_*`, their `lastupdate` | `index_file`, `index_dir`, `cindexer_dir`, `add_file` | file system, plugins | files that change while indexed, partial failure | a changed file is indexed again |
| FORTH machine (`ficl/`, `libfakedbfs/ficl.c`) | cells, stacks, instruction pointer, dictionary, search order, locals | the inner and the outer interpreter, compiling words, catch, throw, evaluate; loading a plugin | FORTH plugins on one dictionary | exceptions by longjmp, definitions given up half way, shared counters | comes back to its prompt with nothing left over; dictionary sound |
| Crawler (`crawler.c`) | frames | push, pop | none: unfinished, no caller | | |
| Regular expressions (`fregex.c`), errors, debugging output, memory helpers | none of their own | | | | |

Left aside: the rest of `ficl/` (files, environment, debugger, generated softcore and
its decompressor, platforms), `dbspectok.c` and `dspparser.y` (not built), the
system tests and the build files.

## 2. Modules

| Module | Role |
|---|---|
| `Schema` | the database of definitions and catalogues and the programs that change it |
| `SchemaInv`, `SchemaProofs`, `MCSchema` | its inductive invariants, the proofs, specification files for TLC |
| `BusyHandler` | the busy handler of a connection; refines one cause of `Schema`'s `StatementFails` |
| `QueryStack`, `QueryStackProofs` | memory layout of the operand stack |
| `QueryExec`, `QueryExecProofs`, `MCQueryExec` | queries, their statements, the rows they deliver and the application |
| `Indexer`, `IndexerProofs`, `MCIndexer` | findex in batch mode: a catalogue against files that change |
| `ConfMap` | abstract: the configuration as a map with a copy in each session |
| `Config` | its table and trees, which implement `ConfMap` |
| `Session`, `SessionProofs`, `MCSession` | extends `Config`: opening, the search for plugins that use the configuration, closing; the proofs about both |
| `Recursion` | lemmas: induction on sets of numbers, loops as functions; used by the proofs of `Session`, `QueryExec` and the parser |
| `Lemon`, `Lempar` | from a grammar to packed tables; one pass of the parser's loop over them |
| `Automaton`, `AutomatonProofs` | what tables have to be like for the stack to spell what its states stand for; that it then does |
| `QueryTokens`, `QueryGrammar` | the tokeniser of queries; the grammar of `queryparser.y` and its tables |
| `QueryText` | composes them with `fdbfs_query_parse` and `init_exec`: from a text to a SELECT |
| `QueryReading`, `MCQueryText` | what a query text says, stated without the parser; texts for TLC |
| `QueryAutomaton`, `QueryTextProofs` | facts about the tables of queries and that reading, which TLC evaluates; what follows from them for every text |
| `SpecGrammar`, `SpecText` | the grammar of `dbspec.y`; lexer, rules, lists, tables, release, reading back |
| `SpecMeaning`, `MCSpecText` | what a specification says, stated on definitions; definitions for TLC |
| `FiclCell`, `FiclStack`, `FiclFloat` | cells of a machine word, the arithmetic of `double.c`, stacks |
| `FiclInstr`, `FiclDict`, `FiclPrim` | the instructions of the inner loop; word lists and memory; compiling and defining words |
| `FiclVm`, `MCFicl` | the machine, its exceptions, its two hosts; what is typed |

All but the modules of specifications and of FORTH are written to be proved about. `Lemon`,
`Lempar` and the text modules compute with functions and folds; `FiclDict` and `FiclVm` have
RECURSIVE operators, and their modules are for TLC only.

### Schema

*State.* The file: `sys` (system tables), `enumRows`, `endef`, `cfdRows`,
`refcount`, `cft`, `catRow`, `ctab`. A definition table is the specification file
it is filled from and the number of rows inserted so far; elements are reduced to
"is the other type", fields to the enumeration they use. Per process: `pc` (its
next SQL statement), `cur`, `pos`, `row` (where it is in the file it loads),
`hEnum`, `hCfd` (the lists in memory), `argCat`, `argCfd` (of mkcat and rmcat),
`err` (an error pending before the lists are read), `fresh`, `known` (the schema
cache of its connection).

*Grain.* One action is one SQL statement and the C code up to the next one:
each statement commits by itself, so nothing finer can be seen by another
process. Readers keep the outer SELECT open over the inner ones, which makes each
of the three reads one snapshot.

*Schema cache.* The code prepares with `sqlite3_prepare`, not `_v2`. A statement
prepared from a cached schema fails with `SQLITE_SCHEMA` if another process
created or dropped a table meanwhile; `sqlite3_exec` retries. `Expired` and
`ChangeSchema` keep this, because it decides where loaders stop. It is an
assumption on the library that a table missing in the cache makes prepare reload it.

*Failures.* `Faults` turns on `StatementFails` (the error path of every
statement), `Crash` (death before any statement), and `CutEnums` and `CutCfds`: the loops
of `fdbfs_enumelems_from_dbtab` and `fdbfs_catelems_from_dbtab` read rows while there are
rows and do not look at the code they end with, so that a step which fails in the middle
leaves a shorter list that the session takes for the whole. Only an empty list is an error,
of fields always, of elements when a message is pending. `cut` (history) marks the session that took part of an
enumeration for all of it, and the catalogues it makes.

*Actions and code.* `OpenLoader` is fcreatedb's main, `DbStart` and
`InitDbTables` are `fdbfs_db_start`, `ReadEnums`/`ReadCfds`/`ReadCats` are
`fdbfs_read_specs_from_db`, `Parse` is the parser with its collision checks,
`CreateEndef`/`AddEnumRow`/`AddElem` are `new_enum`,
`CreateCft`/`AddCfdRow`/`DropCft`/`AddField` are `new_cft`, `MkCat` to
`CreateCatTable` are `fdbfs_create_catalogue`, `RmCat` to `DecRef` are
`fdbfs_db_rm_catalogue`. One fedit process runs one command over the names of its
command line. `faulted` is a history variable: a statement failed or a process died.

### QueryStack

`mem` is every cell `csp` can point to, numbered from `stackbase`. `csp` is moved
by `sizeof(*csp)` in pointer arithmetic, hence by `CellSize` cells per item; the
cells outside the block belong to the rest of the heap, which may write them at
any time (`Scribble`).

### QueryExec

A program (`Program`) is an instruction list as far as execution depends on it:
all columns or selected ones, the columns, whether there is a regular expression,
whether the catalogue exists, and whether the application leaves rows on the
stack. `InitExec` has every error exit of `init_exec`, and the first step.
`Step` sets `curq`, steps the statement and assembles the row: `TakeColumn` is one
turn of the loop over columns, including the case where an enumeration waits for
its `oth_` column. `Deliver` pushes and pops the names of selected columns and
pushes the row. The result is a number of rows up to `MaxRows`, chosen by SQLite.
`Fetch`, `Pop`, `New` and `Destroy` are the application; it may also call the
public `fdbfs_query_step` itself. Not modelled: that a statement left open by a
failed bind or by `Destroy` is lost (see `Session`).

### Indexer

*State.* The world: `clock` (time(3), in seconds), `content` and `mtime` of each
file. The catalogue: `entry`, the row of a file with its `lastupdate` and `ctime`.
Per findex: `pc`, the listing still to be visited (`todo`, `stat`), the file in
work (`cur`), what the plugin extracted (`fields`), the time in the INSERT
(`stamp`) and whether an error is pending (`err`).

*Abstractions.* The content of a file is a version number, new with each write, and
the fields of a row are the version they were extracted from. The stats of one
`fts_children` are one step; from then on each file takes the steps of the code:
compare with the row (`Visit`), the second comparison of `index_file`, whose answer
is only reported (`Recheck`), the plugin (`Extract`), the text of the INSERT with
its time (`Prepare`), the INSERT (`Insert`). Between any two, files change
(`Write`, `Remove`, `Tick`) and another findex works.

*Failures.* Any SELECT, extraction, prepare or INSERT may fail, and a findex may be
killed, `MaxFailures` times in all. A failure leaves an error pending, which the
code tests in one place for a file without a plugin and clears in two others.

*History.* `writes` and `failures` are counters for versions and bounds; `overlap`
says that a file was written between the extraction and the commit of its row, or
in the second of its `lastupdate`: the changes that findex cannot see.

### ConfMap, Config and Session

*State.* `ConfMap` has the map (`stored`), the copy of each session (`view`), what was
last reported as set, and the MIBs that a set failed to store. `Config` has the table
(`table`, `rows` in the order of rowids) and per session `pc`, `tree` and the set in
work (`job`). A tree is the sequence of its nodes in the order they were made, each with
its parent, its value and the flags that tell how to release the value: of several siblings
with one tag the last made is found, as the code puts new nodes first. `copy` (history) is
the map that the tree is to be; `view` is mapped to it, `stored` to a look-up in `rows`, and
`TreeIsCopy` ties it to the tree. `Session` adds where fdbfs_new is (`stage`), the search
path and the directory entry it is at, the nodes of the plugin list with their links
(`nodes`, `lp`, `head`), the message in `f->error` (`pending`) and whether the connection
has statements nobody finalizes (`left`).

*Actions and code.* `Open`, `Create`, `SetDefault`, `ReadFromDb` are `fdbfs_conf_init` as
called by `fdbfs_new`; `Set` is `fdbfs_conf_set` up to its statement, `Store` and
`StoreFails` the statement. `SearchPlugs` and `ProbePlugin` are `fdbfs_plugins_init`,
`search_plugs` and `probe_plugin`; `MibTest` and `PluginReady` the init of the music plugin,
which looks for its MIBs and sets those it misses; `SClose` is `fdbfs_destroy`.

*The contract.* A set changes the tree first and does not undo it when the INSERT
fails; the next set finds the MIB in the tree, UPDATEs a row that is not there and
returns success. `ConfMap!Succeed` allows just that, and only after a failure.
No MIB of the instance is a branch of another and all have a dot: a set of a branch
returns success and stores nothing, a name without a dot is stored but never found.

*What the code does and the properties say.* plugins_init takes the value of search_plugs
for the head of the list, but that is its last plugin: of the first directory with plugins
only the last can be reached (`FirstDirectoryLosesAllButLast`, which gives the places in the
search path of the plugins that are listed, and their order). A message somebody left
before ends the search. `db_mib_add` and `db_mib_update` finalize only on errors, so
sqlite3_close refuses to close a session that set anything, and each start sets a default;
`fdbfs_destroy` then releases neither plugins nor the tree, in every session. fakedbfs.h:273 has it
destroy the instance; no property restates that it does not. Nothing in the code calls the plugin_shutdown that
doc/FILE_PLUGINS describes. The default of `fdbfs.plugins.forthpri` is written at each start, over
what setconf stored.

### Lemon and Lempar

`Lemon` takes a grammar - rules with their symbols - through the stages of `lemon.c`:
lambda nonterminals and first sets, the LALR(1) states by closure of kernels, follow sets
by propagation, actions, default reductions, and the packing of all action sets into one
array with offsets (`Place` is `acttab_insert`). `Lempar` is the skeleton: a look in the
packed table (`FindAction`), shift, reduce, the error token with popping, the full stack
of `YYSTACKDEPTH` that is emptied. Each stage of each grammar is a constant, computed by
TLC once. `ConflictFree` holds of both grammars, so `resolve_conflict` has nothing to do.
States are numbered breadth first where lemon goes depth first; only the places in the
packed table depend on it. `Automaton` says what tables must be like (`WellMade`): the dot of
a configuration moves over the symbol that leads to its state, a rule is reduced where its
right-hand side is complete, no entry is packed over. `QueryAutomaton` assumes it of the
tables of queries (`QueryTables`), with what states tell of the reading of the text;
these are closed formulas, which TLC evaluates before `QueryText` and `QueryRegex` start.

### QueryText

*State.* The text and the place in it, or none, when the environment feeds tokens; the
parser; the instructions queued; `failed`, `freed`; `verdict`, what init_exec makes of the
instructions. `lost` and `passes` are history.

*Actions and code.* `SkipBlanks`, `QTok`, `QTokEmpty` and `EndOfText` are
`fdbfs_query_qtok` over `Toktl`; `Looked` is the test for errors after each token;
`ParseShift`, `ParseReduce`, `ParseError` are passes of Parse, `ParseReduce` with the
instruction that the rule queues; `ParseUnusable` is a rule that frees its value and
returns. `Exec` is `fdbfs_query_init_exec` as far as `sqlite3_prepare`: the checks of the
first pass with the room it counts, those of the second, and the SELECT as pieces with
their lengths.

*What the tokeniser does.* A keyword is compared over the length of the word, so that
every prefix of one is the keyword (`c` is CATALOGUE). A single `=` falls through to `!`. A
string that is not closed loses its last character, an empty one refuses the text, and the
first character no token begins with ends it silently. A single digit is USINT, more or a
sign SIGNEDINT. An illegal character is no error: `fdbfs_query_parse` returns success on the text before it, though
query.h:326 says "0 on error". A regular expression goes into the SQL as text between single
quotes, whose own quotes are not doubled: `Pattern` makes one piece of it if they happen to
be doubled in the text, and a broken one otherwise.

*Reference.* `QueryReading` knows no states: an automaton that counts parentheses for the
language, the instruction each token stands for, the words of a text as the longest that
can be spelled, and which pieces may stand next to each other in SQL.

### SpecText

*State.* The lexemes of the file and how many were read, the comment condition, the
parser, and `heads`: the Heads structure with the lists, the current enumeration and
catalogue, pointers into `heads.nodes` (sub-elements with `next` and `sameas`) and the three counters of
values. `written` are the rows of make_tables_from_spec; `released` what memory.c frees, in order;
`lists` what the next program reads back.

*Actions and code.* The lexer delivers or drops a lexeme, the parser shifts and reduces
with the code of every rule of `dbspec.y`, `make_tables_from_spec` writes, `free_*` of
`memory.c` release, and `ReadBack` is `fdbfs_read_specs_from_db` over these tables. Strings are known by the place they were allocated for, so that a
string shared by two lists is told from two equal ones. The phase "crashed" is a NULL that the
code follows.

*Reference.* `SpecMeaning` prints definitions as files, cuts them off, leaves a lexeme
out, puts comments in, and says from the definitions alone what has to come of them:
`Verdict`, the rows, the values of sub-elements. `TablesAsDefined` is about elements that
list sub-elements of their own without `<sameas>`, `CopiesKept` about those where it comes behind
others. specfile(5) promises more than the code keeps, and the properties leave that out: an element
without a list of its own gets none of ALLSUB ("apply to all enum elements", :55; dbspec.y:91); a `<sameas>` at the start
of a list brings one copy ("Copy the elements", :66; dbspec.y:197); a `<self>`, which is to have the name of the
father (:64), is looked for by its value and found without a name (dbinit.c:151, libfakedbfs/indexing.c:294); a copy can have the
number of another sub-element, before or behind it, and is then not found by it (dbinit.c:221). specfile.5:77-79 says that `<sameas>` is not available in ALLSUB;
the grammar accepts it there, and so does `Verdict`.

### FiclVm

*State.* `vm` is the machine and the dictionary it works on: memory, `here`, the word
being defined (`smudge`), word lists and search order, locals, three stacks, the
instruction pointer, and the C stack of the functions that catch exceptions, each frame
with what it saves.

*Actions and code.* `Step` is one instruction of the inner loop or one word of the outer
interpreter; `CatchReturns`, `EvaluateReturns`, `LineReturns` are the ends of
`ficlVmExecuteString` and `catch` for each exception; `HostReads`, `HostReadsLastAgain` and
`HostCloses` are the loop of `main.c` and `parse_ficl_file`, which sees the end of a file
only after a read has failed and so evaluates the last line twice. At this commit nothing gets
as far as `parse_ficl_file`: `fdbfs_ficl_load_ficlplugin` compares the last three characters of the
file's name with the four of ".4th" (libfakedbfs/ficl.c:269-270), so that no file is a FORTH plugin. The
plugin host is modelled as it would run behind that test.

*Locals.* The count of locals belongs to the system. `:` resets it, `:noname` and errors do
not. `FramesPaired` is about what `:` began; a definition without a name, begun after one with
locals was given up, drops a frame that it has not made
and finds the other's locals, against primitives.c:2591. It is in no word list; the property leaves it out. The case of `ficlLocalParenIm` for a machine that interprets can be reached by
an execution token only, and a number typed on a full stack is pushed without a check (the next word finds
the overflow): both are in the model, no session gets there.

*Assumptions.* An address unit is a cell; a cell and an int have 6 bits, with the
overflow of that width; floats are integers; the build is -DFICL_ANSI with FICL_ROBUST 2
and the portable `double.c`; registers after longjmp keep their latest values; `local`, `2local`
and `end-locals` (written in FORTH) are one step. FICL_MAX_WORDLISTS is 3 for 16,
FICL_MAX_LOCALS 4 for 64. Where the code leaves the memory it owns, or forgets its own words,
the machine is `Wild` and stops: nothing is said of it. Code that cannot
be reached from typed lines (`exit-inner`, `bye`) is left out.


## 3. Runs

| Run | Instance | Question and result |
|---|---|---|
| `Schema` | 2 processes, 2 files that share a CFD, one of which has an enumeration, 1 catalogue, faults; 951,155 states | The inductive invariant; what is listed exists; one writer per definition; a field's enumeration is complete; until something fails, a CFD is incomplete only while someone writes it; a complete schema before anything is written; catalogues described by their CFD; other columns present unless the maker's read of an enumeration was cut short; listed definitions only grow and only rmcat lowers a `refcount`. Holds. |
| `SchemaSolo` | 1 process, 4 files whose names collide, 2 catalogues, no faults, `FairSpec` | An accepted file is loaded to its last row (liveness); `refcount` never too low. Holds. |
| `BusyHandler` | 2 connections, `BUSY_RETRIES` = 3 | A statement fails only after the retries of fdbfsconfig.h. **Violated**: the results 0 and 1 are exchanged. |
| `QueryStack` | 5 cells of size 2, two values, scribbling heap | Pointer and counter agree; items in the block are popped as pushed. Holds. |
| `QueryStackBounds` | 30 cells of 24 bytes: the code's values on LP64 | Every item lies in the block. **Violated** by item 2. |
| `QueryExec` | 2 queries, 7 programs, 2 cells, 3 rows, faults; 97,025 states | No use of a finalized statement; announced rows stay; a match searches its own query; rows in table order complete. Holds. |
| `Indexer` | 2 findex, a file with a plugin and one without, clock 0 and 1, 2 writes, 1 failure, `FairSpec`; 747,403 states | A current row is left alone; a change gets into the catalogue unless it overlaps the indexing of its file (liveness). Holds. |
| `Session` | 2 processes, 2 MIBs, 3 values, 2 sets, 1 failure; 302,229 states | A tree finds what was read and set; a set that returned success is in the table, unless an earlier one of its MIB failed; which plugins the list keeps; `ConfMap` is implemented. Holds. |
| `QueryText` | parser stack of 11, token sequences to 10, about 2,600 texts; 433,052 states | The packed tables act as the grammar; a text is refused at the first token that no query goes on with; the instructions are those of the text; the SELECT is whole, in its buffer, and readable if no quote of a regular expression has to be doubled. Holds. |
| `QueryRegex` | as `QueryText`, a regular expression that regcomp refuses | The parser leaves every rule with its symbols popped. **Violated**: the rule returns from the parser. |
| `SpecText` | about 340 definitions, cut off anywhere, any lexeme missing, a comment anywhere; 642,599 states | The verdict; tables and the lists read back have what the definitions list; copies behind own sub-elements are complete, and what stands before them is found; a file cut off yields a prefix; nothing is freed twice. Holds. |
| `Ficl` | 9 sessions of typed lines and plugins, cells of 6 bits; 43,818 states | Back at the prompt nothing is left over; catch restores what it saved; word lists, branches and the frames of named definitions are sound; jumps keep their way; division is exact over the double cell. Holds. |

The three violations are recorded under "findings" in `PROJECT.json`, each with the
document or comment the code disagrees with.

*Bounds.* Two processes suffice for every race of the code, all of which are a
read or a CREATE TABLE of one against statements of another; the proofs cover any
number. Files have two elements or fields where a loop must have a middle and an
end, and share both kinds of name so that every collision occurs. `MaxRef` caps
only `mkcat`. A stack of two cells
is filled by one row and one name, so that names and rows are refused; three rows
give a first, a middle and a last. In `Schema`, one catalogue and two files keep the state
space of two failing processes small; all four files meet in `SchemaSolo`. In `Indexer`, two seconds give
times before, equal and after, two writes an old and a new version for two
findex to extract, and one failure may hit any statement.
In `Session`, two sets are one that fails and one that UPDATEs nothing, or one of each session;
the search paths have directories without, with one and with several plugins.
In `QueryText`, ten tokens reach every rule and both a stack that overflows and queries that
fit; the texts put each kind of token next to each other. In `SpecText`, an enumeration has
two or three elements, which take every combination of own, common, copied and bare
sub-elements; enumerations and fields of catalogues come in twos and threes. In `Ficl`, six bits overflow in
the arithmetic session, and the limits of word lists and of locals are exceeded.

*Deadlock* is checked where programs and applications can always start again. A text or a
session of the query, specification and FORTH runs ends, or leaves what C defines.

*Symmetry* is used on processes in safety runs only.

*Fairness.* `Schema!FairSpec` has weak fairness on `Work(p)`, the statements a running
program executes by itself: a process that is not killed reaches its next
statement, since every loop of the loader is over a finite list. Nothing is
assumed of users. It is used for `AcceptedIsLoaded` alone, with one process and no
faults; with two, a loader may lose the race for a name and stop half way, which is
what the code does. `Indexer!FairSpec` has weak fairness on `Run(p)`: a findex that
is not killed goes on, since a listing is finite, and is started again later. The
second half is an assumption about its users, as is a directory that holds the
files among the arguments (`Targets`); failures are finitely many. Without it a change is not seen because
nobody looks, which says nothing about the code. The other specifications have no
liveness property and no fairness.

## 4. Proofs

All theorems hold for any sets of processes, files, names and MIBs, any stack and cell
sizes, any programs. Assumptions: `SchemaConstants` (sentinels differ from data),
`SpecFilesParse` (what the grammar accepts: names once per file, no empty
blocks, fields use enumerations of their file), `StackConstants`,
`ConfigConstants`, `SessionConstants`, `QueryConstants` (of `QueryExec`; and of the text: a stack of
at least 11 entries, and fed tokens are of kinds the grammar has), `QueryTables` (facts about
the tables of queries, closed and evaluated by TLC), and the hypotheses of `RefcountsCover` and of the theorems
on the configuration, named below.

*Schema.* The properties are not inductive. `IInv` adds what a process knows of
the database at each statement: the table it created is still its own and has as
many rows as it inserted (`EnumProgress`, `CfdProgress`); the enumerations before
the current one, and all of them once it writes CFDs, are complete
(`EnumsBefore`); its lists are prefixes of the tables (`HeadsArePrefixes`); it
passed reading the lists only with all system tables present (`SysKnown`). No
other process can disturb these facts because CREATE TABLE succeeds once per
name, rows are only added by the process that created the table, and a table is
dropped only by the process that created it, before its list row. `SchemaProofs`
has one lemma per action, and from `IInv`:
`TypeCorrect`, `ListsHaveTables`, `NoDuplicateEnum`, `OneWriter`,
`FieldsFindEnums`, `WritersHaveSchema`, `CataloguesDescribed`, `DefinitionsGrow`.
`IncompleteIsWritten` (`CfdPartialOnlyInFlight`) adds that no field table is dropped before
something fails (`CfdInv`): a loader leaves a CFD only after its last field.

`SchemaProofs` goes on to `OtherColumns` (`OtherColumnPresent`), which rests on the expiry of
schemas. A session reads the enumerations, then the CFDs, and a loader may finish an
enumeration and write a CFD that uses it in between. `ColInv` says why no session gets to use
the half it read: making the CFD's table expires the schema the session would read the CFDs
with (`ReadsWhole`), unless it knew no `cfd_list`, and then it met no enumeration and the CFD
is refused. Hence, unless the read of the session was cut short by a failed step (`cut`), the enumerations of
every CFD in memory are complete (`HoldsWhole`), and the columns are those the database asks
for. The invariant keeps sessions with a cut list in it, since they go on writing; what it
says of their memory is only that the lists are beginnings of the tables (`HeadsArePrefixes`). TLC finds `ColInv` to hold on the instance of
`Schema.cfg`.

`RefcountsCover` is `RefcountCovers` under `OneCommand`: as long as nothing fails and no
two processes are in mkcat or rmcat at once. Loaders and readers may be anywhere. The invariant
`RefInv` counts for each CFD (`Covered`): a catalogue that is listed and not yet counted
(`Adding`), one that is gone and still counted (`Removing`). Two fedits on one catalogue can lose the count
of one of them, and so can a failure between the two statements; both are excluded by
hypothesis, not claimed. The sum over catalogues is the cardinality of a finite set, hence
`IsFiniteSet(Cat)`.

*QueryStack.* `StackInvariant` (pointer and counter agree, items in allocated cells
are in place) needs that cells of different items are distinct, which is the
multiplication lemma `AtOrder`; `LastInFirstOut` follows.

*QueryExec.* `StatementsLive` and `RegexOfOwnQuery`, from an invariant over
`phase`, `stmt` and `searched`: a match happens only in a step that has made its
own query current.

`QueryTypeCorrect`, `AnnouncedRowsKept` (`RowsKept`) and `RowsComplete`
(`PairedRowsComplete`) rest on `QueryInv`, which ties the stack of a query to what was announced:
while there may be more rows, every row above an announced one was announced too, so that the
names step pops come from above them (`QueryFits`). `QueryTypeCorrect` includes that no stack has
more than `StackSize` cells. What one row is made of is an induction over the turns of the loop over columns
(`Gathered`): after each turn, all columns before it are delivered, but for an enumeration that
waits for the column that comes next. `QueryConstants` assumes that no `oth_` column is
the id, which names of columns cannot be. `RowsKept` is about `StackClean` programs
and `PairedRowsComplete` about `Paired` ones; the hazards list what happens to the others.

*Indexer.* `TypeCorrect` and `CurrentLeftAlone`. The invariant: versions in rows and in
flight are of writes that happened (`PastVersions`), no file is from the future
(`PastTimes`), and a row, or one about to be inserted, that shows what the file holds
carries a time not before its `st_mtime` (`RowsCover`, `StampCovers`). The last step
is the point of taking the time after the extraction. A clock that goes backwards is
not modelled.

*Configuration.* `TreesAreCopies` (`TreeIsCopy`), `ReportsAreStored` (`ReportedIsStored`)
and `MapImplemented` (`ImplementsMap`) are of `SSpec`, with plugins setting MIBs in between, and
have one hypothesis, `MibsAreLeaves`: each MIB has a dot and none is a branch of another. It holds of all
MIBs in the code (and of the instance of `Session.cfg`), and without it the code does not keep
the promise (see *The contract*). The inductive invariant is `ConfInv`. Of a
tree (`Sound`) it says that every node has a full name, the tags from the root, and that no two
nodes have the same. `conf_search_mib` then finds a MIB exactly if a node has its name
(`SearchIs`, by induction over tags), `conf_add_to_tree` adds one name and keeps those there are, and the tree
that `read_from_db` makes has the rows and no more (induction over rows). The rest relates
table and trees: a row per MIB at most; a MIB that is in the tree of a session has
a row, or had a set that failed, or is the one that is about to be inserted (`Kept`, `Fits`). So
a session that decides for UPDATE by its own tree finds a row, whoever inserted it, unless
a set of the MIB had failed. `MapImplemented` maps each action to the
step of `ConfMap` or to a stutter.

*Session.* `PluginsFound` (`FirstDirectoryLosesAllButLast`) holds for any search path. `Stages` ties where a
session is in `fdbfs_conf_init` to where it is in `fdbfs_new`: none reaches the search but through reading the rows. `PlugInv` says of a session
that has seen no failure: its plugins are those of the directories done and of the entries read
(`Seen`), in one chain in the order of their places whose last is `lp` (`Chain`); head is 0
while they are all of the directory that is read, and else the last of the first directory that
has any (`HeadIs`); a plugin in its init is still the next entry (`Reading`). The list of
the application is then a suffix of the chain (`ListedIs`, induction from its end), and what
it lacks is what `Lost` says.

*Query text.* The theorems of `QueryTextProofs` are about texts of any length, groups
nested to any depth, any stack from 11 entries on. The grammar is one constant, and what
lemon makes of it can be computed but not reasoned about; so TLC evaluates the facts
`QueryTables` about it, and the proofs conclude from them what happens on every text. The
link is a lemma about any well-made tables (`AutomatonProofs`): below a state whose
configuration has its dot behind d symbols, these d symbols are on the stack
(`TextHandleOnStack`). `Known` is the set of all <<state below, state on top, token looked at,
place of the reading>> that arise, closed under the steps of the parser (`KnowsReading`).

The inductive invariant `TextInv` says of a stack that it spells what its states stand for
(`ParserInv`), that its top is known with the place of the reading and its groups are those the
reading has open (`ReadInv`), and that the instructions queued open as many groups, and one more for good
once a full stack was emptied (`QueueInv`), so that the first pass of init_exec finds
the group unbalanced and nothing is prepared (`VerdictInv`). With 11 entries a stack without groups never overflows
(`FlatIsShort`). It gives `TextRefusesAtOnce` and `TextTablesAgree`.

`TextInstructions` needs `MeaningInv`, which adds what was queued. A rule queues its instruction
when it is reduced, a token after its operand was read, and more than one reduction later in
places: so the queue is the meaning of the tokens read, or lacks just its last
instruction, which the top of the stack owes, with the operand in a known depth
(`Owed`, `SaidInv`). At the end of the text all is paid, and ENDQ comes of the one rule that has
it (`EndInv`). TLC finds `SaidInv` and `EndInv` to hold on the instance of `QueryText.cfg`.
The other conjuncts of `InstructionsFollowText` are about strings, whose characters the
provers do not know.

`TextSelect` needs that what reaches init_exec came from tokens in the order of a query. TLC
evaluates which instruction can be queued behind which (`KnowsOrder`, over the closed set
`Sayings` of places of the reading and the instruction last said there); `Lined` says it of a whole queue, and that
at most one regular expression is in it. `SelectInv` adds what a statement was made of. One half
is a sum: instruction for instruction, what the second pass has written is at most what the first made
room for (`HasRoom`, `Fitting`). That does not hold of the column before a `!~`, which writes
`notregexp(` and gets no room for it: it is 9 characters short. The instruction behind it has 8 to
spare, and the 30 characters the sum begins with leave 7 more than the words of the SELECT
take. The proof uses that a text has one regular expression at most. The other half says what stands next to what: groups begin before all operands
(`NoOperandYet`), none is closed that was not begun (`ClosedWasBegun`), the last is not open
(`LastNotBegun`), and so each piece of the condition can follow the one before (`NextFits`)
unless it is one of the exceptions `SelectReads` names. Readability is claimed of texts whose regular expressions
have no quote but doubled ones (`PatternsWhole`); init_exec does not see to that. That the length of a string is a number is
nothing the provers know, so `TextSelect` has it as an antecedent (`WidthsKnown`) of what it says of
lengths; of readability it says what it says without.

*Induction.* The proof system cannot instantiate a theorem over an operator, so
`Recursion` states induction on sets: a set of numbers that has 0 and with each the next
has them all. It follows from the well-foundedness of < in the library. `LoopExists` gives the
existence of a function defined step by step, without which nothing can be said of a
recursive function of the model.

*Only model-checked.* Of `InstructionsFollowText` that tokens are the
longest words of a text (strings); `SpecText`, whose properties compare the code with definitions
of tables by long folds and filters of sequences, for whose operators the library has no
theorems; `Ficl`, whose dictionary is walked by RECURSIVE operators, which the
prover cannot see; `AcceptedIsLoaded` and `Settles`, which are liveness; and the three violations.

## 5. Plan

1. Done: everything in the table of modules.
2. Interactive indexing with the defaults of `-u`, and what becomes of the fields a row had before.
3. The crawler, should it be finished.
4. Proofs: the parts of `SpecText` that are state rather than language (`ReleasedOnce`,
   `CutOffKeepsWhole`), from `Automaton` on as for queries.

## 6. Not modelled

*Interactive indexing* (`indexing.c` 384-608). `ask_for_fields` asks and reads lines in
turns with nobody else, and reading it answers the questions a model would put: the loop for
`oth_` columns tests `hasoth` where it means `otherm`, and each answer that replaces a default is
freed twice. The defaults of `-u` belong to it.

*The crawler* (`crawler.c`): frames and a stack that no program uses; most of its steps are
not written.

*Wrappers and I/O*: `fregex.c` over regcomp, `error.c`, `debug.c`, reading tags in the music
plugin, the reading of a grammar file and the writing of C in `lemon.c`.

*`ficl/`*: files, text output, pictured numbers, prefixes, the environment, the debugger, and
the words of softcore written in FORTH, which is generated text behind a decompressor.

*Not built*: `dbspectok.c`, `dspparser.y`.

Facts that were met and no property needs:

- `dbinit.c` 975-976: when the last UPDATE of rmcat fails, `tcfd` and `ttbl` are freed and
  then freed again.
- `indexing.c` 115: INSERT OR REPLACE writes `ctime` too, so that it is the time of the last
  indexing.
- `findex.c` 144: `-f` sets `forceit`, which nothing reads.
- `query.c` 356: `US_FILE` (0xF) contains `US_DYNA` (0x8), so that a mapped file would be freed.
- `refcount` (doc/TABLE_FORMAT 68) counts creations: a catalogue made again counts twice.
- `qtokenise.c` uses isspace and numbers as C reads them; \v, \f and overflow are left out.

Limits of what the properties say: `ListsIntact` is checked on sessions that do not define a
word inside a definition, do not forget inside one, and forget only from one list. Memory that runs
out is a failure only where a property is about it.
