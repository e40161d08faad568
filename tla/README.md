# A TLA+ model of mjc

mjc compiles MiniJava (a subset of Java) to x86-64 assembler. The compiler is
one sequential C++ program: a lexer, a recursive-descent parser, a semantic
analysis over the syntax tree, a visitor that builds the SSA graphs of libfirm,
two optimisation passes over those graphs, instruction selection onto stack
slots, and peephole passes over the assembler text. What makes it hard is order:
blocks that must be closed after their last predecessor is known, memory
operations that must stay in one chain, Phis that are assigned at once in SSA
and one after the other in code, worklists over cyclic graphs, an undo log that
must restore exactly what was there, a printer with a flag that outlives the
expression that set it, and nine assembler passes each of which removes what the
previous one made look unused.

Beside the compiler the repository keeps the fuzzer that tests it
(`fuzzing/afl_fuzzer/afl`). That program is concurrent: it talks through pipes
to a fork server inside the instrumented compiler, which starts, continues and
reaps children, while a timer and a stop signal may arrive at any moment;
several fuzzers read each other's queues as files.

This directory models these parts, checks them with TLC on small but complete
families of inputs (all files, texts, programs, graphs or blocks up to a size;
all interleavings), and proves with TLAPS, for every size, what nine of the
modules promise: the symbol table and the visitor that drives it, the walk over
a graph, the removal of functions, and five parts of the fuzzer (section 4).

Source paths below are relative to `src/src/` of the repository for the
compiler, and to `src/fuzzing/afl_fuzzer/afl/` for the fuzzer.

## 1. Inventory

| Part | State | Operations | What makes it correct | Module |
| --- | --- | --- | --- | --- |
| Lexer (`lexer.*`) | buffer, position, line state, line/column, line offsets, token under construction, look-ahead queue | `nextToken`, `lookAhead`, `nextChar`, `readIntoBuffer`, token readers, `getCurrentLineFromInput` | longest tokens, exact positions, quoted lines match positions, queue order, termination | `Lexer` |
| Parser (`parser.*`) | current token | one method per nonterminal, precedence climbing, look-ahead | accepts the language and builds the tree the grammar gives | `Parser`, against `Grammar` |
| Syntax tree (`ast.*`) | nodes, types | construction, comparison and sizes of types, sorting of members | - | `Ast`, `TypeCheck` |
| Pretty printer (`pprinter.hpp`) | the flag `requireParenthesis` | one visit per node | its output is the same program, and printing it again changes nothing | `PrettyPrinter` |
| Symbol table (`symboltable.*`) | per symbol: definition and scope; undo log; scope stack | `insert`, `enterScope`, `leaveScope`, queries | lexical scoping, no pointer to a freed scope | `SymbolTable`, `ScopedEnv` |
| Semantic analysis (`semantic_visitor.*`) | current class/method, numbering of variables, types of nodes, the symbol table | one visit per node | names mean what Java says; exactly the well typed programs are accepted; every path returns; dead code is erased | `SemanticScopes`, `TypeCheck` against `Typing`, `StmtLowering` |
| FirmVisitor (`firm_visitor.*`) | current block, immature blocks, stack of "bool required" contexts, the store, values not yet loaded | one visit per node, `remove_critical_edges`, class layout | the graph behaves like the statements and expressions, whatever order its edges leave open | `BoolLowering`, `StmtLowering`, `FirmMemory` against `JavaEval` |
| Pass frames (`firm_pass.hpp`) | visited marks, worklist | `init_topological`, `run`, `enqueue` | every node once, operands first, termination | `FunctionPass`, `UnusedFn` |
| Constant propagation (`const_prop_pass.hpp`) | lattice value per node, marks per edge | transfer functions, marking, substitution | same values along the same edges; termination | `ConstProp` |
| Unused functions (`unused_fn_remove_pass.hpp`) | worklist, referenced graphs | visit, erase | kept = reachable by calls from main | `UnusedFn` |
| Phi lowering (`asm_pass.cpp`) | slots, tmp slots, copies per block | `visitPhi`, `generateNormalPhi`, `generateSwapPhi` | after any path, each Phi's slot holds its SSA value | `PhiLowering` |
| Instruction selection (`asm_pass.*`), peephole passes (`asm_optimizer.*`), instructions (`asm.*`) | instruction lists per block | one visit per node; `AsmJump-`, `Simple-`, `Mov-`, `Stack-`, `Array-`, `Alias-`, `ArithOptimizer` | each pass keeps the effect of the block | `Asm`, `AsmOptimizer` |
| Stack slots (`asm_pass.hpp`) | offset per node, next offset | get, copy, set, tmp | values have slots of their own inside the frame | planned |
| Driver (`compiler.*`, `main.cpp`, `optimizer.hpp`) | options | stages, order of passes, error handling | errors are reported and give exit code 1 | stages in `FrontEnd`, order of passes in `AsmOptimizer` |
| Running a target (`afl-fuzz.c`, `llvm_mode/afl-llvm-rt.o.c`, `afl-showmap.c`, `afl-tmin.c`, `afl-analyze.c`) | pids, pipes, timer, shared bitmap, stop flag | `init_forkserver`, `run_target`, `__afl_start_forkserver`, `__afl_persistent_loop`, `handle_timeout`, `handle_stop_sig` | a verdict is about its own input; no child is left over; every run ends | `AflForkServer` |
| Queue (`afl-fuzz.c`) | entries, `top_rated`, counters, virgin bits | `calibrate_case`, `update_bitmap_score`, `cull_queue`, `trim_case`, `save_if_interesting`, the choice in `fuzz_one` | the favored entries cover everything; counters are exact | `AflQueue` |
| Mutation (`afl-fuzz.c`) | effector map, dictionaries, buffers | bit and byte stages, arithmetic, interesting values, tokens, havoc, splicing | nothing is skipped that was not run; every access in its buffer | `AflStages`, `AflDictionary`, `AflHavoc` |
| Shared queues (`afl-fuzz.c`) | `.synced` files, directories | `sync_fuzzers` | what counts as seen was run | `AflSync` |
| Minimizer (`afl-tmin.c`) | the file, block sizes, pass | `minimize` | the result behaves the same and no byte of it can go | `AflTmin` |
| Runtime (`runtime.c`), dot output, wrappers and instrumentation of AFL, libFuzzer, tests | - | - | - | not modelled |
| libfirm | graphs | block and node construction, edges, verification | - | external definitions |

In the compiler, interaction is by calls in one direction (lexer <- parser <-
driver -> analysis -> FirmVisitor -> passes -> assembler). The state shared
between components is the symbol table, the lexer (asked again for a line when
the analysis reports an error), the syntax tree (the analysis sorts members,
erases statements and numbers variables that FirmVisitor reads), and the Firm
graphs. In the fuzzer, processes share two pipes, a bitmap, the test case file
and directories, and signals cut into any of its steps.

The hard behaviours are listed at their lines under `hazards` in
`PROJECT.json`, each with the properties that cover it or the reason why none
does.

## 2. Modules and their correspondence to the code

### Front end

**`Lexer`** is `lexer.cpp`: one step per turn of a scanning loop; the parser is
the caller that takes `NextToken` and `LookAhead` steps. Every file over an
alphabet up to a length is an initial state of the run. Characters have names
(`"SLASH"`, `"SP"`); four letters and two digits stand for all of them. `Blank`
(the least set of offsets that blanks and comments lead to), `IsToken`, `LineOf`,
`ColumnOf` are the reference definitions, written over the file as a whole.

**`Ast`** holds the nodes. **`Parser`** has one operator per parse method, from
a position to a node and a position; position 0 is the `ParseError` that ends
the parse. **`Grammar`** is what it is compared with: the set of trees of a
range of tokens, by the productions of `doc/grammar.txt`. One production is not
taken from there: lines 12-13 ask for a comma after every parameter, the last
one included, which the parser refuses (`parser.cpp:181-206`) and which neither
Java nor the document's own rule for arguments has. It is taken for a misprint,
and `ParameterLists` puts commas between parameters, as the parser does.
**`PrettyPrinter`** yields the tokens of the printed text; every visit takes and
returns `requireParenthesis`. 

**`TypeCheck`** is the typing part of `SemanticVisitor` with `sem::Type` and its
comparison, one operator per visit of an expression or statement and one action
per class and method, in the visitor's order, with errors and failing
assertions (`verdict = "crash"`). **`Typing`** says when a program is well
typed, over the whole program and in no order.

**`FirmMemory`** is the part of FirmVisitor for variables, fields, arrays,
calls, `System` and allocation: each statement adds nodes with data and memory
edges; objects are laid out in bytes. Then the graph runs: any operation whose
operands are there may be next. **`JavaEval`** evaluates the same statements
from left to right over objects.

**`FrontEnd`** composes these: a text is parsed, and by the option printed and
read again, checked, or checked, translated and run.

**`ScopedEnv`** is the abstract specification of a symbol table: a stack of
frames. **`SymbolTable`** is `symboltable.cpp`: symbols hold the current
definition and the address of the scope it was made in, `Insert` saves both in
a change, leaving a scope pops changes one by one (`LeaveScope`, `PopChange`,
`FreeScope`: the destructor of a change restores the symbol, so each pop is a
step). Addresses of freed scopes can be reused. The refinement mapping rebuilds
the frames from the undo log (`Frames`). **`SemanticScopes`** extends
`SymbolTable` and drives it as `SemanticVisitor` does, node by node.

### Middle and back end

**`StmtLowering`** follows a method through four stages: the parser reads the
statements, the analysis computes which of them always return and erases what
follows, FirmVisitor builds blocks (adding predecessors and maturing them, one
step per statement begun or finished), `remove_critical_edges` scans and splits.
Then the resulting graph and the original statements are executed side by side.
Expressions are events; conditions are `true`, `false` or decided at run time.

**`BoolLowering`** is boolean expressions in value and in branch context, with
the order in which predecessors are added to libfirm's immature blocks, since
that order is the order of Phi operands. The blocks are executed and compared
with short-circuit evaluation.

**`FunctionPass`** is the walk of `firm_pass.hpp`; its recursion is a stack of
frames. **`ConstProp`** extends it: first the walk, then one step per visited
node, then the substitution, then the method runs twice, before and after. Out
edges come in either order, since libfirm fixes none. Nodes have
no memory operand (the memory that `substituteNode` leads around a folded Div or
Mod is left out), Not is left out since FirmVisitor builds none, and a Conv keeps
the value: FirmVisitor divides in long and converts back, the model wraps the
quotient at once. **`MC_Passes`** builds the graphs, among them divisions of the
smallest int by -1. **`UnusedFn`** is `unused_fn_remove_pass.hpp` with the worklist of
`ProgramPass`.

**`PhiLowering`** is `visitPhi`: one step per Phi, in the orders the worklist
may produce; then the copies are executed along any path next to the meaning of
SSA. **`Asm`** defines instructions and a machine whose values are terms (so
that two blocks are equal exactly if they compute the same terms).
**`AsmOptimizer`** selects the instructions of one block from a sequence of
nodes, and runs the passes in the order of `lowerFirmGraphs`, one step per pass.
Methods are called with one parameter; further ones repeat its instructions. When
the mov that a pass removes is the last instruction, the code goes on with the
erased element (`asm_optimizer.cpp:330-334`); the model stops there.

### Fuzzer

**`AflForkServer`**: the fuzzer, the server, the children, the timer and the
signal are actors; every system call that another actor can observe (a write to
a pipe, a read from one, a fork, a kill, a waitpid) is a step of its own. The
number of a run stands for its input and for the marks it leaves in the bitmap,
so that a verdict about the wrong input shows. Seven modes: fork server,
persistent, no server, `run_target` of afl-tmin and afl-analyze, and of
afl-showmap, which runs once, with a timeout and without. Without `-t`, its
default, afl-showmap sets no timer (`afl-showmap.c:272`, mode `untimed`). An
outcome `crashed` is what the tool at hand takes for a crash, with the exit codes
that afl-tmin after `-x` and afl-analyze count among them.

**`AflQueue`**: traces are functions from bytes of the bitmap to classes;
calibration, scoring, culling, trimming, saving and the choice of the next
entry, with a target whose trace may vary. A session that goes on with an old one
starts anywhere in the queue (`find_start_position`); with `AFL_IMPORT_FIRST`
(`import_first`) the finds of other fuzzers are imported between the first cull
and the first `fuzz_one`, which a signal during the import does not prevent. The
ghost `hit` holds the bytes by which an entry was scored: those of the last run of
a calibration and of its trimming. The comment at `afl-fuzz.c:1222` speaks of all
bits seen, which for a variable target are more. **`AflStages`**: a run is the set of
bits it inverts; every skip (`could_be_bitflip`, `could_be_arith`,
`could_be_interest`) is checked against what was run before.
**`AflDictionary`**: buffers are sequences; tokens are collected while last bits
are inverted and then written over or into the input. The entry is the first one
of a session that brings no found tokens along, so that what was found is what
this entry showed; parsing of dictionary files is left out, and the limits of
`config.h` are not 0. **`AflHavoc`**: lengths and ranges only; any token may be
drawn. **`AflTmin`**: the target is any deterministic function, revealed file by
file. **`AflSync`**: one step per file met; the other fuzzer creates, fills and
replaces files in between, or leaves one that is too large, which counts as seen
and is not run, like one that cannot be opened. The reading fuzzer may be stopped at any time, also
in the middle of a scan, and started again: `maybe_delete_out_dir` then deletes
`.synced` (`afl-fuzz.c:3671`) and it looks at every file anew. That the other
fuzzer starts over with new numbers is left out.

### Instances

Modules `MC_*` hold the constants too large for a cfg. Where one instance
answers the questions of several machines (`MC_Symbols`, `MC_Passes`,
`MC_FirmVisitor`, `MC_Backend`, `MC_AflRuns`, `MC_AflInputs`) the initial state
chooses a machine, and the others stay in one initial state. The modules that
theorems are about are extended there, so that TLC evaluates their assumptions
and checks the very definitions that are proved; the others are instantiated.
These are not compositions; the compositions are `SemanticScopes` (visitor and table),
`FrontEnd` (parser, printer, analysis, translation), `StmtLowering` (parser,
analysis, FirmVisitor) and `AflForkServer` (all its processes).

`PROJECT.json` maps every definition to its lines. The operators listed under
`mutants`, each defined before the definition it varies, are plausible slips in
the code (a dropped guard, an off-by-one, an exchanged order); replacing the
original by one of them makes the named property fail.

## 3. Runs

| Run | Instance | Result |
| --- | --- | --- |
| `symbols` | the table: 2 names, 2 definitions, 3 addresses, 4 changes; the visitor: 2 names, 2 parameters, 3 variables, 2 nested blocks, 4 addresses | holds |
| `lexer` | files of up to 5 characters over a letter, tab, CR, LF, a non-ASCII byte; of up to 5 over operators, comment delimiters, LF, 0xFF; of up to 4 over letters, digits, blank, bracket, comment delimiters, an illegal character; buffer of 2 bytes | holds |
| `front_end` | every expression of up to six tokens, families of statements, members and classes; families of typed programs; families of straight-line methods; the largest int is 7 | holds, with the exceptions below |
| `firm_visitor` | 1625 expressions x 3 uses x 8 inputs; all methods of up to 5 statements; of up to 7 with ifs, loops and endless loops | holds, except for the case of the next run |
| `bool_lowering_not` | the same expressions | **violated**, see below |
| `passes` | 600 graphs of an if in a loop, 16 that divide the smallest int by -1, 192 of nested loops, both edge orders, 2-bit ints; all 9261 programs of main, 2 methods, 1 builtin, at most 2 calls per body | holds |
| `backend` | nested loops, 3 Phis in the outer and 2 in the inner one, 3 visiting orders; seven families of blocks of 1 to 4 nodes, up to 3 Phis, each way to end a block | holds, except for the case of the next run |
| `phi_swap_reinit` | the same loops | **violated** |
| `asm_calls` | blocks with two runtime calls | **violated** |
| `afl_runs` | 3 runs and 3 processes in each of 7 modes; 4 files of 3 and 4 bytes and any deterministic target; 3 files of another fuzzer | holds |
| `afl_inputs` | 2 bytes of bitmap and 3 entries; bytes of 5 bits and inputs of up to 8 bytes; 3 files with 3 dictionaries; files of up to 9 bytes with 4 kinds of entry | holds, with the exception below |
| `sync_missed` | 2 files of another fuzzer | **violated** |

What the runs show, by question:

* *Scopes.* `RefinesScopedEnv` and `QueriesAgree`: whatever the order of
  calls, the undo log is lexical scoping and "defined in the current scope" is
  answered rightly even when an address is reused (`NoDanglingScope`).
  `NamesMeanInnermost`, `ReferencesUsable`: the visitor's calls balance and give
  the names of a class their Java meaning.
* *Tokens.* `TokensTileFile`, `PositionsExact`, `ErrorsJustified`, `CallsReturn`.
* *Texts.* `ParsesLanguage`: the parser accepts exactly the texts of the grammar
  and builds their tree (`Grammar` deviates from `doc/grammar.txt` in one
  production, section 2). `PrintIsIdempotent`, `PrintKeepsProgram`: what
  `test/ast_idempotency.sh` asks of `--print-ast`, and that the output stands
  for the same program.
* *Types and memory.* `AcceptsWellTyped`: accepted exactly if well typed, however
  the representation of a type came about. `SameMemory`: in every order that the
  edges allow, the same calls, traps, objects and result as Java.
* *Statements and conditions.* `SameBehaviour`, `ShortCircuitCorrect`: the graph
  does what the statements and conditions do, endless loops and returns in
  branches included. `NoCriticalEdges`: what Phi lowering relies on, also in
  loops that never end and in code that is never reached.
  `OneWayOut`, `BlocksStayClosed`: the protocol of immature blocks is kept.
* *Passes.* `OperandsFirst` for the walk; `ValuesPreserved`, `TakenEdgesKept` for
  constant propagation; `KeptIsClosed`, `KeptIsLeast` for the removal of
  functions; `WorklistsEmpty` for both.
* *Code.* `PhisCorrect`; `SameEffect` after every assembler pass; `Encodable`: no
  pass builds an instruction the machine does not have, or counts down from the
  size of an empty block.
* *Fuzzer runs.* `VerdictTrue`: "no fault", "crash" and "hang" are said of the
  input they are about, however the end of the child, the timer and the messages
  are ordered. `OneChild`: nobody is left unreaped or running between two runs.
  `RunsEnd`: every request ends, by the timer if need be; in afl-showmap without a
  timeout, if the child ends. `TminMinimal`: no byte of a minimized file can
  go, including those that the comparison of neighbouring blocks skipped.
  `SyncedWasRun`: what `.synced` counts was run since the fuzzer was started,
  unless it is too large or changed under the scan.
* *Fuzzer inputs.* `FavoredCover`: when an entry is taken up, favored entries hit
  every byte by which an entry was scored. (The one exception are entries that
  `AFL_IMPORT_FIRST` brought in before the first entry, which nothing has culled
  yet; the entries of before are covered also then.) `QueueConsistent`,
  `PendingExact`: over any order of calibrations, trims and finds, for a target that varies;
  `SkippedWasTried` for the deterministic stages; `TokensAreRows` and
  `OneTokenEach` for tokens; `HavocInBounds` for stacked tweaks and splices.

### Disagreements between the code and what it says

Each is a run that must fail, with the line it contradicts in `findings`:

1. `bool_lowering_not`: `!` of `&&` or `||` used as a value builds a Phi with two
   operands in a block with three predecessors.
2. `phi_swap_reinit`: swapped variables that are reset to constants before an
   inner loop are reset only once, in the start block.
3. `asm_calls`: the mov passes assume that a call leaves registers alone.
4. `sync_missed`: a file that is empty at the moment `sync_fuzzers` meets it
   counts as seen and is never run.

Properties that hold only with an exception name it:

* `ShortCircuitCorrect` leaves out finding 1, `PhisCorrect` swaps that start
  outside the predecessor block (finding 2) and those at which an assertion of
  `generateSwapPhi` (`asm_pass.cpp:692`) stops the compiler;
* `ParsesLanguage` leaves out `SignedPostfix`: a minus before a literal becomes
  its sign, also when a postfix follows, where the grammar applies the minus to
  the whole;
* `PrintKeepsProgram` leaves out `OperatorUnderPostfix`: the printer writes no
  parentheses around an operator to the left of `.` or `[`;
* `AcceptsWellTyped` leaves out `StraySystem`: `System` anywhere but before
  `.out.` or `.in.` and a call;
* `SkippedWasTried` leaves out rows of bits across bytes: the comment at
  `afl-fuzz.c:4704` says that patterns of 1, 2 and 4 bits "are OK anywhere", but
  bits are flipped from the most significant one on, so that the row that a
  number makes across two bytes is not one that was flipped.

Marks on edges can go from taken to untaken, which the comment at
`const_prop_pass.hpp:88-90` rules out; the result is still right
(`ValuesPreserved`).

### Bounds

The bounds keep every case the code distinguishes. Two names and three scope
addresses suffice for shadowing and reuse of an address; four changes for a
name declared in three scopes. Three Phis give lost copies, swaps and a
rotation. A peephole pattern spans at most four instructions, which two nodes
already produce; the families with three and four nodes add the interplay of
passes. Five statements contain every pair of nested control structures with
code before and after; seven contain three levels. Two-bit ints have overflow,
a smallest number without a negative, and 0. A buffer of two bytes is
refilled in the middle of every token, comment delimiter and line break. Six
tokens contain two operators with a prefix or parentheses between them; with
7 as the largest int, 7, 8, -8 and -(8) are literals at the edge.

Three runs contain the first, one whose predecessor timed out, and one after a
kill; three processes a server's child that is replaced twice. Three files let
a scan meet them out of order and be cut short between two. Two bytes of bitmap
let an entry lose one byte and keep another; 5-bit bytes have all the carries,
signs and byte borders of 8-bit ones, with `ARITH_MAX` and the interesting values
scaled along, and leave a gap between the two. `MAX_FILE` of 9 is reached by two
insertions.

### Fairness

The compiler is one thread, so a loop that can go on does: weak fairness of the
steps of the loop in question, and nothing else (the pass steps in `MC_Passes`,
the scanning steps of `Lexer`). The caller of a component is never assumed to
call. In `RunsSpec` the fuzzer, the server and the timer are weakly fair, since
the kernel schedules processes that can run and a timer that is set expires;
children are not: a child may hang for ever, and the timer must deal with it.
Where none is set (afl-showmap without `-t`) nothing is assumed to expire.

## 4. Proofs

Each theorem below states a property that a run checks, or the type invariant of
its module, for every value of the constants that the named assumption allows.
The properties are not inductive as they stand; what is added, and why, is said
for each. TLC checked the inductive invariants on small instances before they
were proved. The layout is the same everywhere: lemmas about what an operation
does to the data, one lemma per action that uses only those, and a last step by
temporal logic.

| Theorem | Property | For any |
| --- | --- | --- |
| `LexerProofs`: `TokensTile`, `PositionsHold`, `ErrorsHaveReasons` | `TokensTileFile`, `PositionsExact`, `ErrorsJustified` | file, size of the buffer, length at which a quoted line is cut, keywords, pattern of calls |
| `SymbolTableProofs`: `TypeCorrect`, `NoDangling`, `QueriesCorrect` | `TypeOK`, `NoDanglingScope`, `QueriesAgree` | names, definitions, addresses, length of the undo log |
| `SymbolTableProofs`: `ImplementsScopedEnv` | `RefinesScopedEnv`, the refinement | the same |
| `SemanticScopesProofs`: `NamesResolve`, `ReferencesResolve` | `NamesMeanInnermost`, `ReferencesUsable` | fields, parameters, variables, nesting |
| `PassProofs`: `TypeCorrect`, `KeptClosed`, `KeptLeast` | `TypeOK`, `KeptIsClosed`, `KeptIsLeast` | program, recursive or not |
| `PassProofs`: `WalkIsTopological` | `OperandsFirst` | graph, whatever its cycles |
| `StmtLoweringProofs`: `BlocksClosed`, `NoCritical` | `BlocksStayClosed`, `NoCriticalEdges` | nesting of statements, conditions, returns |
| `PhiLoweringProofs`: `PhisLowered` | `PhisCorrect` | graph in SSA form, Phis, order of visits, path |
| `AflRunsProofs`: `VerdictsTrue`, `AtMostOneChild` | `VerdictTrue`, `OneChild` | number of runs and processes, all modes |
| `AflRunsProofs`: `MinimizesToTheByte` | `TminMinimal` | file and deterministic target |
| `AflRunsProofs`: `SyncedRun` | `SyncedWasRun` | number of files, scans, order of `readdir` |
| `AflInputsProofs`: `HavocStaysInBounds` | `HavocInBounds` | lengths, tokens, number of tweaks and splices |
| `AflInputsProofs`: `OneToken`, `RowsFound` | `OneTokenEach`, `TokensAreRows` | input, tokens, paths, limits of the dictionaries |
| `AflInputsProofs`: `FavoredCovers`, `QueueStaysConsistent`, `PendingCounted` | `FavoredCover`, `QueueConsistent`, `PendingExact` | bitmap, queue, traces, speeds |

**`LexerProofs`.** The properties speak of whole tokens and whole files, the steps
of one character in a buffer. `LexInv` has one part for each layer. `ReaderInv`:
the buffer is the part of the file behind its offset, with the sentinel when it
reached the end, and last character, line, column, state of the line break
automaton and the remembered starts of lines are those of the offset, so that a
refill between CR and LF changes nothing. `Tiled`: the tokens delivered tile the
file up to that offset. `Phase`: what each loop has read since: blanks only, a
comment that has not ended, the beginning of a token (`Spelled`), or the reason
for an error. `Queued`: what was shown is a prefix of the queue, and an active
`lookAhead(n)` comes after the answer to `n - 1`. That a reader that stops has read the
longest token (`SpelledMaximal`) comes from the table of operators: whatever
has a token as a proper beginning goes on with a character the reader would have
taken. The quoted line is a recursive function over offsets, followed with the
least element principle. Assumptions: the buffer and the cut are not empty
(`BufferAssumption`); files consist of the named characters and keywords are
words (`TextAssumption`).

**`SymbolTableProofs`.** A change may save a scope that is live now and freed
before the change is undone, so that neither the absence of dangling pointers
nor the answers of the queries are inductive. `IInv` adds `LogPartitioned` (the
marks of the scopes split the log into segments), `AddrsDistinct` (two live
scopes have two addresses) and `BindingsExact`: the pair that a symbol caches
belongs to the last change of that symbol in the log, the pair that a change
saved to the last one before it. One lemma per action says what it does to the
sequences (`EnterEffect`, `InsertEffect`, `PopEffect`, `FreeEffect`). The
refinement shows that `Frames`, the frames rebuilt from the log, changes by a
step of `ScopedEnv` in `Insert`, `EnterScope` and the last step of leaving, and
not at all when a change is popped. Assumption: the null values are no
definitions or addresses (`NullsAssumption`).

**`SemanticScopesProofs`** builds on these lemmas. `VisitInv` says which calls
the visitor still has to make of the table (`Pending`: the inserts for the
declarations that the table lacks, or as many leaves as there are scopes to
leave), that the height of the scope stack is the one that the place in the
program calls for (`HeightExact`), that a declaration's level tells the scope
whose segment holds it (`LevelsExact`), that definitions, cached and saved, are
those of the last declaration (`MeaningsExact`), and that declarations in scope
have been counted (`DeclsCounted`). Assumption: no class has two fields of one
name (`VisitorAssumption`; the analysis reports them before).

**`PassProofs`.** For the removal of functions `IInv` is the invariant of a
graph search: callees of visited functions are visited or queued (`Frontier`),
and what is found is in every closed set that contains main (`Needed`). For the
walk of `FunctionPass`, whose recursion is a stack of frames, `WalkInv` says
that the marked nodes are the initialised ones and the active Phis and Blocks
(`MarksExact`), that one of those is active once (`BreakersOnce`), while another
node may be active several times, and that the operands a call has passed are
marked, or visited right above it (`CallsPassed`).
Assumption: operands and blocks of the nodes of a graph are nodes of it, and
`End` is there (`MethodsAssumption`).

**`StmtLoweringProofs`.** What keeps a block closed is decided long before: an if
in the middle of a method leaves a join block and tasks for later, and
whether the last of them still jumps depends on what the analysis said of a
branch. `LowInv` therefore speaks of the list of tasks, not only of the graph.
`SourceOK`: children are statements of the method, missing only where the grammar
allows it. `SemaOK`: children are visited before their parent, and of the statements
that a block keeps only the last may return, which is the point of erasing what
follows a return. `LowerOK`: the graph is typed; every task fits what is behind
it (`Fits`: behind a jump a block is set; behind a statement that returns, nothing
demands an open block; no task behind the one that matures a block adds a
predecessor to it); a block that will be set has no exit yet, and the current
block has none if the next task demands one (`Open`); every block is mature, is
yet to be set, or is the header of a loop that has not ended (`Matured`). Each
action takes the first task and puts others in front of the rest, so the lemmas
go task by task (`Chain`), and one fact about all of them (`Grown`) says which
blocks got an edge and which got code. Assumption: the kinds of statements the
parser chooses from are well-formed (`FamiliesAssumption`); the proof bounds
neither their number nor the depth.

`NoCriticalEdges` needs a second invariant, `FlowInv`, because
`remove_critical_edges` decides by counts that a search backwards from the end
block and the kept blocks makes: a block the search misses is not counted, and
an edge beside its edges then looks harmless. So the proof is that nothing is
missed. `LeadOK`, while the graph is built: from every block that has been
entered a way leads to the end block, to a block kept alive, or to a block where
code still goes on, the current one or one that a task will make current.
"A way leads into X" would be an induction over paths; it is said with
sets instead (`Leads`: such a block is in every set that contains X and, with a
block, its predecessors). For this, code must go on somewhere behind each
statement that does not return (`AllGoOn`), which follows from what the analysis
found out (`CfbOK`: an if goes on if a branch does, a block that returns ends
with a statement that does). When construction ends nothing is unfinished, and
`keep_alive` in every loop has covered the ways that end nowhere. `ScanOK`: what
the search has counted has its predecessors counted or in the queue, and a block
with two ways into counted blocks has a count of two. `SplitOK`: such counts stay
right while edges are split, in any order of blocks, since a new block has one
way in and one out. The filters of the model are recursive functions; what they
select is proved along them (`Filtered`). That the predecessors of a block with
Phis have no other way out, which `PhiLoweringProofs` assumes, rests on this.

**`PhiLoweringProofs`.** Between the start of a block and its last move a slot may
hold the new value of one Phi and the old value of another, so the invariant
speaks of whole blocks. `MovesWellPlaced`: the moves at the end of a block write
Phis of the one block it jumps to, those at its start copy its own Phis.
`MovesComplete`: both moves of every Phi visited are there, and the copy if one
is due. `Running`: nodes other than Phis hold their value; a Phi, and its copy if
a Phi reads it, do so wherever the block of the Phi dominates. The step is the
argument about parallel copies: the moves of an edge may come in any order and
repeat, because each reads only what none of them writes (Phis are read from
their copies), so what a slot holds at the end is what its move read at the
start. The sequence of moves is a recursive
function, whose equation is proved by hand. Assumption
(`PhiLoweringAssumption`): the graph is in SSA form, so that the block of an
operand dominates the predecessor it comes from; a block with Phis has two
predecessors that end in a Jmp, which `remove_critical_edges` provides.
`PhisCorrect` excludes the methods of the finding about swaps.

**`AflRunsProofs`, the fork server.** `ForkInv` is the joint state of fuzzer and server:
where the server can be while the fuzzer is at a given call (`InStep`), what the
two pipes hold then (`PipesInStep`), who is the child and what it has done
(`ChildInStep`, `PidInStep`, `Progress`), and that between two runs there is no
child, or one that stopped itself and of whose death by a late alarm the server
will be told (`Parked`): this is why `prev_timed_out` is sent with the next
request. Nothing is claimed after a stop signal, whose handler kills child and
server wherever they are.

**`AflRunsProofs`, the minimizer.** `TminInv`: in the last deletions of a pass, whose blocks
are single bytes, the file without any byte before the position was run and
refused (a byte that equals its neighbour gives the same file, which is why the
skipped run is covered), and what was refused counts for the present file
as long as the pass changed nothing (`DeleteStep`); a pass that changed nothing
therefore refused every deletion. That deletions end with blocks of one byte
needs that `next_p2` yields a power of two and that halving one ends in 1, which
is proved by hand from the equation of `pow2`.

**`AflRunsProofs`, shared queues.** The property is about files below `synced`, which jumps at
the end of a scan; the strengthening says what a scan still owes: `NumberedInOrder` (no
file, replacement or mark is at or beyond the number of files created) and
`Pending` (during a scan every file from `min_accept` on was run, has changed, is
too large, or lies there full and `readdir` has yet to return it); a scan goes on
only while the fuzzer is up (`OnlyWhileUp`).

**`AflInputsProofs`, havoc.** `HavocInv`: the lengths of input and buffers with the
places where one is replaced by the other, and `Scores`: the number of cycles
grows in proportion to the score, whose doublings are bounded.

**`AflInputsProofs`, the queue.** `QueueInv` holds of the entries and the table of winners
together: references are exactly the bytes won (`RefsExact`), what was won or is
in a small trace was seen and what was seen has a winner (`SeenExact`), and as
long as `score_changed` is not set the favored entries cover all of it
(`Covered`); where the loop stands (`CurExact`), which file may be longer than
its entry (`FilesExact`), which entries have a checksum (`CalibrationExact`).
Between the cull and `fuzz_one` an import may set `score_changed`; what is kept
then is that the favored entries cover those that the cull saw
(`CulledCovered`), because an imported entry is neither favored nor marked
redundant and leaves the others as they were (`OthersKept`).
`MiniExact` answers the question that the code leaves open. `cull_queue` adds to
its counters whenever it favors a winner, and would count one twice if the small
trace of the winner missed one of its bytes. This does happen: after trimming,
an entry is scored with the trace of its checksum, but keeps the small trace of
an earlier run. But then it is fuzzed before the next cull, so that
`pending_favored` counts it no more, and only `queued_favored`, a statistic, may
be too high. The loops over the bitmap are recursive functions; their invariants
(`ScoresKept`, `CullsKept`) are proved along the loop from the least element
principle (`UpTo`), since the induction theorems of the library cannot be
instantiated. Assumption: sizes are natural numbers, and the bitmap and
`CAL_CHANCES` are not 0 (`QueueAssumption`).

**`AflInputsProofs`, dictionaries.** `OneTokenEach` rests on the order of the
tokens: a position is restored by the length of its last token only, so every
token must cover what the shorter ones before it wrote. `DictInv` says that both
dictionaries are in that order as far as they are used (`AutoOK`: `maybe_add_auto`
sorts by use and then the first `USE_AUTO_EXTRAS` by length, and adds after that
only by sorting again), and `Filled` is the invariant of the loop over the tokens
of one position. For `TokensAreRows`, `RowsInv` describes the collection between
two bytes: `Open` (the last path, the length of the row that it ends and the bytes
of it as long as they fit) and `Full` (the dictionary has, up to letter case, each
token of the rows that have ended, once, unless there are more of them than it has
room for: a token is evicted only when `MAX_AUTO_EXTRAS` others are there, which
together with the new one are too many). `SortedPerm` shows that sorting only
permutes. Assumptions (`DictAssumption`): inputs and tokens of the user are not
empty, as `afl-fuzz` refuses or skips empty ones, and `MIN_AUTO_EXTRA` is at
least 2 (3 in `config.h`): a row of one byte at the end of the file would never be
collected. `MAX_AUTO_EXTRAS` and `USE_AUTO_EXTRAS` are not 0.

Only model-checked:

* liveness (`CallsReturn`, `WorklistsEmpty`, `RunsEnd`): fairness is out of the
  prover's reach;
* everything in `Parser`, `Grammar`, `PrettyPrinter`, `TypeCheck`, `Typing`,
  `FirmMemory`, `JavaEval`, `FrontEnd`, `BoolLowering` and `AsmOptimizer`:
  RECURSIVE operators over trees and sequences, and what a recursion computes
  for every tree needs induction over data;
* `ValuesPreserved` and `TakenEdgesKept` of `ConstProp`: the worklists give up a
  node when its value or a mark goes back, so that the fixed point they end in
  depends on the order of visits, for which there is no invariant short of the
  history of the queue;
* `SkippedWasTried` of `AflStages`: arithmetic on powers of two and folds over
  sets of bits;
* `SameBehaviour` of `StmtLowering`: it compares two runs that may be endless,
  which takes a simulation over the tree of statements, and the proved
  invariants say nothing of which block belongs to which statement.

## 5. Abstractions and omissions

* Front end: names are ranks in the order of strings; locations and wording are
  left out. The driver creates the lexer and the parser before its `try`, so an
  error in the very first token ends up in `main`; exit codes are not modelled.
* Statements: expressions are events (see `BoolLowering`, `FirmMemory`).
  `FirmMemory` is straight-line code.
* Assembler: widths of registers and the encoding of operands beyond "register,
  slot, constant, address"; blocks are optimised one at a time, as the code
  does, with the slots other blocks read as a parameter (`live`). The order of
  basic blocks and `generateBoolPhi` (not reached once critical edges are split)
  are left out.
* Fuzzer: dumb mode of the queue, the directories of crashes and hangs, resuming,
  statistics, the memory limit and exit codes of sanitizers; the bytes that
  havoc writes; wall-clock time (the timer may expire whenever it is set).
* Not modelled: the input stream, the dot output, the runtime's bodies, options
  and output files, AFL's compiler wrappers and instrumentation, the CPU meter,
  and libFuzzer, which are vendored or pure I/O.
* Found by reading and covered by no property: a quoted line is cut at 1023
  characters while the offset into it comes from the column (`lexer.hpp:270`); a
  stream that fails without reaching its end, such as a directory
  (`lexer.hpp:342`); the static state of the line break automaton, for a second
  lexer in one process (`lexer.cpp:277`); the assertion that a remainder is used,
  before the test whether it is (`asm_pass.cpp:249`); a stop signal between the
  server's fork and the moment the fuzzer has read the pid, which leaves the
  child running (`afl-fuzz.c:6691`); a second calibration that compares with the
  trace of another entry (`afl-fuzz.c:2554`).
* Two lines of the repository that the front end's properties do not follow, but
  the code: `doc/grammar.txt:12-13` puts a comma after every parameter, the parser
  between parameters; `parser.cpp:125` leaves it to the semantic analysis to check
  that a static method is called `main`, which only counts those that are
  (`semantic_visitor.cpp:65`), so that a second class may have one of another name,
  which FirmVisitor calls `main` too. The texts of `front_end` contain such a
  class, and `AcceptsWellTyped` counts it as well typed.
* libfirm is not part of the repository; `new_Phi`, `mature_immBlock`,
  `exchange` and the like are modelled from how the code uses them.

## 6. Plan

1. Proofs: a simulation for `SameBehaviour` of `StmtLowering`.
2. `StackSlots`: the slot manager; values share a slot only through Conv, slots
   lie inside the frame, parameters above it.
3. The driver: options, errors at each stage and exit codes.
