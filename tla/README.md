# TLA+ models of the ti-opencl Python tools

This directory holds TLA+ models of the Python programs under `src/`:

- the built-in function generator `src/host/src/runtime/builtins.py`;
- the byte embedder `src/host/src/runtime/embed.py`;
- the profiling report `src/profiling/oclaet.py` with its classes.

It also holds the TLC configurations that check the models on small instances, an abstract specification of `embed.py` that its model is shown to implement, and TLAPS proofs of the generator's invariants and its write-after-parse action property, and of the embedder's invariant, type correctness, line layout and refinement.

`PROJECT.json` lists the following:

- every component;
- every run and the properties it checks;
- a mutant for each property that is expected to pass;
- the source lines each definition translates;
- the findings;
- the hazards;
- the theorems.

## The system

`builtins.py` reads a DSL file describing OpenCL built-in functions and writes four C headers. There are three parts.

**Parser** (`Parser.parse`) reads the file line by line:

- `def <name> : <types>` stores a list of types, with `$name` references expanded eagerly by `replace_variable`;
- `func|native <ret> <name> <types> : <args>` opens a function;
- the lines that follow are its body until a line starting with `end`;
- `end` hands the function to the generator.

**Function** (`Function.write`) renders one instantiation type `T` of a function as one of six C fragments (`KIND_*`):

- a static implementation;
- a `getBuiltin` registry entry `"__cpu_<mangled>"`;
- a plain OpenCL C implementation;
- a public `OVERLOAD` declaration;
- for native functions, an OpenCL C stub that calls `__cpu_<mangled>`;
- the prototype of that callee.

Templates use `$type` and `$vecdim`. A vector return becomes a leading `result` pointer, and vector arguments are passed through pointers on the native side.

**Generator** collects the fragments:

- `add_function` appends, for every type, the fragments of the function's kind to four string buffers;
- after `parse()` returns, `main()` calls `Generator.write`, which replaces the four files one after the other.

`embed.py` concatenates its input files and writes them as a C `const char[]` initializer:

- 18 `\xHH` escapes per literal line, so each line stays within 80 columns;
- the last line is terminated with `";` or, after a full line, with `;` alone.

`oclaet.py` reads an AET counter dump and reports it.

- `mark_events_and_cores` cuts the dump into blocks at `---End Kernel` markers. Each block is one event of one kernel: its type, two event numbers, and per core two counter values. Blocks are grouped by kernel name.
- `update_event_names` names the block's events and labels its two counters:
  - type 2 is a pair of memory events, counted by counter 0 and counter 1;
  - type 1 is a stall event, counted by counter 1.
- `form_kernels` lists the kernels in dict order.
- With `-t` or `-g`, each kernel's `form_profiling_matrix` builds `list_events_by_name` and the matrix `core_to_event_values[core][event index]`. `remove_duplicate_events` runs first, and then the counters are appended event by event.
- With `-t`, `table.form_table` appends a row per name to `profiling/aetdata.html`, reading the matrix by index.
- With `-g`, `plot.form_graph` saves one figure of the matrix or, when the kernel has exactly 50 names, a figure of the first 30 titled Memory and one of the other 20 titled Stall.
- Before all this, `cleanup_files` removes every file beside the dump except `aetdata.txt`.

## Modules

| Module | Models | State and actions |
|---|---|---|
| `BuiltinsEmit` | `Function`: `process_type_name`, `mangled_name`, `arg_list`, `write` | No variables. `write(f, T, kind)` returns a record with the return type, symbol, parameters (name, base, digits, pointer), body and, for the stub, the call it makes (callee and, per argument: the variable, the cast and whether `&` is taken). A type string is a base atom followed by its digits, so `[-1].isdigit()` and `rstrip('0123456789')` keep their meaning. |
| `BuiltinsGen` | `Generator` | Variables: the four buffers, `files`, `phase` and `adds`. Actions: `add_function(f)` (the whole loop over `f.types`), `ParseDone`, `ParseFails` and `gen_write` (`n` files written before an `open()` fails, 0..4). |
| `BuiltinsParser` | `Parser`, `__main__` | Extends `BuiltinsGen`. Variables: `defs`, `current_function`, `lines_read`, and `directives` (a history of the lines read outside a body). `ReadLine` is one iteration of the `for` loop, as `BodyLine` or `DirectiveLine` (`DefLine`, `FuncLine`, malformed header, a skipped line: `end`, text, or an unknown first token). `EndOfFile` is `parse()` returning, and `Write` is `gen.write()`. |
| `EmbedTokens` | the strings `embed.py` writes | The tokens `W(tag)` and `Escape(b)`, shared by the two modules below. |
| `Embed` | `embed.py` | Variables: `data`, `pos`, `index`, `out` (the strings written, as tokens) and `pc`. `WriteByte` is one iteration of `for c in data`. `Finish` is the terminator and the footer. `Abs` instantiates `EmbedAbstract` under the refinement mapping. |
| `EmbedAbstract` | what `embed.py` promises | Same `data`, `out`, `pc`; one action `Emit` writes `Rendered(data)`, the whole file in closed form: body token `k` lies in line `(k-1) \div 20` at offset `(k-1) % 20`. |
| `Profiling` | `oclaet.py`, `event.py`, `kernel.py`, `table.py` | Variables: `by_kernel` (`kernel_name_to_event`), the `-t` and `-g` options, the analysis loop's position, the current kernel's `event_list`, `num_cores`, `names` and `rows` (the matrix), and `html` (the table rows written). Actions: `MarkEvent` (one block), `FormKernels`, `InitMatrix` (`initialize_core_to_event` and `remove_duplicate_events`), `MatrixStep` (one iteration of `form_profiling_matrix`, with `update_event_core_data`), `FinishKernel` (`form_table`, with the `IndexError` of a short row, then `form_graph`, with the `ValueError` of a non-rectangular matrix) and `AnalysisDone`. `Cleanup` (`cleanup_files`) comes first: it exits when the dump is no file, and empties `html` only when the dump lies in `profiling/`. `plots` records the figures saved. |
| `BuiltinsGenProofs` | — | TLAPS proofs about `BuiltinsGen`. |
| `EmbedProofs` | — | TLAPS proofs about `Embed`. |
| `ProfilingProofs` | — | TLAPS proofs about `Profiling`. |
| `LeastElement` | — | `NatMin`: every non-empty set of naturals has a least element. The induction proofs rest on it. |
| `MC_*` | — | The instances TLC checks. |

### Abstractions

- C text is not built character by character. Each fragment is the record of the facts a compiler or linker would check: signature, symbol and call arguments.
- In the parser, a line is abstracted to what `parse()` distinguishes:
  - the header tokens, already split;
  - a line starting with `end`;
  - a header too short for `tokens[i]` (`IndexError`);
  - a line whose first token is a word other than the keywords;
  - any other text.
- The generator's own model (`BuiltinsGen`) stands in for the parser with an environment that calls `add_function` with any function of `Functions`. `BuiltinsParser` composes the real parser with it.
- `Profiling` takes each dump block as an already parsed event record. Event names are abstracted to (table, number), because the AET name tables are outside this repository. Counter values are opaque.
- `Embed` abstracts the file reads to the concatenated byte sequence, and the header identifier to a single token.

## Runs

| Run | Config | Expect | Shows |
|---|---|---|---|
| gen_native | `MC_BuiltinsGen.cfg` | pass | `SpecVecdim`: every copied body resolves `$vecdim` to the vector width (for the one- and two-digit widths of OpenCL). `NativeTiersConsistent`: every native stub calls a `__cpu_` symbol that meets two conditions. First, it is prototyped earlier in `stdlib_impl.h` with a signature that accepts the call, argument by argument: variable, cast, pointer level, and void return plus `result` for vectors. Second, it is registered in `builtins_def.h` with a target in `builtins_impl.h` of the same signature. `FilesHoldTheirKinds`: each header written holds only the fragment kinds `Generator.write` means for it (a copy-paste of one buffer into the wrong file breaks it). `FilesWrittenFromFinalBuffers` (action property): the buffers change only while parsing, and a header is replaced only in the write phase, with the buffer it is meant to hold. |
| gen_io | `MC_BuiltinsGen_io.cfg` | violation | `OutputAllOrNothing` (spec §5): a failing `open()` leaves a mix of new and stale headers. |
| gen_vec | `MC_BuiltinsGen_vec.cfg` | violation | `SpecVectorABI` (spec §4.2): `int$vecdim` at a scalar type resolves to `int1`, which is treated as a vector. |
| parser | `MC_BuiltinsParser.cfg` | pass | `TypeOK`, and `NoForwardReference`: a run that writes its files read no `$name` before its `def`. |
| parser_eof | `MC_BuiltinsParser_eof.cfg` | violation | `AllHeadersEmitted`: a missing final `end` drops the function silently. The property also covers a missing `end` before another header, which the body swallows as text. |
| parser_dup | `MC_BuiltinsParser_dup.cfg` | violation | `MangledNamesUnique` (spec §3, §8, §9): a repeated type registers one `__cpu_` name twice, with no error. |
| embed | `MC_Embed.cfg` | pass | `TypeOK`; `EscapesSpellInput`: once done, the escapes written, in order, spell the input; `LinesWithin80`: every line of the body is `"` escapes `"` within 80 columns, and the body ends with `";` or a lone `;`; and `EmbedRefinesAbstract`: under `FairSpec`, the loop implements `EmbedAbstract!Spec`. Each `WriteByte` is a stutter of the mapped output, `Finish` is `Emit`, and the script does reach `Finish`. |
| profiling | `MC_Profiling.cfg` | pass | Three properties. `TableShowsCounters`: each table cell is that core's counter, in an event of that kernel, whose JSON label is the row's name. `ReportCompletes`: nothing raises. `AllEventsReported`: every event name of the dump has a row. |
| profiling_dedup | `MC_Profiling_dedup.cfg` | violation | `AllEventsReported`: a block (mem 1, mem 3) that follows (mem 1, mem 2) is dropped as a duplicate, and mem 3 is never reported. |
| profiling_type0 | `MC_Profiling_type0.cfg` | violation | `TableShowsCounters`: a type-0 block, which event.py's comment calls the stall event, adds a name and no values. The next event's counters are then printed under it. |
| parser_unknown | `MC_BuiltinsParser_unknown.cfg` | violation | `UnknownDirectiveFatal` (spec §4.1, §7): a line with an unknown first token is skipped, and the run succeeds. |
| profiling_stale | `MC_Profiling_stale.cfg` | violation | `TableShowsCounters`: with the dump outside `profiling/`, the previous run's rows stay in `aetdata.html` ahead of the new ones. |

The findings section of `PROJECT.json` says what each violation shows.

Each property of a passing run has a mutant. The mutant is a plausible code bug that TLC catches:

- the stub takes `&` of an argument that is already a pointer;
- the `defs` table starts pre-filled;
- a `def` stores its tokens unexpanded;
- `index` is never reset;
- the chunk size is 19, which makes a line 82 columns wide;
- a two-event block appends its counters in the wrong order;
- the matrix gets one row too few;
- duplicates are keyed on the kernel name;
- `$vecdim` keeps only the last digit;
- `cleanup_files` never removes the old table;
- a chunk of 17 bytes, which keeps lines within 80 columns but not the closed form;
- `Generator.write` sends the implementation buffer to `stdlib_def.h` and the declarations to `stdlib_impl.h`;
- `Generator.write` runs without waiting for `parse()` to return;
- an escape is written only at the start of a line.

### Bounds

- **`MC_BuiltinsGen`:**
  - types `float`, `float2` and `float16` (the two-digit `$vecdim` case), and `int`;
  - return templates `$type`, `int$vecdim` and `float`;
  - argument lists with none, one or two arguments, with `$type` and `*$type`;
  - native and plain functions;
  - two `add_function` calls.

  The widths are those of OpenCL, one or two digits. A three-digit type, where `$vecdim` keeps only two digits, is left to the hazard list.

  This covers every branch of `arg_list` and of the stub: scalar and vector returns, and vector arguments that are or are not already pointers.
- **`MC_BuiltinsParser`:**
  - two `def`s, one referring to the other and repeating a type;
  - a native and a plain header;
  - an `end` line, text, and a malformed header;
  - five lines.

  This is enough for a forward reference, a body, an unterminated body and a duplicate instantiation. `MC_BuiltinsParser_unknown.cfg` adds a line with an unknown first token.
- **`MC_Embed`:** every input length from 1 to 37 bytes. This reaches the boundaries of 17, 18, 19, 36 and 37 bytes, where a line is closed by the loop or left open. The byte value does not affect the control flow, since the escape of every value has the same width, so one byte value is enough. Length 0, where the output has no literal, is left to the hazard list: the build embeds non-empty files.

- **`MC_Profiling`:** dumps of up to three blocks.
  - Blocks come from five kinds: a stall event, a two-event memory block with its cores listed in reverse order, a block with an unused second counter, a rerun of the two-event block with other counts, and a one-core kernel.
  - Every counter value is distinct, so a value printed in the wrong cell is always detected.
  - Three blocks are enough to put a block before, between and after the others, and a duplicate after its original.
  - All dict orders and all `-t`/`-g` choices are explored.
  - `html` starts empty or with a row of an earlier run. The passing run puts the dump in `profiling/`, the documented place; `MC_Profiling_stale.cfg` also allows another directory.
  - `form_graph`'s constants 50 and 30 are scaled to 3 and 2, so a kernel with three names (a memory pair and a stall event) takes the split branch. The code's only use of them is the test `len == 50` and the slice at 30, so the scaling keeps every branch. No property is stated about the split: which blocks come first is decided by the dump's producer.

`CHECK_DEADLOCK FALSE` is used because every program modelled here terminates: `phase` or `pc` reaches `"done"`, `"failed"`, `"exited"` or `"crashed"`.

### Fairness and refinement

`embed.py` is a single-threaded script with no waits, so once a step is possible it is taken. `Embed!FairSpec` adds `WF_evars(Next)`, and `EmbedAbstract!Spec` has `WF_avars(Emit)`. `EmbedRefinesAbstract` is checked under `FairSpec`: its liveness part says the script does reach its footer. The mapping leaves `data` and `pc` alone and shows `out` as the header alone until `pc = "done"`. So every `WriteByte` is an abstract stutter and `Finish` is one `Emit`. Every other property is a safety property.

## Proofs

`BuiltinsGenProofs` proves five theorems for every value of the constants. They are proved under these assumptions:

- `BasesAssumption`: the placeholders are not base names or digit strings, and `None` is not a type;
- `GenAssumption`: `MaxAdds ∈ Nat`, and `Stale` is not a buffer;
- `FunctionsAssumption`: `Functions ⊆ FunctionSpace`.

- **`GenTypeCorrect`**: `GenSpec => []GenTypeOK`. Every buffer and every written file holds only fragments that `Function.write` renders. This rests on three lemmas:
  - `ResolvedType`: `process_type_name` returns a resolved type;
  - `PerTypeEntries`;
  - `BufferOfEntries`.
- **`NativeContract`**: `GenSpec => []NativeTiersConsistent`. The run `gen_native` checks the same property on a small instance.

  `NativeTiersConsistent` is not inductive on its own. Its step needs to know the kind, `sym` and shape of each buffer entry, so the inductive invariant is `GenTypeOK /\ NativeTiersConsistent`. The argument goes like this:
  1. `add_function` of a native function appends, per type, a prototype followed by its stub. It also appends a registry entry and an implementation at matching positions. `NewStubBacked` names the witnesses `j = i-1` and `k`, `m` at the same offsets.
  2. `NativeCallMatches` shows that the prototype and the implementation both accept the stub's call. This uses `ArgAccepted` per argument (case split on vector and pointer) and `ResultAccepted` for the leading `result`.
  3. Entries that were already backed stay backed, because the buffers only grow (`BackedExtend`).

- **`VecdimContract`**: `TypesWithinTwoDigits => (GenSpec => []SpecVecdim)`. The hypothesis says every type of `Functions` has a vector width of at most two digits, as the OpenCL widths 2, 3, 4, 8 and 16 do. It is the hypothesis the code needs: `process_type_name` keeps the last two characters of the name, so a three-digit width would break the property (the hazard at `builtins.py:90`). Each buffer entry is some `write(f, T, kind)`, so `EntryVecdim` reduces the invariant to one call of `write`. `VecDimShort` shows that the digits `$vecdim` becomes denote the width, and `DecimalOne` covers the scalar case, where `$vecdim` becomes `"1"`.
- **`FileContents`**: `GenSpec => []FilesHoldTheirKinds`. The inductive invariant `KindsInv` says that each of the four buffers holds only the fragment kinds of the file it is written to, and that each written file does too. `add_function` appends, per type, fragments whose kinds match their buffer (`PerTypeKinds`, and `AllKindsConcat` for the append). `gen_write` copies `BufferOf(i)` into file `i` (`BufferOfKinds`). `KindsStep` puts the actions together.
- **`WriteAfterParse`**: `GenSpec => FilesWrittenFromFinalBuffers`, the action property. It is proved action by action: `add_function` runs only while parsing, `ParseDone` and `ParseFails` touch no file, and `gen_write` runs only in the write phase, where the buffers no longer change. No invariant is needed beyond the step itself.

`EmbedProofs` proves five theorems for every input length and byte set:

- **`EmbedInvariant`**: `Spec => []IInv`. While the loop runs, `index = pos % 18` and `out` is the header followed by `Abs!Body(data, pos)`, the closed form of the first `pos` bytes. Once done, `out = Abs!Rendered(data)`. This is the strengthening the refinement needs, because the closed form is what `Finish` must complete. The step rests on these lemmas:
  - `BodyLenAt`: the closed-form length for `p = 18q + r`;
  - `BodyAppend`: writing byte `p+1` appends exactly `Opened(p % 18) \o <<Escape(data[p+1])>> \o Closed(p % 18)` to `Body(data, p)`. The proof splits on whether `r` is 0, between 1 and 16, or 17;
  - `ExtendBy`, `TupleConcat` and `TokAt`, about sequences.
- **`EmbedTypeCorrect`**: `Spec => []TypeOK`. It follows from `EmbedInvariant`, since `TypeOK` is a conjunct of `IInv`.
- **`EmbedRefinement`**: `Spec => Abs!SafeSpec`. `Init` maps to `Abs!Init`, and under `IInv` every step maps to `Emit` or a stutter (`StepRefines`).
- **`EmbedLinesWithin80`**: `MinData >= 1 => (Spec => []LinesWithin80)`. The hypothesis is that the input is not empty, as in the build. For an empty input, `embed.py` writes a lone `;` after the header, and the body has no line at all. By `EmbedInvariant`, once done the output is `Abs!Rendered(data)`, so the property reduces to a fact about the closed form: `RenderedWellFormed`. `RenderedBody` gives each body token by position. `LineArith` and `ModShift` place line starts at multiples of 20 and line ends at offset 19, or at the last position. Every line start then has escapes up to its end, and its width is at most 5 + 18·4 + 2 = 79 columns: the indent and opening quote, 18 escapes of four characters, and `";`.

- **`EmbedEscapes`**: `Spec => []EscapesSpellInput`. `Escapes` reads the escapes back out of `out`. It is written as a recursive function over the positions of `out`, which is what `SelectSeq` computes, so that the provers can reason about it. `EscAppend` says what appending one token does to it. It is proved by induction on the length: the set of lengths where the fact fails has no least element (`NatMin`). The library's induction theorems take an operator parameter, which the installed provers cannot instantiate, so this form is used instead. The inductive invariant `EscInv` says the escapes written so far spell the first `pos` bytes. It rests on `IInv`, which gives the shape of `out`. `WriteByte` adds one escape, and `Finish` adds none.

`ProfilingProofs` proves four theorems for every set of kernels, events and dump directories. Each has the hypothesis `WellFormedDump`, which states what `oclaet.py`, `event.py` and `kernel.py` take for granted about the dump:

- the dump lies in `profiling/`, so `cleanup_files` removes the old table. Without this, `MC_Profiling_stale` fails;
- every block has event type 1 or 2, the only types `update_event_names` and `update_event_core_data` handle. `MC_Profiling_type0` shows a type-0 block;
- the cores of a block are numbered `0 .. n-1`, once each. `process_core_data` indexes the matrix with the number read from the line;
- every block of a kernel has the same core count, the count `initialize_core_to_event` takes from the first event;
- two blocks of one kernel with the same first event have the same events. `remove_duplicate_events` keys on the first name. `MC_Profiling_dedup` shows what is lost when this fails.

`ProfilingAssumption` also requires `Kernels` to be finite, since `form_kernels` lists the dict's keys.

- **`ProfilingInvariant`**: `WellFormedDump => (Spec => []Inv)`. `TableShowsCounters` is not inductive. A `MatrixStep` needs to know that each row of the matrix so far holds the counters its names label, and `FinishKernel` needs to know that the matrix is complete and rectangular. `Inv` adds these conjuncts:
  - `TypeInv`;
  - `KernelsOK`: every event is listed under its kernel;
  - `MarkOK`: the table is empty while the dump is read;
  - `ListOK`: `kernel_list` lists exactly the kernels with events, and the analysis ends at its end;
  - `MatrixOK`: during `form_profiling_matrix`, `event_list` is the deduplicated list, there is one row per core, each row has one value per name, each value is the counter its name labels (`CellOK`), and the names of the events folded in so far are among `names`;
  - `Reported`: the kernels finished have a row for every event name;
  - `TableShowsCounters` and `ReportCompletes`.

  There is one lemma per action. The recursive parts of the model have their own lemmas:
  - `DedupFacts`: `remove_duplicate_events` keeps only events of its argument, and keeps an event with the same first name for every event it drops;
  - `FlattenOne`: the `FlattenSeq` of rows that are all empty but one is that row. This is how `MatrixStep` appends a value to one core's row.

  Both are proved by induction with `NatMin`. `remove_duplicate_events` is written as a recursive function over the loop's positions, with the kept list and the seen set as its record.
- **`ProfilingTableShowsCounters`**, **`ProfilingReportCompletes`** and **`ProfilingAllEventsReported`** state the three properties of the run `profiling` under `WellFormedDump`. They follow from `Inv`. `AllEventsReported` comes from `Reported` and `ListOK` once the analysis is done (`InvAllEvents`).

What stays with TLC, and why:

- The parser uses `RECURSIVE replace_variable`. TLAPS cannot be used in a module that reaches a recursive operator, so `BuiltinsParser`'s properties are checked only on the instance.
- Liveness (`EmbedRefinesAbstract` under `FairSpec`) is model-checked only.
- What the profiling report does with a dump that is not well formed is shown by the three violation runs, on their instance.

## Not modelled

- **Parts of the profiling scripts.**
  - The block layout of the dump: fields are read at negative line offsets, and the producer of the dump is outside this repository.
  - The JSON dump: file I/O only.
  - The percent column and `count_total_stall_cycles`: arithmetic on counter values.
  - The rendering of the plots, and the search for a free `.png` number.
  - `src/profiling/src/profiling.py`, an earlier copy of `oclaet.py` with fixed paths.

  `PROJECT.json` lists their hazards.
- **Formatting and file-name handling.** This covers the header guard derived from the file name in `embed.py` and the exact C spelling. Properties are about structure, not wording.
