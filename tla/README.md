# TLA+ models of novaprova's debug-information engine and test tree

This directory holds TLA+ models of the code under `src/`, the TLC configurations that check them, and `PROJECT.json`. `PROJECT.json` lists the components, runs, mutants, the definition-to-source map, findings and hazards.

## The system

`src/` holds two cooperating parts of novaprova.

* **spiegel**, the debug-information engine (`src/np/spiegel/`).
  * `dwarf::state_t` (`dwarf/state.cxx`) is a process-wide singleton. `add_self()` and `add_executable()` do the following:
    1. discover link objects;
    2. read their compile units: `compile_unit_t::read_header` and `read_abbrevs` in `dwarf/compile_unit.cxx`;
    3. call `prepare_address_index()`, which walks every subprogram DIE and puts its address ranges in a range tree.
  * `describe_address()` turns a code address into the function containing it. It looks the address up in the range tree when the tree is non-empty. Otherwise it scans the DIE trees linearly with `is_within()`.
  * `spiegel.cxx` is the reflection layer on top: `type_t` classification and size, `function_t`, the `_factory_t` object cache, and `describe_stacktrace()`.
* **the test-registration tree** `np::testnode_t` (`src/np/testnode.cxx`).
  * During discovery, test and fixture functions found through spiegel are placed in a tree by `make_path()`, `set_function()`, `add_mock()` and `add_parameter()`.
  * `detach_common()` then cuts off the chain of single-child ancestors.
  * During the run phase, the tree is walked with `preorder_iterator`. `get_fixtures()` gives the before/after functions of each test.

The two parts interact only through `function_t` objects that the tree stores. No property relates them, so they are modelled in separate modules.

The engine is single-threaded and synchronous (spec section 5). "Interleaving" in these models therefore means the order in which a client calls operations, not concurrency.

## Modules

| Module | Models | State | Actions |
|---|---|---|---|
| `DwarfLoader` | `state.cxx` 51-233 (`read_compile_units`, `filename_is_ignored`, `add_self`, `add_executable`, `get_link_object`, `make_link_object`, `read_link_objects`) and `compile_unit.cxx` 28-119 (`read_header`, `read_abbrevs`) | `link_objects` (`link_objects_` by filename), `mapped` (objects in `link_object_index_`), `compile_units` (`[lo, start, end, version, abbrevs]` per unit, `abbrevs` the code -> declaration table), `indexed` (the units `prepare_address_index` inserted), `phase` (`"fatal"` once `fatal()` ended the process, `"crashed"` after the out-of-bounds store in `read_abbrevs`), `adds`, `result` | `AddSelf`, `AddExecutable(f)` |
| `MCDwarfLoader` | fixtures: the platform's object list, the ignored, mappable and sectioned files, the compile-unit headers of each `.debug_info`, and each `.debug_abbrev` as a sequence of declarations | | |
| `DwarfAddressIndex` | `state.cxx` 591-816: `insert_ranges`, `prepare_address_index`, `is_within`, `describe_address`, `get_full_name` | `dwarf` (the loaded debug info, a constant fixture), `index` (the range tree as a set of `[lo, hi, ref]`), `last` (the latest answer), `scanned` (the latest answer given by the scan) | `PrepareAddressIndex`, `DescribeAddress(addr)` = `DescribeFromIndex` \/ `DescribeByScan` |
| `MCDwarfAddressIndex` | fixtures: DIE trees, attributes and `.debug_ranges` contents laid out as gcc emits them | | |
| `Reflection` | `spiegel.cxx` 77-198 (`get_classification`, `get_sizeof`), 344-417 (`cu_from_lower`, `get_compile_units`, `get_functions`), 476-521 (`populate`, `get_return_type`, `get_parameter_types`), 235-342 (`to_string`), 558-588 (`function_t::to_string`), 607-648 (`get_live_address`, `invoke`), 649-680 (`describe_address`), 682-732 (`_factory_t`); `state.cxx` 577-589 (`resolve_link_object_reference`) | `cache` (`cache_`: reference to type or function), `uppers` (compile units with an upper object), `created` (objects constructed per reference), `last` (the latest query and answer) | `GetCompileUnits`, `GetFunctions(cu)`, `DescribeAddress(f)`, `GetReturnType(f)`, `GetParameterTypes(f)`, `Invoke(f)`, `GetFunctionString(f)`, `GetClassification(r)`, `GetSizeof(r)`, `GetString(r)` |
| `MCReflection` | fixture: two gcc compile units with base, wrapper, pointer, compound, enum and array types and their functions | | |
| `TestNodeTree` | `testnode.cxx` 8-229 (with `get_fullname`, `pre_run`, `post_run`), 302-306 | the node pool with `name`, `parent`, `kids` (the `children_`/`next_` list), `funcs`, `mocks`, `params`; `top` (the root the program holds), `phase`, the history variables `made`, `cut`, `iter`, `fixtures`; `installed` (the intercepts installed, in order) and `running` (the node between `pre_run` and `post_run`) | `MakePath`, `SetFunction`, `AddMock`, `AddParameter`, `DetachCommon`, `BeginIteration`, `StepIteration`, `GetFixtures`, `PreRun(n)`, `PostRun` |
| `MCTestNodeTree` | model values for name parts | | |
| `TestAssignments` | `testnode.cxx` 233-320: `parameter_t::parameter_t`, `assignment_t::apply`/`unapply`, `bump`, `create_assignments` | `chain` (each node's `parameters_`, innermost first), `assigns` (the `assignment_t` vector), `value` (what each parameter's `char*` variable points to), `runs` (bag of index vectors the test ran with), `phase` | `Create`, `Apply`, `Unapply`, `Bump` |
| `MCTestAssignments` | fixtures: parameter chains, and every value string of up to three fields | | |
| `EngineSetup` | abstract: what spec sections 6-8 promise of engine setup | `good`, `bad` (what the files hold, constant), `registered`, `units`, `index`, `alive` | `Add` |
| `ReflectionCache` | abstract: the object cache of spec.md:54 and :57 | `objects` (reference to kind), `made` (objects ever made per reference) | `Fill` |

The loader, the index and the reflection layer run in this order in a process: `add_self` loads the compile units and builds the index, `describe_address` answers from it, and the reflection layer wraps the entries it finds. Each module takes the output of the one before it as a fixture, so they are checked separately.

### DwarfLoader

A file's `.debug_info` is a sequence of header records (`is64`, `len`, `version`, `addrsize`, `abbrev`, the abbreviation `codes` its entries use, and whether its attributes and line program read). Its `.debug_abbrev` is a sequence of declarations `[code, ok]`, where `ok` says whether `abbrev_t::read` decodes it, and a unit's `abbrev` is the entry its table starts at. `UnitStart` lays the records out back to back, each taking its length field (4 bytes, or 12 for the 64-bit escape) plus `len` bytes. `ReadHeader` translates `read_header` check by check, in the code's order:
* fewer than 4 bytes left ends the section;
* the 64-bit escape on a 4-byte host is fatal;
* a length past the section is fatal;
* a version outside `MinVersion..MaxVersion` is fatal;
* a length shorter than the rest of the header is fatal. The code computes that bound as `(unsigned)(header_length - (is64 ? 14 : 6))`. In the 64-bit format the difference is -3, and the cast wraps it to 0xFFFFFFFD, so every 64-bit unit is fatal here with "Bad DWARF compile unit length" (`ShortLength`, written so that no term exceeds TLC's 32-bit integers);
* an address size other than the host's is fatal.

The short reads after the length (version, abbreviation offset, address size) return false only for a unit shorter than its header at the very end of the section; no fixture has one, and the model leaves them out. A header is read only at a unit start; the model takes any other offset as the end of the section, since what the code would read there depends on bytes the fixtures do not describe. The outer reader is skipped to `pos + LenField + 7 + (length + LenField) - header_length`, as the code computes it. `ReadAbbrevs` is the loop of `read_abbrevs`: it reads declarations until code 0, the end of the section, or one that fails to decode, and it stores each in a vector indexed by code. When a code is not below the vector's size, the vector is resized to `code+1`, computed in the 32-bit type of the code. The model reduces that width to `CodeWord` (8), so the largest code wraps the new size to 0 and the store is out of bounds. The model ends that behaviour in `phase = "crashed"`, like other undefined behaviour: nothing is known after it. `read_attributes` (not under `src/`) fails when a unit's entries are unreadable or use a code its table lacks (`Readable`). `ReadCompileUnits` runs, per unit, `read_header`, `read_abbrevs`, `read_attributes` and `read_lineno_program` in the code's order. It stops at the first failing header, and it drops a unit whose attributes or line program fail, together with the units after it. `ReadLinkObjects` returns false at the first object that does not map. `SelfObjects` is the `add_self` loop:
* a NULL name is the executable;
* ignored prefixes are skipped;
* a name already registered is skipped;
* otherwise a new object is made and its mappings are indexed.

`Load` is the common tail of both adds: read every link object, then index the units if reading succeeded.

A truncated section is a unit record with `cut` > 0: the section ends `cut` bytes before the end the last unit's length field claims. This is what makes the "length past the section" check reachable.

`DwarfLoader` is checked against the abstract `EngineSetup` by `Setup == INSTANCE EngineSetup WITH ...`:
* `good <- GoodOffsets`: the offsets of the well-formed units of every file that maps;
* `bad <- BadObjects`: the mapped files with a unit section 7 rejects;
* `registered <- ToSet(link_objects)`;
* `units <- UnitKeys(compile_units)`, the `<<object, offset>>` keys in order;
* `index <- ToSet(indexed)`;
* `alive <- phase = "up"`.

`EngineSetup!Add` lets a call register objects. Afterwards either every good unit of every registered object is held exactly once and the index covers exactly the units held, or the process has ended over a rejected unit.

### Reflection

Reflection objects are identified by the reference they wrap. `created` counts how many each reference was given, which is what the factory cache must keep at one. `MakeTypeSt` and `MakeFunctionSt` thread the cache through the loops of `get_parameter_types` and `get_functions`. `Classification` and `Sizeof` translate the two type queries with their recursion through typedef, const and volatile. They keep the code's details:
* the `sizeof(int)` default for an enumeration without a byte size;
* the `(byte_size ? byte_size : 1) * count` product over subranges, where `count` is `DW_AT_count` or else `DW_AT_upper_bound`;
* `uint32_t` wrap-around. Its width is the constant `SizeBits`, because TLC's integers stop below 2^31. Fixture sizes are far below it.

`ToStr(r, inner)` is `type_t::to_string(inner)`, branch by branch. A string is the sequence of its tokens, and the spaces the code puts between them are left out. Pointers, references and qualifiers are prepended to `inner`. An array appends `Dims`, one `"[n]"` per subrange with a nonzero `DW_AT_count` or else `DW_AT_upper_bound`, or `"[]"`. A subroutine type wraps `inner` in parentheses and appends `Params`, the loop over formal parameters that stops taking them after `...`. `SpecDecl` is the reference: a C declarator, which parenthesises a declarator that begins with a prefix before it adds a suffix, and uses the element count.

`FnString(f)` is `function_t::to_string`: the return type's `ToStr` around the function's name and `FnParams`. That parameter loop, unlike the one in `type_t::to_string`, breaks right after it writes `...`. `FunctionStringMatchesSpec` compares it with `SpecDecl` around the name and the parameters `SpecParams` takes (spec.md:77 gives `int add(int, int)`). Function `g` has a callback parameter whose type is a pointer to a subroutine type, so the check includes a declarator nested inside another.

`DescribeAddress(f)` is the reflection layer's `state_t::describe_address`, once the address index has answered with function `f`. That search is left out here and modelled in `DwarfAddressIndex`. Only functions with a `DW_AT_low_pc` can be found. With the index, `curef` is null, so `funcref.resolve()` names the unit. `Resolve` is `resolve_link_object_reference`: the unit whose half-open offset range `[start, end)` holds the reference. A unit ends where the next one starts, and the last one ends at the fixture's `limit`. `get_source_line` may fail; the model takes either outcome, and a failure returns before any object is made. On success, `cu_from_lower` makes the unit's upper object, `make_function(funcref)` makes the function object, and the answer names the unit. `DescribeAddressNamesItsUnit` checks that this unit is the one whose tree holds the function.

`InvokeSt` is `function_t::invoke`, as built with `SPIEGEL_DYNAMIC`:
* no call when the live address is 0;
* no call when `get_parameter_types` is not empty, although that call has already made the parameters' type objects;
* otherwise the return type's object is made, and the call is chosen by its classification (`CallKind`): void, `int` or pointer.

`LiveAddress` is `DW_AT_low_pc` plus the constant `Slide`. This is `link_object_t::live_address`, which is not under `src/`; spec section 4.6 says only that it applies the module's slide. The run takes the executable's slide as 0. With a nonzero slide, a declaration's live address would be the slide itself, and invoke would call it. `PROJECT.json` lists this as a hazard.

`Reflection` is checked against the abstract `ReflectionCache` through `Objects`, the factory's `cache_` entries plus the upper compile-unit objects, with `made <- created`. `ReflectionCache!Fill` only adds objects for references that have none, makes each of them once, and never changes the kind of an object already made. `CacheRefinement` is `Cache!Spec` with the steps that leave `cache`, `uppers` and `created` unchanged recognised first. Those are the queries that only answer, most of the 4.3 million transitions. Without this shortcut, the mapping would be built for each of them, and the run would take several times as long.

`SpecClass`, `SpecSize` and `SpecDecl` are the reference definitions taken from the spec text (spec.md lines 54, 67, 76 and 77).

The fixture is the constant `Fixture`, not a variable. TLC then evaluates it once, and does not fingerprint it in every state.

### DwarfAddressIndex

Each DIE attribute is modelled as the value `entry_t` returns. An absent attribute reads as 0 (`Val`), and `Has` gives presence.

`RangeList` is the decoding loop shared by `insert_ranges` and `is_within`:
* a (0,0) pair ends the list;
* a (MAXADDR, b) pair sets the base;
* running off the section ends the list.

Addresses are `AddrBits` wide and the additions wrap, as `addr_t` does.

`InsertRanges` keeps the priority order of the code:
1. a low/high pair, where a DWARF-4 non-address high_pc is an offset;
2. otherwise a range list, if the attribute is non-zero;
3. otherwise a single point.

`IsWithin` translates `is_within` line by line, including its closed `[lo, hi]` test. `ScanList`/`ScanCus` translate the fallback scan with its exact walker moves:
* after `move_down()` the loop's `move_next()` runs, so the scan continues at the second child;
* the scan never climbs back out of a sibling list it descended into.

The range tree (`np/util/rangetree.hxx`) and the walker are not under `src/`. They are modelled from spec sections 4.3 and 4.5:
* `IndexAnswers`: `find` returns one of the half-open intervals containing the address, and which one is left nondeterministic;
* `Subtree`: a preorder walk visits every DIE below the root.

`FullNameFrom` is `get_full_name`. At each level it moves to the `DW_AT_specification` target, prepends the level's name if it has one, and climbs to the parent, until the compile unit. A name is the sequence of its parts; the `"::"` join is left out.

Each fixture also records `body`, the ranges the compiler meant each function to occupy. The index fixture also records `name` and `qname`, each function's qualified name. The properties compare what the code decodes against it.

### TestNodeTree

* `MkPath` threads the whole tree state through the `make_path` loop: find the child of that name, or append a new one at the tail of the children list.
* `Highest` is the `detach_common` loop.
* `DetachCommon` has two disjuncts:
  * the normal cut;
  * the null `parent_` dereference, which ends the process. For this reason the cfgs set `CHECK_DEADLOCK FALSE`.
* `Succ` is `preorder_iterator::operator++`, translated branch for branch.
* `CollectFixtures` is the `get_fixtures` loop.
* `ChainIntercepts(n)` is the intercept list `pre_run` and `post_run` walk: the `intercepts_` of `n` and of each ancestor along `parent_`, innermost first. An intercept is `<<node, i>>`. `intercept_t::install` and `uninstall` are not under `src/`; the model only records an intercept as installed. The runner, also outside `src/`, brackets each test with one `pre_run` and one `post_run`, so `PreRun` requires that no test is running.
* `NamePath` is the list of parts `get_fullname` visits, from the outermost named node down. The `.` join is left out: `MakePathResolves` compares it with the path `make_path` was given, which is a list of parts.

Nodes come from a pool of `MaxNodes`. Name parts are model values. A test name is the sequence of its `/`-separated parts.

### TestAssignments

A value string is a sequence of fields, the text between separators; an empty field is `Empty`. `Values` is what the `parameter_t` constructor keeps: the non-empty fields. `spiegel::tok_t` is not under `src/`; it is taken to skip empty fields, as `TestNodeTree` takes it for `/`. The other definitions:
* `CreateAssignments` flattens the chain innermost first, with every index at 0.
* `ApplyAll` folds `apply()` over the vector in order.
* `BumpFrom` is `bump()`: increment; stop if still in range; else reset to 0 and carry; clear and return true past the end.

The driver that repeats create, apply, run, unapply and bump is the runner, which is not under `src/`. Its loop is the `phase` sequence. Reading `values_[idx_]` past the end is undefined behaviour, so `Apply` then moves to `"ub"`, after which nothing is assumed.

## Runs

| Run | Result | What it shows |
|---|---|---|
| `loader` (`DwarfLoader.cfg`) | pass, 208 states | For up to three `add_self`/`add_executable` calls in any order over a process with an executable, a library reported twice, libc and the vDSO (ignored), a stripped helper, a DWARF 5 file, a truncated unit, a unit using an undeclared abbreviation code, and a library whose `.debug_abbrev` has an undecodable declaration after its table: Every held unit's abbreviation table is exactly the codes its `.debug_abbrev` declares before the terminator or the first undecodable declaration (`AbbrevTableAsDeclared`). |
| `loader_setup` (`DwarfLoaderSetup.cfg`) | violation | Setup does not implement `EngineSetup` (`SetupRefinement`). Each of the eight fixtures violates it alone. With two adds, the second re-reads every link object and holds every unit twice. With one add, a 64-bit-format unit dies with "Bad DWARF compile unit length" on a 64-bit host (the unsigned wrap at `compile_unit.cxx:64`), a unit with unreadable attributes drops the good units after it, and an abbreviation with the largest code (`HugeCode`) crashes the process in `read_abbrevs` (`compile_unit.cxx:116`). An `add_executable` of a file that does not map stops every later `add_self` before the executable is read. The refinement also requires the index to cover the units held, which an add that fails after a successful one leaves stale (`state.cxx:170`). |
| `index` (`DwarfAddressIndex.cfg`) | pass, 1122 states | With two compile units like gcc's, the index gives the right answer for every function. The two CUs are DWARF 4 with offset-form high_pc, and DWARF 2 with a base-selection range list, a CU-relative lexical block, a namespace and an out-of-line method. `IndexResolvesEachFunction`: every function's entry address resolves to that function at offset 0. `IndexAnswerIsSound`: every answer lies in a real range of the function it names, at the right offset. `IndexAnswerFullName`: the function named has, through `get_full_name`, its qualified name (`ns::g`, and `C::m` for the out-of-line method). |
| `scan_disagrees` | violation | Without the index, `describe_address` answers differently from the index (`IndexOnlySpeedsUp`). Each of five single-CU fixtures isolates one cause: a function that is its CU's first child (the scan skips it), adjacent functions (closed `[lo,hi]`), a DWARF-4 length high_pc, an out-of-line method (the scan names the declaration), and a function in a namespace (never descended into). |
| `index_loses_function` | violation | `IndexResolvesEachFunction` fails for a range list at `.debug_ranges` offset 0 (taken as absent) and for a CU-relative range list (decoded from base 0). |
| `reflection` (`Reflection.cfg`) | pass, 46803 states, about 1 minute | Any sequence of reflection calls implements `ReflectionCache` (`CacheRefinement`): one object per entry, made once, never replaced. Every classification is the spec's (`ClassificationMatchesSpec`). `function_t::to_string` writes each function's C declaration (`FunctionStringMatchesSpec`). `describe_address` reports the unit that holds the function it found (`DescribeAddressNamesItsUnit`). |
| `type_queries` (`TypeQueries.cfg`) | violation | `TypeQueriesMatchSpec`, the sizeof and declarator answers together. `get_sizeof` of `int[3]` as gcc describes it (`DW_AT_upper_bound` 2) is 8, not 12. `to_string` prints it as `int [2]`, and prints a pointer to it as `int *[2]`, which C reads as an array of pointers. This run queries two more types, pointers to a subroutine type and to `int[3]`; in the pass run they would multiply the cache states. |
| `testnode_tree` (`TestNodeTree.cfg`) | pass, 683168 states, about 30 s | Any sequence of `make_path`, `set_function`, `add_mock`, `add_parameter`, `detach_common`, iteration and `get_fixtures` keeps the tree consistent with uniquely named children (`TreeWellFormed`). `make_path` returns the node its path names (`MakePathResolves`). `get_fixtures` orders before functions outermost first and after functions innermost first (`FixturesNest`). While a test runs, exactly the intercepts of every node it was discovered under are installed, including a node `detach_common` has since cut off (`PreRunInstallsEveryMock`). This holds because `detach_common` does not cut a node with intercepts. |
| `testnode_iterator` | violation | `operator++` climbs only one level. Iterating from a node at depth 3 leaves its subtree (`IteratorVisitsSubtree`). |
| `testnode_detach` (`TestNodeDetach.cfg`) | violation | `detach_common` on a tree with tests either dereferences the root's null parent when its loop stops at the root (the trace: `detach_common` on a root with no children; a root with several children or with intercepts stops there too), or cuts off a node carrying a before or after function, whose tests then lose that fixture (`DetachCommonPreservesTests`). |
| `assignments` (`TestAssignments.cfg`) | pass, 16503 states | For the chains `Nested`, `Three` and `Plain`, and for a test and its suite with one parameter each over every value string of up to three fields, `apply()` never reads past a parameter's values (`AssignmentsIndexValues`). When `bump()` returns true, the test has run with every combination exactly once (`EachCombinationOnce`). The loop ends (`IterationEnds`). |
| `assignments_tokenless` | violation | A value string with no tokens (" , ") leaves a parameter with no values. `create_assignments` still starts it at 0, and `apply()` reads `values_[0]` of an empty vector (`AssignmentsIndexValues`). |

`IndexOnlySpeedsUp` is what `state.hxx:33-35` promises: the index is an optional speed-up, so an address the scan described must be described the same way by the index. The scan is reachable because `prepare_address_index()` is public and documented as optional. `add_self`/`add_executable` call it only when reading succeeds.

Every property of a passing run has a mutant in `PROJECT.json`: a plausible bug in the mapped code that TLC must detect under the run's own cfg. The findings in `PROJECT.json` say, for each violation, what the code does and what the spec or a comment says instead.

## Bounds

* **Addresses:** 5 bits (0..31), with 31 as the base-selection marker. This is enough for two compile units with split functions, a base-selection entry and adjacent functions.
* **`describe_address`:** asked about every address, before and after the index is built.
* **Loader:**
  * up to `MaxAdds` = 3 calls, so every order of `add_self` and `add_executable` over the fixture's files, including repeats, is explored;
  * a 64-bit host (`HostAddrSize` 8, `header_length` 11, versions 2-4);
  * abbreviation codes 3 bits wide (`CodeWord` = 8). The wrap at `code+1` depends only on the code being the largest value of its type, so a narrower width shows the same behaviour.
* **Reflection:** one fixture holding an entry of each tag, encoding and array form the code branches on. Every type entry is a query input, plus the null reference and one dangling reference. Every function with an address is a possible answer of the index. The base types, typedef and compound types carry names, so `to_string` has text to print.
* **Assignments:** up to three parameters over two nodes. The value strings cover every way one to three fields fall into tokens and empty fields, so the tokenised lengths 1 to 3 and every carry pattern of `bump` occur. `MaxRuns` = 9 is the largest product, 3 x 3.
* **Test tree:**
  * 3 nodes, depth 2, the before and after function types, and one mock and one parameter;
  * depth 2 already has a chain of single-child ancestors, a branching node and sharing prefixes;
  * the iterator's defect needs depth 3, which its own run uses (5 nodes).

## Fairness

Only `TestAssignments` assumes fairness: `WF_vars(Next)`. Its steps are the runner's single sequential loop over a node's assignments: create, then apply, run, unapply and bump. That loop always takes its next step, so `IterationEnds` (`<>(phase = "done")`) is checked under weak fairness. Every other operation is a client call, and the code schedules nothing on its own, so no other module assumes fairness and checks no liveness.

## Deadlock

The loader, test-tree and assignments runs set `CHECK_DEADLOCK FALSE`:
* a loader behaviour ends after `MaxAdds` calls, or in `fatal()`, which exits the process;
* an assignments behaviour ends when `bump()` returns true, or after the undefined read;
* the test-tree runs end when discovery and the run phase are over, or in the null-pointer crash of `detach_common`.

## Not modelled

See `PROJECT.json` `components` for the reason for each part. In short:
* **Printing, formatting and string tables:** dump functions, `get_name`, `get_classification_as_string` and the enumeration name tables only build strings.
* **Attribute, abbreviation-entry and line-program decoding** (`abbrev_t`, `read_attributes`, `read_lineno_program`, not under `src/`): these are reduced to whether they succeed. `read_attributes` also fails on a code its unit's table lacks.
* **`assignment_t::as_string`:** it formats values and changes no state. `operator==` only compares the index vectors, which is how `IndexVector` is used to count runs.
* **`testnode_t::find`:** it changes no state. What is worth checking about it is the case where two nodes have one full name: `get_fullname` joins the parts with `.`, and `make_path` splits only on `/`, so a part `a.b` at the root and a part `b` under `a` collide. That case takes four nodes, and the test-tree run with four nodes did not finish in 15 minutes, so `find` is left out rather than checked at a bound where names cannot collide.
* **`describe_stacktrace`:** it only formats `describe_address` answers.
* **Outside `src/`:** `icunit.c`, `junk/memleak.c` and the platform layer.
