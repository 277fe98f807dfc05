# March, modelled and checked

March is a small stack language.  `marchc` reads a source file, compiles the
words it is asked for, stores the compiled code in an SQLite database as
content-addressed blobs, links what it needs into memory and runs it on a
direct-threaded virtual machine.  This directory holds TLA+ models of that
program, written from `src/src/*.c` and `src/kernel/x86-64/*.asm`, the TLC runs
that check them, and proofs that the TLA+ proof system checks.

Paths such as `src/src/compiler.c` start at the directory that holds `src/`.

## 1. The system

| part | state it keeps | operations | talks to |
|---|---|---|---|
| tokens (`tokens.c`) | position in the text, line, end of file seen | next token | compiler |
| dictionary (`dictionary.c`, `primitives.c`) | 256 hash chains of entries: signature, primitive or captured definition, priority, CID | add, lookup by name, lookup by name and types | compiler, runner |
| compiler (`compiler.c`) | captured definitions, stack of captured quotations, pending signature, type stack, depths at open array brackets, two code buffers, specialization cache, count of pending quotation references | read a file, compile a word for given input types (recursively, for each call), compile a quotation in a context, control structures, array literals | dictionary, database |
| code encodings (`cells.c`, `types.h`) | growing buffers of cells and of bytes | legacy cells (XT, LIT, EXIT) and the blob encoding (primitive number, inline literal, CID reference) | compiler, loader |
| database (`database.c`, `schema.sql`) | table `blobs`, keyed by the SHA-256 of the data | store a row (insert or ignore, one transaction for each), load a row | compiler, runner, loader |
| runner (`runner.c`, `marchc.c`) | none of its own | execute a word by name: compile on demand, link, run | all |
| loader (`loader.c`) | CID cache, allocated buffers | link a CID, recursively | database, machine |
| virtual machine (`kernel/x86-64/vm.asm` and one file for each primitive) | ip, data stack, return stack, running flag | run a cell stream | linked code |
| persistent map (`hamt.c`) | nodes on the C heap, shared between versions | new, get, set, remove, size, free | map primitives of the machine |
| array and memory primitives | allocated memory | alloc, fetch, store, length, at, set, copy | linked code |
| reference graph (`refgraph.c`), heap slots of the compiler | heap values of a word | track, release when dead (switched off) | compiler |

Everything runs on one thread.  What is hard here is not parallelism but

* **deferred work on shared stacks**: a definition is only captured; its
  quotations go onto one stack that belongs to the compiler, not to the
  definition, and are consumed later, by whatever is compiled then;
* **recursion through the whole compiler**: each call compiles its callee in
  the middle of the caller, so every piece of state is read before and used
  after arbitrary other work;
* **two encodings in parallel**: branch offsets are computed from one and
  written into the other;
* **three caches**: specializations by name and types, rows by hash, addresses
  by CID; each answers for something that may have changed or may not be what
  was asked for;
* **death of the process** between any two rows: the next process finds them;
* **text without a grammar**: a token ends where the next character says so, and
  what ends a string depends on the characters on both sides of a quote;
* **structure sharing** between versions of a map;
* **limits** on every table, some of them errors and some of them not.

What makes each part correct, and where it is checked: section 4.

Components that are not modelled, and why, are listed in `PROJECT.json`.

## 2. The modules

```
Tokens      (text to tokens)
Code ─┬─ Dictionary ── Compiler ──┬── March        (one process, tokens to result)
      ├─ BlobStore  (abstract)    │     ├─ INSTANCE Loader
      ├─ Loader                   │     └─ INSTANCE VM ── INSTANCE Hamt
      ├─ VM                       └── INSTANCE BlobStore (refinement)
      └─ Encodings  (items and cells as bytes and words)
Dictionary ── DictionaryLoops  (its loops, to compare)
MapStore (abstract) ── Hamt (refinement)
MCTokens, MCCompiler, MCEncodings, MCMarch, MCHamt: instances for TLC
CompilerProofs ─┬─ StoreProofs ── MarchProofs (also InductionProofs, INSTANCE HamtProofs)
                └─ DictionaryProofs ─┐
InductionProofs ─┬───────────────────┘
                 ├─ EncodingsProofs
                 └─ HamtProofs
TokensProofs
```

**Tokens** is `token_stream_next`, one character, or an escape and the character
behind it, a step.  `mode` says which function the C code is in: skipping white
space, `read_word`, a comment, `read_string`; `start` and `buffer` are its
locals.  Where a string is never closed the stream answers false, as it does at
the end of the file: mode `failed`.  A character is a letter or one of four
names, and `DigitValue` says which are digits, and how much.  `Numeral` is what
`strtoll` takes with base 0: decimal, octal and hexadecimal numbers up to
`MaxNumber`, with a sign or none and with any number of zeros in front.

**Code** models cells, items of the blob encoding, rows, and `db_store_blob`.  A
CID is the number of the row that holds the bytes: no two different strings of
bytes that occur are taken to have one SHA-256.  The hash covers the bytes and
not the kind, so `StoreBlob` keeps the kind a row was first stored with.  Data
are records that say what they were when they were stored (`form`); when two of
them are the same bytes is `SameBytes`.  Of different forms only a literal and
the code of four primitives can be (8 bytes; a string has more, and no code can
begin like the header of one): `TagLiterals` says which words of four
primitives some number has the bytes of.  `Shared` data are these.

**Encodings** puts bytes behind the items and words behind the cells: the two
bytes of a tag, the bytes of a literal, a CID; how the blob buffer and the
loader's array of cells make room; `decode_tag_ex`; and what the dispatch loop
takes a cell for.  A 16-bit tag is two of `Byte` values each, a cell `LitSize`
of them, so it has `CellWords` values, and a literal is one of as many `Numbers`.
It is checked by itself: that the loader reads the items the compiler
meant (`DecodesBack`) and that a cell does what its item means
(`CellsDispatch`) is what lets Compiler, Loader and VM work on items and cells
as records.

**Dictionary** holds the built-in entries with their signatures as
`primitives.c` and `compiler_register_primitives` register them, lookup by name
(newest first), `match_score` and the choice by score, priority and age of
`dict_lookup_typed`, and what `apply_signature` accepts and returns.  The C code
does all this in loops with early exits; the module says what they compute, and
**DictionaryLoops** has the loops, an iteration at a time: `MatchInput`,
`ApplyInput` and `TryEntry` are their bodies, records of the local variables
their states, and `MatchLoop`, `ApplyLoop` and `LookupLoop` what is returned.  The
third passes over a bucket, `dict` from its newest entry on and behind it what is
registered at start-up.  Its variables are the inputs: two signatures, which steps
make longer, and a type stack.

**Compiler** is the core.

| variable | C |
|---|---|
| `src` | what `token_next` has not returned yet |
| `phase` | where `main` is: reading a file, inside a definition, ready, compiling, linking, failed, crashed |
| `dict`, `defs` | user entries of the dictionary, `word_defs` |
| `quotStack`, `bufDepth` | `quot_stack`, `buffer_stack_depth` |
| `pendingSig`, `current` | `pending_type_sig`, local variables of `compile_definition` |
| `markers` | `array_marker_stack` |
| `blobs` | the table on disk |
| `specs`, `quotRefs` | specialization cache, `pending_quot_count` |
| `frames` | the C call stack of `word_compile_with_context`, `quot_compile_with_context` and the operations that wait for them; the last frame is `comp->cells`, `comp->blob` and the type stack, the others what the C functions saved in local variables |
| `target` | the entry `runner_execute` was called for |

A C function that calls the compiler recursively is split where it calls:
`CallMiss` enters the callee, `FinishCall` is what follows its return;
`BeginIf`, `EnterQuotation`, `FinishQuotation`, `CompileIf` are the stretches of
`compile_if` between its calls.  All error returns lead to `Fail`: `marchc`
prints a message and exits, and rows that were stored stay stored.  The one
error that does not end the process, a full type stack, is in `PushTypes`.
`compile_rbracket` emits a long run of literals and primitives, each literal a
row of its own, so the process may die between any two of them:
`CompileRbracket` puts that code in front of the tokens still to be compiled, as
`PutLit` and `PutPrim`, and `EmitLit` and `EmitPrim` emit it.

**Loader** is `loader_link_cid` and `loader_link_code`, item by item; its
recursion is the sequence `links`.  **VM** is the dispatch loop and the
primitives, all of them.  A machine word is a number, the address of linked
code, a position in code, a map or other memory.  A jump to anything that is not
code, a stack that leaves the memory it owns, an access to memory that is not
mapped and a division that traps end in the state `fault`: nothing in the code
checks them.  swap, rot, 2>r, 2r>, ! and c! load a stack item into rbx, the
instruction pointer, as in the assembly (`GoOn`); what walks along an array
leaves a pointer into it in rdi, the return stack (`DoLeaveStack`).  What is read
from allocated memory is any of `JunkWords`: no program gets as far as to read
back what it stored.  The map primitives work on the trie of Hamt, whose heap is
the variable `nodes`.  **March** composes Compiler, Loader and VM over the shared
table and memory, adds `runner_execute` as the driver, repeated runs in one
process (the machine's stacks survive a run), and the death of the process.

**Hamt** is the trie of `hamt.c` on an explicit heap: what `malloc` has
returned, in order.  Path copying, the dense slot arrays, the tag bit and the
counter in each node are kept; a freed node becomes empty.  `Memory` is the set of
heaps in which every child is a node.  The recursive C functions are recursive
functions of their arguments, heap included (`Calls`), and return the heap with
the node (`SetImpl`, `RemoveImpl`, `GetFrom`).  A level is one chunk of the hash;
as the code never gets past the last one while hashes differ, a call there does
nothing.  **MapStore** is the persistent map the code keeps: of a value, all but
its lowest bit (`Kept`).

Inputs are abstract where the properties do not look inside: a source is a
sequence of tokens, a signature declaration is one token, a name is a string, a
number a small integer.  Formatting, traces, the text of signatures and the
rows that hold it are left out.

## 3. Bounds, and what the code calls them

`MaxDefs`, `MaxQuotDepth`, `MaxTypeStack`, `MaxQuotRefs`, `MaxArrayDepth`,
`MaxSpecs` are `MAX_WORD_DEFS`, `MAX_QUOT_DEPTH`, `MAX_TYPE_STACK`,
`MAX_QUOT_REFS`, `MAX_ARRAY_DEPTH` and `MAX_SPECIALIZATIONS` with small values; run `recursion` reaches every one of
them.  `MaxFrames` is what the C stack holds.  `WordBits`, `MaxData` and
`MaxReturn` are the width of a word and the sizes of the two stacks: 8 bits make
arithmetic wrap and literals lose their upper two bits with the numbers the
programs use (31 and -32 are the limits of a literal); run `arrays` has 16, to
hold the sizes of arrays.  `MapHash` gives a key its chunks of hash: its bits.
`MaxRestarts`, `MaxRuns` and `MaxVersions` bound what has no bound in the code:
deaths of the process, calls of `runner_execute`, versions of a map.
`JunkWords` is what memory nobody has written, or the first bytes of a DOCOL
wrapper, may read as, and `GarbageTypes` what a type may be that is read from
an array nobody has set (`src/src/runner.c:45`, `src/src/compiler.c:1443`).

In Tokens `MaxWord` (255) and `MaxString` (1023) are what the two buffers hold
and `MaxNumber` the largest of 64 bits: with 4, 3 and 127 a file of five characters
passes each of them, a number of leading zeros is cut off and is one all the same,
and there are numbers on both sides of the limit in each base.

`TagLiterals` is `NoTagLiterals` but in the runs `code`, `store` and `restart`:
there the number 7 stands for the one, above 2^48, that has the bytes of four times
`march.map.new` (`TwinLiteral`).

In Encodings `Byte`, `LitSize` and `CidSize` are 256, 8 and 32; with 4, 4 and 9, a
`BlobCapacity` of 4 and a `CellCapacity` of 2 a word of four items doubles the
buffers several times and every tag needs its upper byte or not.  `MaxWords` is how many words are
encoded in one buffer, which is cleared in between.

## 4. The runs

Passing:

| run | what it asks |
|---|---|
| `code` | All bodies of up to five of `1 ( ) if times execute`, of up to four of `1 true drop [ ]`, nested control structures, array literals in the branches of an `if`, and two definitions of one name with 6 x 6 kinds of signature called at several types.  `EncodingsInStep`: the two encodings have one entry for each other, without which every branch offset behind is wrong.  `BranchesLand`: a stored branch is followed by its operand and lands on an instruction, never on an operand, as long as the source leaves `branch` and `0branch` to the compiler.  `QuotationsUsedOnce`: references to quotations, which nothing ever resets, are bounded by the depth of the quotation stack.  `RefsFitRows`: a reference is used as what its row was stored as, unless its row is one that a literal and a word of four primitives share; programs with such a word and literal, in either order, are among the sources.  `CacheSound`: a cached specialization was compiled from the definition resolution would choose for its types, though the key has only the bare name. |
| `recursion` | Words that call themselves and each other around and inside quotations, programs at each limit and with each error, and brackets that close over fewer types than they opened on.  `Terminates`, `CrashOnlyByRecursion`: a compilation ends, and fails for lack of C stack only when a word is compiled inside its own compilation.  `StacksBounded`: none of the tables and stacks in `compiler_t` is overrun; it does not speak of the text buffers of section 7.  `TypeOK` holds on all error paths. |
| `dictionary` | All pairs of signatures with up to two inputs against all type stacks up to three, as words of their own and as definitions of `swap`: the declarative operators equal the loops (`ScoreMatchesLoop`, `ApplyMatchesLoop`, `LookupMatchesLoop`), and a word that resolution selects for known types can be applied (`SelectedApplies`), although one walks the inputs from the bottom and the other from the top. |
| `store` | The compiling process dies after any step, also inside an array literal, and another one, with any other source, takes over the table, also where its literals are the words of the first.  `PendingClosed`: unfinished code refers only to rows already stored.  `TableSpec`: the table implements BlobStore: rows are only added, never two with the same data, whatever they are stored as, each referring to earlier rows only. |
| `restart` | The same with linking and running, and with programs that misuse the machine.  `CacheFaithful`: whatever is in the CID cache is the complete linked form of its row, also in the middle of linking others, after a failed link, and from run to run.  `LinkedOnce`: no row is linked twice or inside itself. |
| `execute` | Programs with calls, `if`, `times`, `times` with a condition, `execute` and counters, every arithmetic, logical and comparison primitive at the ends of the range of words and around zero, `>r`, `r>`, `r@`, `rdrop` and `i0`, and programs that build a map, derive another version, drop it and look into the first; each run twice.  `RunsAsWritten` compares the data stack with a meaning read off the tokens (module MCMarch), which is defined another way than the model (bits as sets, division by its remainder, maps as functions), and says that the machine faults only where a division traps and that the return stack is empty at the end.  `RunEnds`: every run ends. |
| `maps` | Up to three versions derived from several initial histories, with four keys that collide on no, one and two chunks of the hash, and an even and an odd value.  `MapSpec`: the trie implements MapStore, so no update changes an older version.  `GetAgrees`, `SizeAgrees`: `hamt_get` finds exactly what is there; the cached count is the number of keys. |
| `tokens` | Every file of up to five of space, newline, quote, backslash, `-` and `1`, strings of quotes, backslashes and spaces, and every pair of tokens of a vocabulary, spelled with comments and line breaks between them, and words that are just numbers, and just not, in base 8, 10 and 16.  `NothingLost`: what has been read is white space, comment or in exactly one token.  `WordsWhole`, `StringsWhole`: words and numbers reach from space to space, cut off where the buffer is full, strings to the first quote that closes them, and the stream fails only where none does.  `LinesRight`: the line of a token counts the newlines before it, but for those in strings.  `ReadsBack`: a list of tokens, spelled with quotes and backslashes escaped, is read back, each as what it is.  `ReadsOn`: every file is read to its end. |
| `encodings` | Two words after each other, each of up to two items of every form, or one of three longer ones.  `Fits`: nothing is written past what has been allocated.  `InBounds`: `decode_tag_ex`, which is not told where the bytes end, does not read past them.  `DecodesBack`, `CellsDispatch`: the items are read back, and each cell does what its item means.  `EveryWordLinked`: the loops that make room and the one that decodes come to an end. |

Why the bounds are enough: three quotations cover every control structure with
one to spare; six kinds of signature cover concrete, variable, repeated
variable, `any` and none; two definitions and one caller cover shadowing,
overloading and mutual recursion; brackets nest twice, close over more, equally
many and fewer types than they opened on; the trie has its own run, so two keys
are enough where the machine uses it; one restart with any second program
covers what a process can find, since a table is all that survives; a second run
of a word is the only different kind of run; four keys give every shape of node
with zero to two levels of collision; what a token is depends on its first
character and on two around its end; a second word in a buffer is the only
different kind of word.

Violations, each of one statement of the repository (quoted in `PROJECT.json`):

| run | what happens |
|---|---|
| `stray_quotation` | a quotation left behind by one word becomes the loop body of another |
| `strings` | strings are stored as `BLOB_STRING`, which is the number of `BLOB_QUOTATION`, and linked as code |
| `arrays` | the code of an array literal has the operands of `!` the wrong way round and stores an address at a small number |

Met while modelling, visible in the models, without a run of their own:

* `swap`, `rot`, `2>r`, `2r>`, `!` and `c!` load a stack item into the
  instruction pointer (`swap.asm:15`): the program of `test_vm.c:143` leaves the
  machine's code;
* all quotations of a definition are pushed before its first word that is not
  immediate, so the first `execute` of `test/test_execute_twice.march` runs the
  first quotation with the address of the second below its result, and the
  second takes that result for an address;
* a map clears bit 0 of its values (`hamt.h:48`), although `hamt.h:17` promises
  64-bit values;
* `compile_if` pushes the types of the true branch without looking at the false
  one, and on top of the types that were there, so `4 0 ( drop ) ( drop ) if`
  leaves types for values that are gone;
* a word that contains quotations compiles correctly only the first time, since
  its captured quotations are gone afterwards; when an inner quotation closes,
  the rest of the outer one goes on being captured into the inner one;
* `]` may find fewer types than its `[` did (`[ drop ]`), or those of another
  word: the array gets a negative length and the types below it are whatever the
  stack held before;
* four primitives are as many bytes as a literal, and rows are found by their
  bytes: where the literal is compiled first, the word gets a row of kind
  `BLOB_DATA`, is referred to as a word (`compiler.c:853`), and the call goes to
  eight bytes that are no machine code; the other way round, the literal is the
  first bytes of a DOCOL wrapper (`database.c:182-187`).  Such literals are above
  2^48, so no program meets one by chance;
* a word longer than 255 characters is cut off without an error, to the name of
  another word or, if it begins with zeros enough, to a number;
* a string that is never closed, and a definition without `;`, are accepted: the
  token stream answers false as at the end of the file, and the definition ends;
* newlines in strings are not counted, so the lines of the tokens behind them
  are too low;
* a specialization is cached by name and types (`compiler.h:121`), but what `]`
  compiles also depends on how many types there are below the bracket: with
  `$ -- ; : f ;  $ array -- ; : f ] drop f ;  : g [ [ ] [ f ;` the second `f` is
  compiled for the same types inside its own compilation with fewer brackets
  open, both versions go into the cache, and the older one answers
  (`compiler.c:775`, `compiler.c:821`);
* `match_score` refuses a mutable array where the comments in
  `primitives.c:163-166` accept it;
* `times` with two quotations ends when the condition is not zero, where
  `PLAN-QUOT-LITERALS.md` says otherwise; `encode_lst` shifts by three bits and
  the machine by two (`cells.c:26`, `vm.asm:174`).

## 5. Fairness

There is one thread and no scheduler: once `runner_execute` has been called, the
compiler takes its next step until it returns.  Hence `WF_vars(CompileStep)` in
Compiler and, for what is left of that call once the word is compiled,
`WF_allVars(Running)` in March.  Nothing is
assumed of the user (calling `runner_execute`) or of the death of the process;
a run that asks for liveness allows no deaths, as a dead process owes nothing.
Tokens and Encodings have `WF_vars(Next)`: their loops take no input but the file
or the word they were given, and run until they are through.
Deadlock checking is off: a process that has finished, failed or crashed stops.

## 6. What is proved

Of Compiler, for all sources, limits, garbage types and numbers of restarts that
satisfy `ConstantsAssumption` (the constants have the types one expects; limits
may be zero):

* `TypeCorrect` (CompilerProofs): `Spec => []TypeOK`.  `TypeOK` is not inductive: a
  step pops a frame only because the frame below waits for it, and applies
  definitions that the dictionary points to.  The inductive invariant is
  `TypeInv == TypeOK /\ DictOK /\ FramesOK(frames)`: user entries point into
  `defs`; a frame that waits has the operands of what it waits for; each frame but
  the last waits for the one above it; the first is a word.  `Invariant` states it.
* `ReferencesClosed` (StoreProofs): `Spec => []PendingClosed`, by
  `StoreInv == TypeInv /\ FramesClosed /\ SpecsClosed /\ TableClosed`.  It says
  more than where references point: each is to a row, and to code if and only if
  the reference is to code, but for `Shared` rows (`ItemsFit`), in what is being compiled, in what waits
  to be inlined and in the table; cached specializations are rows of code, which
  is what a cache hit emits; and data of each form are stored under a kind that
  `Suits` it.
* `StoreRefinement` (StoreProofs): `Spec => TableSpec`.  Every action either leaves
  the table alone or is one `Put` of BlobStore; `StoreIsPut` shows it of
  `StoreBlob` for data whose references fit, `StoreInv` supplies that.
  Crashes need no extra argument: `Restart` keeps the table, and the invariant
  says nothing about it that a lost process could have promised.
* `CacheIsSound` (StoreProofs): `Spec => []CacheSound`, by
  `CacheInv == TypeInv /\ CacheSound /\ CallsFit /\ NothingYet`.  What goes into the
  cache when a call returns is named by the types its callee was entered with, so
  the invariant has to say of every call in progress that those are the inputs of
  the entry resolution selects for the caller (`CallsFit`).  That resolution
  selects the same definition for the types of a whole stack and for just those
  inputs is a lemma on the operators (`LookupOfInputs`): a score looks at no type
  below the inputs, and an entry with more inputs cannot score on fewer types.
* `NoOverflow` (CompilerProofs): `Spec => []StacksBounded`, by
  `BoundsInv == TypeInv /\ FramesBounded /\ TablesBounded`: the type stack of every
  frame on the C stack is within its limit, also of those that wait, and so are the
  outputs of the quotations they have compiled, which are pushed when they go on.
  These are the tables and stacks of `compiler_t`, not the text buffers of section 7.
  Every way a frame gets its types is bounded by `PushTypes`, which drops what
  does not fit, by a check, or by taking types away; a bracket raises the stack
  only to a depth it has had (`markers`).
* `ConsumedOnce` (CompilerProofs): `Spec => []QuotationsUsedOnce`.  The count of
  references alone is not inductive: a quotation leaves the stack long before the
  reference to it is counted, and compiling it may consume others.  Hence the
  frames that are consuming quotations are counted too (`Used`).
* `CrashNeedsRecursion` (CompilerProofs): `StackIsDeep => (Spec => []CrashOnlyByRecursion)`,
  by `CrashInv == UsedInv /\ AllKnown /\ Full`.  A frame that compiles a quotation
  lies on one that is consuming quotations, and of those there are at most
  `MaxQuotDepth` (`UsedInv`); a frame that compiles a word compiles a definition that
  exists (`AllKnown`), so without recursion there are at most `MaxDefs` of them; and
  the compiler crashes only when there are `MaxFrames` frames (`Full`).
  `StackIsDeep == MaxFrames > MaxDefs + MaxQuotDepth` is a hypothesis of the theorem and
  not an assumption of the module, as the other runs want a shorter C stack.  In
  the code that is 256 + 16 = 272 nested compilations (`MAX_WORD_DEFS`,
  `MAX_QUOT_DEPTH`), each with some kilobytes of saved types, on a C stack of megabytes;
  run `recursion`, with 8 > 2 + 2, satisfies it too.
* `EncodingsStayInStep` (StoreProofs): `Spec => []EncodingsInStep`, and
  `ControlFlowLands`: `NoRawBranches => (Spec => []BranchesLand)`, by `CodegenInv`:
  what is stored lands because what is being compiled and what waits to be inlined
  does (`RowsLand`, `FramesGood`), and that does because of the tokens it comes
  from, as captured in definitions and quotations (`SourceWritten`), and because no
  user entry is a primitive.  A segment that lands by itself lands wherever it is
  put, unless the item in front of it is a branch (`SegmentLands`); from it and the
  offsets follow `IfLands`, `TimesLands` and `UntilLands`.  The hypothesis is
  needed: `branch` and `0branch` are words like any other, and a source that
  compiles one without an offset behind it gets what it wrote.  No program under
  `src/test/` does; the module MCCompiler asserts it of every source of the runs.
* `ReferencesFitRows` (StoreProofs): `NoStrings => (Spec => []RefsFitRows)`, for any
  `TagLiterals`.
  `StoreInv` gives that a reference is to code if and only if its row holds code,
  or that the row is `Shared`, whatever the source; `CodegenInv` that no row holds a
  string if no source has one.  What a row is found for has the same bytes, so it
  fits as well (`SameBytesFit`), and a row that is not shared is of the form it was
  stored as.  Of shared rows it is false (section 4), and so it is with strings: that
  is run `strings`.
* `LookupTypedTyped`, `StoreBlobTyped` (CompilerProofs): the lemmas on the two
  operators everything else is built on.

One lemma for each action; lemmas on the stack of frames (`SetTop`, `Enter`,
`PopFrame`) are shared between the invariants.

Of March, for all sources and programs, any number of runs and of deaths:

* `CacheStaysFaithful` (MarchProofs): `MarchSpec => []CacheFaithful`, and `EachLinkedOnce`:
  `MarchSpec => []LinkedOnce`, by
  `MarchInv == StoreInv /\ RowsEarlier(blobs) /\ MemoryOK(cache, heap, links, blobs) /\ (vm # "idle" => phase = "link")`.
  Rows refer to earlier rows only, which is what BlobStore promises; so the calls
  of the loader, from the outermost in, link ever earlier rows, none of which is in
  the cache yet, and a call that returns cannot find that its CID has been linked
  meanwhile.  The cells of a call in progress are already what the first items of
  its row must become.  The machine writes to the memory linked code lives in, but
  never to linked objects; the table does not change while anything is linked or
  runs.
* `NoStrayAddress` (MarchProofs): `NoCollisions => (MarchSpec => [](LoaderLive /\ MachineLive))`,
  and from it `MachineTyped`: `NoCollisions => (MarchSpec => []MachineTypeOK)`, by
  `MachineInv == MarchInv /\ LoaderLive /\ MachineLive`.  Types alone are not inductive:
  `execute` takes an address off the stack and goes there, `exit`, `swap`, `rot`, `2>r`
  and `2r>` make an instruction pointer of what happens to be on a stack, and the
  primitives on maps hand a number from the stack to the library.  So the invariant says
  of every value within reach (`LiveValues`) that an address or position is of an object
  in memory and a map a node of the library, of every cell, in memory or still being
  linked (`LiveCells`), that what it refers to is in memory, and of `ip` that it is at a
  cell while the machine runs.  Memory only grows while a process lives, so what is live
  stays so (`MemoryGrows`); there is one lemma for each group of primitives, and the
  arithmetic stays in whole numbers (`CalculateTyped`).  The primitives on maps are
  answered by the lemmas of HamtProofs, of which `HP` is the instance for the keys and
  hashes of the machine; `SameLibrary` shows that it is the library VM calls.  Hence the
  hypothesis `NoCollisions`, that no two numbers have the same hash (see section 7).
  `MachineAssumption` says that a word has room for two bits of tag and a sign, and that
  every number has a hash, of the same length.

Of DictionaryLoops, for signatures and stacks of any size (`InputsAssumption`: they
consist of types, and names are strings):

* `ScoresAgree` (DictionaryProofs): `Inputs => []ScoreMatchesLoop`, from `ScoreIsLoop`.
  After i inputs the loop has not returned if and only if the first i can be matched
  (`Fine`), the score is the points for them, counted by sets (`Points`), and a
  variable is bound to the known type that all its known values so far have, or not
  bound (`Bound`).
* `ApplicationsAgree`: `Inputs => []ApplyMatchesLoop`, from `ApplyIsLoop`: the same of the
  inputs in the other order (`Mirrored`).  What a variable is bound to at the end is
  its topmost known value, since all its known values are equal (`BindingIs`).
* `LookupsAgree`: `Inputs => []LookupMatchesLoop`, from `LookupIsLoop`, which is about a
  dictionary of any entries.  After i places of the bucket there is no match among them,
  or the entry that is kept beats all those that match (`Leads`).  One entry beats all
  others only if no two have the same place, that is, if nothing is registered at
  start-up twice (`OneEntry`).
* `SelectionsApply`: `Inputs => []SelectedApplies`, from `ScoredCanBeApplied`: where no type
  is unknown, an agreement of the values of a variable with the lowest is one with
  the topmost.

Of Tokens, for every file, every largest number and all sizes of the two buffers
(`TokensAssumption`: the word buffer holds more than two characters; otherwise a word
that begins with `--` could be cut to `--` and be taken for a comment.  The code
has 255):

* `StreamTyped` (TokensProofs): `Spec => []TypeOK`.
* `WordsAreWhole`: `Spec => []WordsWhole`, by `WordInv`: between tokens
  a space has just been read or comes next, so a word can only begin behind one;
  while a word is read there is no space in it and the buffer is its first
  `MaxWord` characters.  A string ends only before a space, which is what keeps
  the first part true.
* `StringsAreWhole`: `Spec => []StringsWhole`, by `StringInv`: in a string, every
  quote read so far has been looked at, and behind the last character that is no
  backslash there is an even number of backslashes: an escape takes two characters,
  so none is left over where the next step begins.
* `NothingIsLost`: `Spec => []NothingLost`, by `PlaceInv`, the tokens lie one behind
  the other in what has been read, and `LossInv`: where a token begins no comment is
  open, and what is skipped as a comment is one.  A word that turns out to be `--`
  is the one place where what is being read changes from a token to a comment.
* `LinesAreRight`: `Spec => []LinesRight`, by `LineInv`: the line is counted up to where
  the stream is, or up to where the open token began.

Of Encodings, for all words, widths, capacities and addresses that satisfy
`EncodingsAssumption` (capacities are at least 2 bytes and 1 cell; two bytes hold
the tags of all kinds, `Byte >= 4`: with fewer values a tag loses its upper bits
and is taken for another; words hold what the compiler makes, `Encodable`;
primitives have different numbers, which fit a tag, and rows different CIDs;
addresses are aligned and fit a cell, those of rows with three bits to spare,
since the address of a quotation is pushed as a literal.  The code has 256 values
and 8 bytes, and user addresses of 47 bits):

* `BuffersFit` (EncodingsProofs): `Spec => []Fits`, by `RoomInv`, which adds that a
  capacity is never below what it was at first and that a tag is two bytes:
  doubling once makes room for two bytes because the buffer holds at least two,
  whatever is in it, and the loader's array has room for one cell more after
  `capacity++`.
* `DecodingStaysInBounds`: `Spec => []InBounds`, by `ItemInv`: what is stored is one item
  behind the other, and `ptr` is where one begins.  As an item is appended in
  pieces, with room made in between, the invariant is about the buffer together
  with the pieces that are still to come.
* `BytesTyped`: `Spec => []TypeOK`, `BytesMeanItems`: `Spec => []DecodesBack`, and
  `CellsMeanItems`: `Spec => []CellsDispatch`, by
  `CodecInv == TypeOK /\ RoomInv /\ StreamInv /\ LinkedInv`.  `StreamInv` gives where
  each item begins (`at`), and what bytes are there: those of its tag, its CID or
  its literal.  What remains is arithmetic: the bytes of a number add up to it,
  by induction on how many there are (`LowBytes`, `Power`), in two's complement;
  a tag tells primitives from references; a cell keeps all but two bits of its
  number.  Each cell linked so far is that of its item (`LinkedInv`).

Of Hamt, for all keys, hashes, values, histories and numbers of versions that
satisfy `HashAssumption` (no two keys have the same hash, and hashes have the same
length; what happens otherwise is in section 7):

* `AlwaysTries` (HamtProofs): `Spec => []TrieInv`, where
  `TrieInv == TriesIn(nodes, versions)`: the heap is in `Memory` and its counters are
  numbers (`Counted`), and below the root of each version that has not been freed there
  is a trie (`Rooted`, `Good`): its children are tries one level down, a leaf is where
  the chunks of its key lead, there are finitely many pairs, and the counter is how
  many.
* `TrieTyped`: `Spec => []TypeOK`, `GetFinds`: `Spec => []GetAgrees`, and `SizeCounts`:
  `Spec => []SizeAgrees`, from it.
* `MapRefinement`: `Spec => MapSpec`, the trie implements MapStore.  The argument:
  1. `SetImplIs`, `RemoveImplIs`, `GetFromIs`: each recursive function exists and is
     what its definition says for every call, since the level only grows.
  2. `SetWorks`, `RemoveWorks`, `GetWorks`: what a call does to the leaves below a
     node, by induction on the levels that are left.  The case of two keys in one
     slot is two calls after each other, on a heap that the first has extended.
  3. Memory only grows and what was there is not written (`ExtendsSame`), so the
     older versions keep their contents.
  4. `hamt_free` empties what one root reaches.  Since nothing else reaches that
     (`Unshared`, which is left to the caller of `hamt_free`), the other versions are
     what they were (`SameGood`, `Release`).

`Good` is defined by recursion on the level, as the function of that kind that
satisfies its equation (`Goods`, a CHOOSE over functions), which TLC cannot evaluate;
run `maps` checks what follows from `TrieInv`.

The recursive definitions of Encodings, Hamt and DictionaryLoops are reasoned about
with module InductionProofs.  The library's induction theorems take a predicate for
an argument, which the provers cannot instantiate; there, induction is stated of the
set of numbers that have a property (`Induction`), and recursion of functions: one
that is defined from its previous value exists (`Recursion`; for a loop with a last
iteration, `LoopRuns`, and what each iteration keeps holds at the end, `LoopKeeps`), one
whose arguments are ranked and that looks only at lower ranks too (`FixedPoint`), and
two that satisfy such a definition agree (`AgreeByRank`).

Only model-checked, and why:

* `Terminates`, `RunEnds`, `ReadsOn`, `EveryWordLinked`: liveness is out of the
  prover's reach.
* `RunsAsWritten`: the meaning of programs is itself a recursive operator, of the
  instance.
* `ReadsBack`: it compares with a spelling defined in the instance.

## 7. What is not modelled, and what is left

Not modelled, because nothing of it can change what the program does: the
reference graph, heap slots and the release of dead values (`refgraph.c`,
`push_heap_value`; never entered or switched off), the legacy words table, the
rows of type signatures, cells with the tags LST, LNT and EXT, traces and crash
reports (`debug.c`), columns of tokens.  Not modelled, because it is text: the
spelling of signatures.  `compiler.c:803` writes them into 256 bytes and
`compiler.c:1707-1708` into 128 each, one item for each type of a stack of up to 256,
and nothing checks the length: these buffers can be overrun, and no property here
speaks of them.  Nor are NUL characters in a file modelled, and the types in a
signature declaration inside a definition: the declaration is captured up to its
`;`, which ends the definition (`RestOfDefinition`), and its `$` does not compile.
Not modelled, because it is not this program: the vendored libhamt, the Rust stub, the OCaml excerpts, and the programs under
`src/test/` that are written in an older syntax.  Of the array primitives, the
contents of the memory they work on: no array is ever completed (run `arrays`).
Running out of memory is not modelled, except where `alloc` is asked for a
negative size.  Two keys with equal hashes send `hamt_set` down for ever
(`hamt.c:278`); Hamt assumes there are none (`HashAssumption`).

Left to prove: `RunsAsWritten` and `ReadsBack`, should the meaning of programs and the
spelling of tokens be written without recursive operators.

## 8. How to run

```
tlc -config MCCode.cfg MCCompiler        # likewise the others, see PROJECT.json
tlapm StoreProofs.tla
```

Definitions named in a comment "Mutant of X" are X with a plausible mistake; no
specification uses them.  Replacing X by its mutant must break the property
`PROJECT.json` pairs them with.
