# TLA+ models of img3

This directory holds TLA+ models of the img3 tool (`src/src`), the TLC configurations that check them, and `PROJECT.json`. `PROJECT.json` maps every modelled definition to the source lines it translates. It also lists the runs, the mutants, the findings and the hazards.

## The system

`img3` is a single-threaded command-line tool for Apple IMG3 firmware files. `main` (`IMG3_Main.cpp`) parses the arguments and dispatches one command from `IMG3_Functions.cpp`.

| Command | Function | What it does |
|---|---|---|
| decrypt | `DecryptIMG3File` | Opens the archive with the ZIP reader and extracts the matching members (or takes the file itself when it is not a zip). For each file it maps the file, parses it with the container parser, and decrypts the DATA payload with the OpenSSL wrapper and a key from the sqlite key store (`DecryptIMG3Data`). If the result carries the LZSS magic it decompresses it. Then it writes the result out. |
| update | `UpdateIMG3Database` | Maps a saved HTML page, parses it with the HTML parser (`ParseHtmlTags`) and stores its (section, IV, Key) records in the key store. |
| patch | `PatchKernelFile` | Opens output and patch files, maps and parses the firmware. It gives up at line 441, because `encryptedData` is never set. |
| parse | `ParseIMG3File` | Maps a file, parses it and prints the sections. |
| decompress | `DecompressLZSSFile` | Maps a file, decompresses it and writes the result. |
| list | `ListArchiveFiles` | Uses only the ZIP reader. |
| extract | `ExtractFileFromArchive` | Uses only the ZIP reader. |

The commands share process-wide resources:
- the static descriptor slot `fd` of `MapFileToMemory` and `UnmapFileFromMemory`;
- the process's descriptor table, with 0, 1 and 2 open;
- heap buffers passed between functions by pointer.

## Modules

**LZSS codec** (`IMG3_LzssInterface.cpp`)
- `LzssCommon`: the constants, the magics, `lzadler32` (a fold) and `IsFileCompressed`.
- `LzssTree`: `InitState`, `InsertNode` and `DeleteNode` over the `lson`/`rson`/`dad` arrays. Each is an operator, and the tree walk is RECURSIVE.
- `LzssCompress`: `LzssCompress` and `Compress` as a state machine with one action per step:
  - read the first F bytes (`CompressStart`);
  - insert the F strings before `r`, one per step, then the string at `r` (`PrimeInsert`, `PrimeDone`);
  - encode one unit;
  - flush a group of eight;
  - slide the window, while reading and at the tail.
- `LzssDecompress`: `LzssDecompress` and `Decompress`, with one action per decoded literal or match and one for the loop's exit.
- `LzssCodec` composes the two. It compresses an input, then decompresses the output.
- `LzssDecoding` runs the decoder alone on arbitrary headers and bodies. A ring slot never written reads as `Junk`, and a byte past the buffer reads as `Beyond`.
- The ring size N, the match length F, THRESHOLD and the header size are constants scaled down to N=8, F=4, THRESHOLD=2 and header size 2. This keeps the input space enumerable. The code is written for general N and F.

**Container parser** (`IMG3_FileInterface.cpp`, `IMG3_FileSection.cpp`)
- `Img3Container` covers `ParseFile` (the clear of the old list, the BASE checks and the scan loop), `ParseSection` and `WriteSectionData`.
- The file is revealed lazily: the header at an offset is chosen when the scan first reads it. Offsets are taken mod 2^W.
- `MaxSections` caps the sections list. A scan that reaches the cap stands for a loop that keeps pushing sections until `new` fails.

**Command functions** (`IMG3_Functions.cpp`)
- `FirmwarePipeline` has one record variable, `res`, holding the process's resources:
  - the `fd` slot;
  - the open descriptors, and which of them the mapping code opened;
  - live mappings;
  - the two FILE streams of `PatchKernelFile`;
  - the state of each heap buffer (none, live or freed);
  - a `misuse` history.
- Each helper (`MapFileToMemory`, `UnmapFileFromMemory`, `WriteDataToFile`, `close`, `fclose`, `new`, `delete`) is a pure operator from `res` to `res`. An action composes them in the code's order, including each goto cleanup chain.
- Each step of a command, up to the next call whose result is a branch, is one action. The collaborators' results are choices: the zip outcome, parse success, key found, open/fstat/mmap/fopen/fwrite outcomes, and decompression success by length.

**ZIP reader** (`IMG3_ZipInterface.cpp`)
- `ZipArchive` models one `IMG3_ZipInterface` object from its construction in a command to its destructor:
  - `AnalyzeFile` with `FindCentralDirectoryEnd`;
  - `ExtractCentralDirectoryListings`, one action per directory record;
  - the client's use (`ListNames`, `ExtractFiles` one node at a time, `ExtractAllFiles`);
  - `Destroy` (`ResetData`).
- A record is one of four kinds: bad marker, fits, tail overruns, or copy overruns. Its name is a model value, or `uninit` when `fileNameLength` is 0.
- The `strncpy` at line 310 leaves every name without its NUL, so `strcasestr` in `ExtractFiles` reads past it. A name that holds the section matches; any other name may match through the heap bytes after it.

**Key store** (`sqlite3/IMG3_Sqlite3.cpp`)
- `KeyMap` is what spec.md §6 says the key store is: a map from (device, version, section) to a key and an IV. An upsert stores its pair and reports success, or changes nothing and reports failure, or is abandoned when the process dies. A lookup returns the stored pair or NotFound.
- `KeyStore` models `IMG3_Sqlite3` over the database file, which outlives each command. `tables[d]` holds the rows of device d's table in rowid order, and `created` holds the tables that exist. Each command builds its own object, so `StartCommand` begins an update (one key page of records) or a lookup. The actions follow the code's statements:
  - `Connect` is the lazy `ConnectToDatabase`;
  - `DeviceExists`, `SectionExists` and `CreateTable` are the checks at the head of `InsertDecryptionInfo`;
  - `UpdateKey` and `UpdateIV` are the two UPDATEs, and `InsertRow` is the INSERT;
  - `Select` is `RetrieveKeyAndIV`, which reads the first matching row;
  - `Finish` is the destructor's close.
- Every statement may fail at a point of `FaultPoints`. The process may die at a point of `CrashPoints`. Each statement commits on its own, so whatever it wrote stays.
- The refinement mapping reads the abstract map from the first matching row (`kvBar`). An upsert is pending from its checks until its last write. A Key update that changed the key counts as the upsert completing only once the IV is written too; the history variable `before` tells whether it changed the key.
- The UPDATE names the table without quotes, while CREATE and INSERT quote it. So a device in `Quoted` fails every update.

**Command line** (`IMG3_Main.cpp`)
- `CommandLine` models `ParseArguments` and `main`. `pc` is the point reached:
  - the command word and the argc test of its case (`SelectOperation`);
  - one pass of an option loop per step (`OptionStep`, with the bounds and value flags of each command's loop);
  - list's `-h` test;
  - the trailing file names (`CopyArchive`);
  - the device name and version derived from the archive name (`DeriveName`, `DeriveVersion`), which decrypt and patch share;
  - update's page-name, build and version steps, including the build prompt loop (`ConfirmBuild`);
  - `main`'s `exit(1)` or the call of the command.
- An argument is a token. `Info[t]` holds what `strlen`, `strstr` and `strchr` find in it: its length, the known device it names and the offsets of the first `,`, the first two `_`, the `=` and the `(`.
- Each global `char*` is a buffer record: the allocation, the bytes copied and the offset of the first NUL written (`None` if no NUL was written). `maxRead` is the largest argv index read. `misuse` records writes past an allocation.
- `new` throws rather than returning NULL, so the NULL checks after it are left out. `PrintUsage` only prints.

**HTML key-page parser** (`html/IMG3_HtmlParser.cpp`, `html/IMG3_HtmlTag.cpp`)
- `HtmlParser` models one `ParseHtmlTags` call with the filters `UpdateIMG3Database` adds (`a`, `li`, `span`, `ul`).
- The page is a sequence of tokens rather than characters: an opening, closing or self-closed tag with a name, a comment, a tag with no `>` after it, a tag longer than `MAX_TAG_LENGTH`, and text that is a section name, blanks, `<b>IV</b>: v` or `<b>Key</b>: v`. A tag's position in the sequence stands for its address, which is all the code compares.
- `pc` follows the phases of `ParseHtmlTags`:
  - `scan`: the `strchr` loop, with one action per token kind (`ScanText`, `ScanComment`, `AddOpeningTag`, `AddClosingTag`) and `ScanEnd` for its three exits;
  - `combine`/`closing`: one pass of `CombineTags`, with one `CombineClosing` step per closing tag of the front tag's name, and `CombineEnd` for its return value; a return of 1 starts another pass;
  - `retrieve`: `RetrieveDataBetweenTags`, one pair per step, with `SetData`'s trimming as `Trim`;
  - `extract`: after `SortTagsById`, `ExtractDecryptionInfo`, one `<ul>` per step.
- A dereference of NULL data, `--begin()` on the sorted list, `closingTags.front()` on an empty list and the memcpy of a wrapped length are undefined behaviour. Each goes to the terminal state `crashed`.
- The reference, `ExpectedRecords`, is the structure the comment at lines 441-447 describes: for each `<ul>` of interest whose content holds an IV and then a Key, a record of the IV, the Key and the content of the last tag of interest opened before it.
- `MC_HtmlParser` builds the pages: two blocks and an end. A block is a key entry, an entry whose name is in a link, a plain list, noise, or one of six faulty blocks. `MCNestedPages` puts a table of contents with a nested list, a stray `</li>` or an `<li>` left open before one block.

## Runs

**Passing runs**

| Run | Properties | What it shows |
|---|---|---|
| `lzss_codec` | TypeOK, SearchTreeWellFormed, RoundTrip, BodyWithinAllocation | For every input of up to 8 bytes over a 3-letter alphabet:<br>- the tree stays a binary search tree with consistent parent links;<br>- the output stays in its allocation;<br>- decompressing gives back the input with a matching checksum. |
| `pipeline_resources` | NoMappingLeftOnReturn | Every command unmaps on every exit path of its goto chain. |
| `cli_arguments` | TypeOK, ArgvReadsInBounds, ParseArgumentsTerminates | For every command word with up to four arguments after it (six for patch), no option loop reads past `argv[argc - 1]`, no derived length goes negative without crashing, and `ParseArguments` always ends. |
| `keystore` | TypeOK, KeyMapRefinement | Three commands run one after another. Any statement whose failure the code turns into a clean -1 may fail, and the process may die between statements, except between the two UPDATEs. Under those faults, `UpdateDatabase` and `RetrieveKeyAndIV` implement `KeyMap`. The faults that break it (a step error in `DoesSectionExist`, a failed IV update, a crash between the two UPDATEs) are left to `keystore_faults`. |
| `zip_listing` | TypeOK, ListingMatchesDirectory | A successful analysis lists one name per record, in directory order and in step with the nodes `ExtractFiles` walks. |
| `html_parse` | RecordsMatchPage, ParseHtmlTagsEnds | On every page of two blocks and an end, `ParseHtmlTags` returns or crashes, and it never loops. Stray and open tags come only at the end of these pages, so the hang is left to `html_nested`. When extraction finishes, the decryption list is exactly the page's entries. When an IV-only list stops extraction early, the list is a prefix of them. |

**Violation runs.** Each one is a finding in `PROJECT.json`.

| Run | Property | What TLC finds |
|---|---|---|
| `img3_scan_loop` | ScanTerminates | A section whose `totalLength` is 0 leaves `currOffset` in place, and one of 7 with 3-bit offsets wraps it backwards (3, 2, 4, 3, ...). `ParseFile`'s loop (line 201) never reaches `totalImg3Length` and keeps pushing sections, while spec.md §4.2 says the scan terminates when the offset reaches it. |
| `lzss_decoder_memory` | DecompressMemorySafe | The header's lengths are trusted, so the decoder reads past its input and writes past its output. |
| `keystore_faults` | KeyMapRefinement | `DoesSectionExist` returns -1 for an `sqlite3_step` error just as for "no row". `InsertDecryptionInfo` then inserts a second row and returns 0, while lookups keep returning the first, older row. A failed IV update, or a crash after the Key update, likewise leaves a key and IV that were never stored together. |
| `pipeline_double_free` | HeapDiscipline | A failed decompression leaves a dangling pointer, which is then written and deleted again. |
| `html_nested` | ParseHtmlTagsEnds | A closing tag that no opening tag qualifies for makes `CombineTags` return 1 forever: nothing is removed, and `update` hangs. This happens when no opening of its name precedes it (a stray `</li>`, the trace TLC shows). It also happens when two or more unpaired openings of its name precede it and none follows: an `<li>` left open before an entry, or a nested contents list with no later `<li>`. A nested list followed by an entry pairs correctly. |
| `cli_parsed_usable` | ParsedArgumentsUsable | `img3 decrypt <file>` gets status 0 from `ParseArguments`, but the version's NUL lands in `deviceName` (line 373). The device name is cut short, the version has no NUL, and `section` is NULL. |

**Defects recorded without a run.** Each of these lies on a path that a single test of its command reaches, so none is given a run:
- `IsFileCompressed` (`IMG3_LzssInterface.cpp:150`) tests the magics with `&&` where `||` is needed, and in the reverse order.
- `ParseSection` copies DATA from offset 12, not from the tail, and copies go past the end of a truncated file (`IMG3_FileSection.cpp:77`).
- `ZipInterface`'s destructor fcloses the FILE that `AnalyzeFile` already closed (`IMG3_ZipInterface.cpp:116`). `ZipArchive` still records it in `misuse`.
- In the HTML parser, these reach the `crashed` state of `HtmlParser` in `html_parse`:
  - an empty `<ul></ul>` (strstr on NULL data);
  - a `<span>` of spaces only (`SetData`'s length wraps);
  - a self-closed `<a/>`, whose data size wraps and stops `RetrieveDataBetweenTags` early;
  - an IV list that is the first tag of interest (`--begin()`);
  - an entry after an empty `<span>` (strlen on NULL);
  - more opening than closing tags at the end (`closingTags.front()` on an empty list).
- `UpdateIMG3Database` ends by closing descriptor 0, because `UnmapFileFromMemory` has reset the shared slot (`IMG3_Functions.cpp:343`).

`FirmwarePipeline` still records such closes in `res.misuse`.

Every property of a passing run has a mutant in `PROJECT.json`. A mutant is a variant of a mapped action, defined just before it in the module, with a plausible bug. TLC finds the property violated when the action is replaced by its mutant.

## Bounds

**LZSS**
- Inputs have at most 8 bytes over a 3-letter alphabet, with N=8 and F=4.
- Inputs longer than the window make the window slide, and matches reach their maximum length and wrap the ring. Both the read-while-sliding and the tail branch of `Compress` fire.

**Container**
- File lengths are 5 and 6, section lengths come from {0, 2, 7}, and offsets are 3-bit (W=3).
- 0 stalls the scan, 7 wraps it, and 2 gives a normal step. A well-formed file of these lengths has at most three sections after the base, so only a looping scan reaches `MaxSections` = 5.

**Pipeline**
- Two files per archive, and payload lengths of 16, 20 and 48, so both aligned and unaligned payloads occur.
- A scaled header size of 32, so decompression both fails and succeeds.
- Descriptors up to 4.

**ZIP**
- Up to 3 directory records, with two names of which one matches.

**Pipeline double free**
- `pipeline_double_free` uses aligned lengths only, so that its trace is the double free. With a 20-byte payload, TLC reports the line-229 over-read that `HeapDiscipline` also records, after 44 states.

**Key store**
- Two devices, one of them needing quotes; one version; two sections; key and IV values from {1, 2}.
- Three commands, each an update of one record or a lookup. Three is enough for an insert, an update of the same row, and a lookup after it. One record per update keeps the run under ten seconds at about 120,000 states; two records per update take more than five minutes. A loop over records repeats the steps of one record on a different section.

**Command line**
- argv holds every command word and one unknown word.
- decrypt and update get up to four following tokens; the other words get up to three. Tokens are drawn from the five flags and five file names.
- patch gets up to six tokens from `-d`, `-v` and two names, so that its `argc >= 7` branch is reached.
- The file names cover these cases:
  - a known device;
  - a comma with a version longer than the name;
  - a page name with `=` and `(`;
  - an edge name whose counts come out -1 and 0;
  - a bare name.
- A typed build is 4 or 50 characters long.
- The update loop's bound of 8 is reached only with 9 arguments. Four tokens after the word already reach its `index + 1 >= argc` exit from every position.

Every pass run finishes in about a minute or less. `lzss_codec` is the largest, at about 375,000 distinct states.

**HTML parser**
- The filter set and the page shapes come from `UpdateIMG3Database` and the comment at lines 441-447. IV and Key values come from {1, 2}, so a wrong pairing would show.
- Two blocks followed by an end give about 2,300 pages and 100,062 states. They cover an entry after another entry or after a faulty block, a page ending in a stray `</li>` or an open `<li>`, and a truncated page. A stray closing tag before an entry loops, like a nested list, so `html_parse` keeps stray tags at the end.

## Fairness

The program is single-threaded and sequential. No interleaving needs a scheduler, and all but one property are safety properties.

`Img3Container`'s and `HtmlParser`'s `Spec` and `CommandLine`'s `FairSpec` carry `WF_vars(Next)`. It is the only fairness assumed. It says that a running process keeps executing its own next statement, which is all a sequential program needs. Nothing else competes for the processor inside it.

Under that assumption, `ParseArgumentsTerminates` checks that every option loop advances and that the build prompt runs at most once more after a typed build. `ScanTerminates` asks whether `ParseFile`'s loop ends. It needs `currOffset` to grow, which is exactly what the zero-length and wrap cases break. `ParseHtmlTagsEnds` checks that the `CombineTags` loop ends. The other specifications have no fairness, because they check no liveness. TLC's evaluation of `ENABLED` over the codec's deep LET chains is also too costly to add fairness there without a liveness property to justify it.

`img3_scan_loop` sets `CHECK_DEADLOCK FALSE`, because `ParseFile` returns after its last allowed call and the process may stop there. The other specifications end in an explicit stuttering `Done` step once the command has returned.

## Not modelled, and why

- **Command results in `main`.** `CommandLine` ends at the call of the command. `main` returns 0 whatever the command returns (line 759). That return is a constant of `main`, so no state shows it.
- **`delete` of a `new[]` array** (line 493). This is undefined behaviour that leaves no state the model could show.
- **Character-level HTML.** `HtmlParser` works on tokens. These are left out: a `>` inside text or an attribute, a comment containing `>`, `<code>` wrappers around values, and `strchr` running past the end of the mapped page, which has no NUL terminator. Tag attributes are stored and never read. `AddFilter` is the constant filter set, and the destructor's frees are not modelled.
- **SQL command length checks.** `KeyStore` abstracts strings to model values. The checks that omit `strlen(build)` (line 197) and `strlen(section)` (lines 86 and 276) are listed as hazards.
- **Unfinalized statements.** On an `sqlite3_step` error the key store returns without `sqlite3_finalize`. Statements are not modelled, so this is a hazard.
- **Key store inside the pipeline.** `FirmwarePipeline` still takes the key lookup's result as a choice. It is not composed with `KeyStore`.
- **OpenSSL.** The cipher is external. Only `DecryptData`'s allocate-when-NULL rule is modelled.
- **Unreachable code.**
  - `EncryptIMG3Data`.
  - Lines 446-509 of `PatchKernelFile`, including its off-by-three patch bound.
- **ZIP misuses recorded but not checked.** `ZipArchive` records, but no run checks, these misuses:
  - the delete of an uninitialised node;
  - reads of unassigned names;
  - directory and end-record over-reads.

  Each is a hazard for a later run.

## Plan for later work

- Turn the recorded ZIP misuses into checked properties.
- Feed `HtmlParser`'s decryption list into `KeyStore`'s update commands.
- Compose `KeyStore`'s lookup with `FirmwarePipeline`'s decrypt.
- Model the key store's length check as an arithmetic operator with a reference definition.
- Carry `CommandLine`'s parsed globals into `FirmwarePipeline`'s commands, so that `DecryptIMG3File`'s use of a NULL `section` is one trace.
