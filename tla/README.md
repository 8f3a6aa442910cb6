# zip-xxh3 in TLA+

A verification project for the Go package `github.com/abyii/zip-xxh3`: a fork of
`archive/zip` with WinZip AES and ZipCrypto encryption, an xxh3 hash in every
entry, a *detached* writer whose entries are produced concurrently, raw copying
of entries, and a stream filter. The specifications are translated from the Go
code (`../src/*.go`); paths and lines below refer to it.

* [Inventory](#inventory) - the parts of the system, their state, what is hard
* [Modules](#modules) - what is modelled, where, and how it relates to the code
* [Runs](#runs) - what TLC checks, under which bounds, and why they suffice
* [Disagreements](#disagreements-between-code-and-comments) found on the way
* [Proofs](#proofs) - what TLAPS proves, and along which argument
* [What is not modelled](#what-is-not-modelled)
* [Plan](#plan)

## Inventory

| Component | Code | State | Operations |
|---|---|---|---|
| Archive records | `struct.go:42-124`, `writer.go:109-238`, `reader.go:304-563` | none | encode and decode directory record, zip64/AES/xxh3 extra fields, end records, locator |
| `fileWriter` | `writer.go:323-382, 459-567`, `raw_writer.go:59-110`, `crypto.go:333-428`, `zipcrypto.go:119-188` | counts, checksums, `closed`, the cipher's `first` | create, `Write`, `Close` |
| Attached `Writer` | `writer.go:24-321`, `raw_writer.go:12-42` | `cw.count`, `dir`, `last`, `closed`, a `bufio.Writer` with a sticky error | `SetOffset`, `Create`, `CreateHeader`, `CreateRaw`, `Flush`, `Close` |
| Detached `Writer` | `writer.go:384-427, 599-660`, `raw_writer.go:44-57` | `dir` and `centralDirectory` under `mu`, `closed` | `CreateFileParts`, `CreateRawFileParts`, `AddFileWithOffset`, `Close`, `GetCentralDirectoryBytes` |
| `CopyRawPart` | `raw_writer.go:112-243` | the source stream, the header being overridden | re-key and copy one part |
| Descriptor stripper, local header reader | `raw_reader.go` | a window of pending bytes, `emitted`, `eof`, a sticky error | `Read`, `parseDescriptor`, `ReadLocalFileHeader` |
| `FilterZipStream` | `filter.go` | two stream positions, the new offsets | one pass |
| `Reader` | `reader.go:49-238` | the file list | `OpenReader`, `NewReader`, `Open`, `VerifyXXH3`, `SetPassword` |
| `checksumReader` | `reader.go:240-285, 405-443` | running CRC, byte count, sticky error | `Read` |
| AES stream and authentication | `crypto.go:58-331` | counter block and key stream position; buffered plaintext and verdict | `XORKeyStream`, two kinds of `Read` |
| ZipCrypto stream | `zipcrypto.go` | three keys, header consumed or not, sticky error | `Write`, `Close`, `Read` |
| Codecs | `register.go` | two registries under an `RWMutex`, flate pools, one mutex per pooled object | register, look up, `Write`/`Read`/`Close` |
| Metadata | `struct.go:126-374` | none | modes, MS-DOS times, `removeExtraField` |

How they interact:

* A caller's `FileHeader` is shared by pointer. `newFileWriter` changes it
  (flags, version, AES extra, method), `fileWriter.Close` writes sizes and
  checksums into it, and the central directory is made from it much later.
* The attached `Writer` stacks `fileWriter` -> compressor -> cipher ->
  `compCount` -> `cw` -> `bufio` -> the caller's writer. Offsets in the directory
  are values of `cw.count`; sizes are values of `compCount`.
* In detached mode every part has a writer of its own, so nothing counts
  positions. The generator *computes* them from the headers, sorted by `order`,
  and the caller concatenates the parts in the same order.
* `CopyRawPart` feeds a part, through the descriptor stripper and optionally a
  ZipCrypto reader, into `CreateRaw`. `FilterZipStream` uses the directory of a
  `Reader` and `writeDirectoryHeader`.

What is hard, and what makes a component correct:

* *Books that must agree.* The count kept by the attached writer, the length
  computed by the detached one, the sizes in the header, in the descriptor and
  in the record are produced in five places. Correct means: every record leads
  to the local header of its entry and agrees with the bytes there.
* *Lazy output.* A compressor holds data back; a cipher writes its header with
  the first data or on `Close`. Nothing of it may be left out of an offset.
* *Errors half way.* A failed compressor, a failed `CreateHeader`, a failing
  sink, a comment too long for its field: the caller may go on afterwards, and
  entries already written must not suffer.
* *Thresholds.* A 32 bit field that holds its largest value means "see the
  zip64 extra"; writer, descriptor and reader decide separately whether that is
  the case.
* *Concurrency.* Parts are written and registered by goroutines;
  `Close` and `GetCentralDirectoryBytes` may run at the same time and again
  after an error. Compressors are pooled, and a pooled one must not be reached
  through a handle that was closed.
* *An end that is known late.* The descriptor stripper learns where the payload
  ends when its source does; the stream filter sees each byte once; the
  authentication code lies behind the data it is about.
* *Several checks, one verdict.* CRC, length, descriptor and authentication code
  are each looked at under conditions of their own; no combination may leave all
  of them out.

`PROJECT.json` lists the hazards line by line with the properties that cover
them, or the reason why none does.

## Modules

    ZipFormat            records and conversions (constants uint16max, uint32max)
      FileWriter           one entry while it is written, as operators
        Writer               the attached Writer
          CopyRaw              CopyRawPart over it
        DetachedWriter       the detached Writer
        FilterStream         FilterZipStream
    Archive              what a Writer promises; Writer and DetachedWriter implement it
    RawPart              what a reader of a raw part promises
      DescriptorStripper   implements it; CopyRaw relies on it
    EntryReader          Open and the readers of one entry
    KeyStream            the counter stream of WinZip AES
    FlatePool            the pools of compressors
    MC*                  instances for TLC (KeyStream needs none)
    *Proofs              theorems: FileWriterProofs (the formats, and lemmas for the
                         next three), WriterProofs (Writer and CopyRaw),
                         DetachedWriterProofs, FilterStreamProofs,
                         DescriptorStripperProofs, EntryReaderProofs,
                         KeyStreamProofs, FlatePoolProofs

**Abstraction.** Bytes are counted, not kept. A name, a comment, an extra field
this package does not interpret is its length; extra fields the package writes
keep their values and their order within a tag. The CRC-32 of *n* bytes is *n*
and their xxh3 is *n + 1*: injective, so that a checksum over too few bytes is
seen, and different for no bytes, because the writer omits an xxh3 of 0. The
password is a Boolean. Deflate and custom compressors hand on some bytes during
a `Write` and some on `Close`, nondeterministically. `2^16 - 1` and `2^32 - 1` are
parameters. Memory, permissions and random salts do not appear; a modification
time appears only in `CopyRaw`, where a check byte is taken from it.

**ZipFormat.** `DirectoryHeader`, `DirectoryExtra`, `DirectoryHeaderFits` and
`DirectoryEnd` are `writeDirectoryHeader` and `writeDirectoryEnd`;
`ReadDirectoryHeader` and `ReadDirectoryEnd` are the readers, with the quirk that
the zip64 values are taken in sequence, each only if its 32 bit field is
saturated; `Opened` is `Reader.init`: how many records it reads and whether it
accepts their number. `isZip64` and `writesAES` are the two predicates that decide
lengths everywhere.

**FileWriter.** `PreparedHeader` is what `newFileWriter` and `newRawFileWriter`
have done to a header by the time they return, error or not; `Creatable` is the
conjunction of their checks. `Written`, `Finished`, `UpdatedHeader`, `Descriptor`
and `Abandoned` are `Write` and the paths through `Close`, on the record of the
file writer; `WrittenBlock` and `FinishedBlock` are the same steps on the *block*,
the bytes that really reached the stream: local header, cipher header, data,
authentication code, descriptor. That the two sides stay in step is checked and
proved, not assumed. `WrittenShort`, `FinishedShort` and `ArrivedBlock` are the same
when the writer below takes only a part of what it is given. `ConstructorMayFail`
says that a custom compressor may refuse to be made (`writer.go:371`), which leaves a
header as changed as a failed check does.

**Writer.** One variable per field of the Go struct, plus `fh` (the shared
headers), `blocks` (the stream), `base` (where the archive starts) and `sink`
(whether `bufio` holds its sticky error). An action is a whole call, because the
type is not meant for concurrent use: `CreateHeader` and `CreateRaw` are `Create`,
which first closes the previous entry (`CloseIfOpen`, with each way this may end)
and is then rejected (`CreateRejected`), fails with the header changed
(`CreateFails`) or succeeds. `Close` returns early when the last entry fails,
closes without a directory, or seals. The caller is free except that it does not
reuse a header of an earlier entry (reusing the last one *is* modelled, since the
code rejects it) and creates nothing after `Close`. It does go on after errors.
After a failed `Close`, `count` is not followed further: nobody reads it.

**DetachedWriter.** `newFileWriter` (outside `mu`) and the registration (under
it) are separate actions, so goroutines interleave between them; the generator
is cut into lock, sort, one action per iteration, encoding, and unlock.
`SortDir` states what `sort.SliceStable` does: a permutation that is increasing
by order and by position among equals. The variables `given` (what
`AddFileWithOffset` was told) and `log` (the order of registration) are history
for the properties. `Complete` and `Creating` are the obligation of
`README.md:108` that the directory is asked for once all parts are created and
closed; the constant `Late` relaxes it after a call that failed. An entry added
with `AddFileWithOffset` was built by hand and is taken to have the form this
package gives entries, descriptor included. `ShortenComments` is the caller
correcting such an entry after an error.

A `partWriter` is the caller's, without a sticky error, and may fail at any byte:
while the local header is written (`NewPart`, nothing is registered), in a `Write`
(`WriteFails`), in `Close` while the compressor is flushed, the cipher header or the
authentication code is written (`ClosePartFails`: closed, the header not updated) or in
the descriptor (`DescriptorFails`: the header *is* updated). `CompressorFails` is a
custom compressor that fails by itself. The goroutine then gives the part up; it stays
in the directory, so that, by `README.md:108`, nobody may ask for that directory any
more, while the other goroutines go on. What must still hold are the types, the
order, and that the entry is `abandoned` for good (`ImplementsArchive`).

**Archive.** What both writers promise, in two variables: how far each entry has
come (absent, open, finished, abandoned, with the size written so far) and the
directory. Entries grow only while open; the directory comes once, when nothing
is open, lists each entry once, with its size if it is finished; nothing happens
afterwards. `Attached` says that one entry is open at a time. The refinement
mappings (`Promise` in both modules) compute an entry's state from the block that
reached the stream and the listing from what a *reader* makes of the records, so
that a wrong size in a record, a zip64 value out of place or a header of a
finished entry that changes is a step `Archive` does not have.

**CopyRaw.** `CopyRawPart` as a process over a `Writer`, one action for each point
where it can return: the local header is read and overridden (with name, comment,
other extra bytes, hash and time; `ErrFormat` if its sizes are impossible), the cipher
header is checked, `CreateRaw`, pieces of `io.Copy`, the end of the payload with the
descriptor, `Close`. `CopyFails` is an error of the source at any of its reads, or
of the sink. The Writer's own actions are used, with their errors, and
the caller uses the Writer directly between copies; a copy that fails half way
leaves its entry open, and the next call finishes it. `part` is what the local
header says and what really follows, so a part can be truncated anywhere or have
been encrypted with another password. A wrong password passes the check by
chance (one byte is compared), and counts as right then.

**RawPart** and **DescriptorStripper.** The unit is a word of four bytes, of
which every descriptor consists; the words are values, since the parser tells
descriptor forms apart by them. `source` is what the reader below will yield;
`emitted` and `end` delimit the window. An action is one iteration of the loop of
`Read`: it returns words, returns an error, or refills, with any number of words
(none included), the end of the source, or an error, alone or with the last
words. `RawPart` knows payload and descriptor from the start; the mapping lets it
know what `parseDescriptor` would find in the *whole* source, so the refinement says
that the window and the way the source is cut into reads make no difference.

**FilterStream.** `source` is a list of entries with their place, the lengths of
their parts, the form of their descriptor, and their directory record. `Init`
takes the selected ones `InOrder`: each once, by offset and in the order of the
directory among equals, as the stable sort leaves them; `CopyEntry` is one iteration of the
loop, with the error for going backwards, the missing local header, and the
copy, whose length is inferred from the local extra field and the record
(`DescriptorCopied`); `WriteDirectory` rewrites and encodes the records. `Fail` is
an error of the stream or of the output at any moment.

**EntryReader.** A file is a record of what the directory says and of what is
there; flags say whether a code is right, a header is missing, the data are cut
off. `Open` is the ladder of checks in `File.Open` and the constructors of
the decryption readers, in their order. What follows is one action per step of
each layer, and units of data move upwards: `taken` from the section, `buf` in the
`bufferedAuthReader`, `mac` written to its HMAC, `held` by the decoder, `delivered` to the
caller. A read of the section (`SectionReads`) gives some units, its end, or both.

* No authentication: `ReadSection`, which hands units to the decoder at once.
* `authReader` (`DeferAuth`): `ReadStreaming` hands on units as they come and compares the
  code with what it was given when its own end is read (`AuthReaderEnd`);
  `SectionFails` and `CodeFails` are its error paths.
* `bufferedAuthReader`: `Buffer`, `ReadCode`, `Compare`, `PassOn`, in the order in which
  `stage` leads through the code, with `BufferFails`. A step that fails sets the sticky
  error `below`. No guard speaks of what may be released: `PassOn` is possible because
  the stage was reached.
* The decoder and `checksumReader`: `Deliver` and `End`. `DecoderEnds` holds the one
  difference that matters between stored and deflated data: a Deflate stream ends at
  its marker, and what lies behind is not read.

**KeyStream.** The `ctr` of `crypto.go` with its counter, buffer and position;
`XORKeyStream` is one iteration of the loop, with `refill`. AES is external: key
byte *j* of the block of counter *c* is the pair `<<c, j>>`. `Digits` is the counter that
*n* is written as, by repeated division. `used` is history.

**FlatePool.** Handles (`pooledFlateWriter`, `pooledFlateReader`), the objects below
them, one pool per level and one for readers, a mutex per handle, and
goroutines that may call `Write`, `Read` and `Close` of any handle at any time.
`Close` is cut into flush, put and clear, because between the last two the object is
already in the pool while the handle still points to it. `Collect` is the garbage
collector emptying a `sync.Pool`.

## Runs

`tlc -config <cfg> <module>`; a few seconds to two minutes each; `copy_raw` is the largest with about a
million distinct states, then `detached` (540,000), `entry_reader` (236,000) and `writer`
(207,000).

| Run | Module, cfg | Question |
|---|---|---|
| formats | `MCZipFormat` | Are records and end records read back as they were written, and does a `Reader` open with all files? |
| writer | `MCWriter` | Any sequence of calls on an attached Writer, with failures: does a sealed archive read back? Does it implement `Archive`? |
| detached | `MCDetachedWriter` | Goroutines, both calls, errors and repeats: do the parts put together read back, and does every call return? |
| copy_raw | `MCCopyRaw` | Copies mixed with direct use: does what was copied read back, and does a refused copy change nothing? |
| stripper | `MCDescriptorStripper` | Whatever the payload imitates and however it is read: exactly the payload, and an end? |
| filter | `MCFilterStream` | One pass: is what is copied whole, and does the new archive read back? |
| entry_reader | `MCEntryReader` | Any two defects: is nothing released unverified, and is what is sound read? |
| keystream | `KeyStream`, `MCKeyStream.cfg` | Does byte *i* always use key byte *i*? |
| pools | `MCFlatePool` | Does nobody touch an object of somebody else? |
| detached_late, entry_defer, filter_own | `MCDetachedWriterLate.cfg`, `MCEntryReaderDefer.cfg`, `MCFilterStreamOwn.cfg` | The [disagreements](#disagreements-between-code-and-comments) |

*formats.* `RoundTrip`, `SaturatedMeansZip64`, `EndRoundTrip`. One state is one case,
a header or an end record; sizes, offsets and lengths are 0 (or the least there
can be), limit - 1, limit, limit + 1. `uint16max = 2` lets the number of records pass
the 16 bit limit, and `EndRoundTrip` also opens an archive whose count was
truncated.

*writer.* `OffsetsPointAtHeaders`: the recorded offset is where the local header
lies. `CountIsPosition`: the count is the position in the stream. `Framed`: cipher
header once and first, authentication code once and last, also for an entry
never written to. `SealedReadsBack`: once `Close` has returned nil, the end records
lead to the directory and every finished entry reads back - its offset, its
flags, its method, the length of its payload, and a descriptor that says the
same. `FinishedStays` (an action property): no later call, failed or not, changes a
finished entry or what the directory will say of it. `ImplementsArchive`.

*detached.* `DirectoryOrdered`: every part once, by order, ties as registered.
`AssembledReadsBack`: put together in that order, every record leads to its part
and agrees with it, and the end record to the directory, also after failed
calls. `CallsReturn` (liveness): whoever calls gets an answer. `ImplementsArchive`.

*copy_raw.* `CopiesReadBack`: the record of a copy that returned nil has the CRC and
sizes of its source, and all of its data lie there. `CheckBytesMatch`: the check
byte written is the one a reader derives from the record in the end.
`RightPasswordAccepted` (an action property): a right password is never refused,
whatever the override did to the time. `RefusedUntouched`: a copy refused for its
password has changed no part of the archive.

*stripper.* `TrueDescriptorTaken`: a descriptor that cannot be misread is the
one found, whatever the payload holds in front of it. `ImplementsRawPart`: exactly
the payload, or a beginning of it and an error. `ReadingEnds` (liveness).

*filter.* `ConformingPreserved`: entries are copied from their first to their last
byte if their descriptors are as one of two *writers* makes them: other programs by
APPNOTE 4.3.9 (8 byte sizes if and only if the local header has a zip64 field), or this
package's `fileWriter.Close` (8 byte sizes if the sizes need them, no zip64 field in
the local header, a signature unless AES; `Descriptor` of `FileWriter`). The filter
cannot know who wrote an entry; that its inference is right for both is the claim. `OnePass`: the pass
never meets an entry behind it. `FilteredReadsBack`: the new directory says of each
copied entry what the old one said, at its new offset.

*entry_reader.* `VerifiedBeforeRelease`: when a unit of AES data is above the
`bufferedAuthReader`, all of them were written to the HMAC and the comparison succeeded.
`EOFMeansWhole`: with a `checksumReader`, length and CRC are the recorded ones; of
encrypted AE-2 data, which have none, all was read and authenticated.
`StoredEndAuthenticated` (what may be relied on with `DeferAuth`), `SoundIsRead` (no
combination of checks refuses an intact entry).

*keystream.* `KeyBytesInOrder`, `StreamCallsReturn` (liveness). *pools.* `OneOwner`,
`OwnOutput`, `LevelKept`.

*Bounds.* In the runs of writers, `uint16max = 90` and `uint32max = 150`: just above
the lengths of a local header and an AES field, so that archives of a few hundred
bytes cross each threshold in sizes, in offsets and in the directory, while small
ones do not. Sizes 0, 75 and 150 make an entry empty, below the limit, and
exactly at it (alone or with two writes). *writer*: two entries of fourteen kinds
(every cipher, codec and raw form, and headers that `CreateHeader` refuses at each of
its checks) suffice for every effect of one entry on another, and a header that was
refused may be tried again. *detached*: two parts of five kinds or built by hand,
two orders, so that they come in either order and as ties; two callers; one repeat
after an error; of *n* bytes a failing `partWriter` takes none or all but one
(`Cuts`), which cuts every piece, cipher header, data or authentication code, in front of
and inside its last byte. *detached_late* has three parts, because a third has to come between two.
*copy_raw*: two entries, each a copy or the caller's own, nine parts: with and
without cipher and descriptor, truncated in the cipher header, the data and the
descriptor, and one above `MaxInt64 = 15`; three overrides: none, one that changes
everything, and one with a name too long for `CreateRaw`. *stripper*: sources of up to thirteen words against a buffer of eight,
so that the window moves several times; the last three words of a payload run
through what any longer descriptor form would have there. *filter*: every pair of
seven kinds of entry (of this package, of other programs, misplaced), listed in
either order and twice, with and without a gap, of 1 byte and at the 32 bit limit.
*entry_reader*: every kind of entry with any two of twenty-one defects, of up to two
units and a marker, so that every layer can be read in pieces and stop before its end. *keystream*: fifteen counters, so that
the carry into the second digit and the turn of the buffer fall in every position of
a call. *pools*: three goroutines, three objects and four handles, one more than can
be served at once. `MaxRaw`, `MaxEntries`, `MaxRetries`, `MaxCall`, `MaxStream` and
`MaxUnits` bound what grows without limit. Symmetry is used in *writer*,
*copy_raw*, *pools* and *detached_late*, which check safety and action properties only.
`CHECK_DEADLOCK FALSE` everywhere: a sealed archive, an entry read to its end, a
failed pass are ends.

*Fairness.* `DetachedWriter!FairSpec` asks only that a goroutine inside
`generateCentralDirectory` goes on (`WF_vars(Generate(c))`). Weak fairness is
enough for the lock: it is taken only while no directory exists, and every
failed attempt needs a correction by the caller before the next, so it is free for
good in the end; Go's mutex does hand itself to a waiter then. No caller is
required to make a call, and no part to be finished. `DescriptorStripper!FairSpec`
asks that the caller reads on until `Read` returns an error and that the reader
below does not return nothing for ever (`io.Reader` discourages returning 0 and
nil, and the loop has no other way out); returning nothing any finite number of
times is allowed. `KeyStream!Spec` asks that a loop of the caller's goroutine runs
on.

*Mutants.* Every property is accompanied by a mutated form of a definition
(marked "Mutated form" in front of the definition it replaces) which violates it:
the authentication code not counted, the cipher header forgotten for empty
entries, a stale directory, an unstable sort, a lock kept on error, the check byte
taken after the override, the signature of a descriptor taken for granted, the verdict
of the comparison not heeded, a
pooled object kept by its handle, a carry that is lost.

## Disagreements between code and comments

1. **`writer.go:618`** - an offset *computed* by a call that then failed counts as
   given: after an error, a part that sorts before one already placed gets the
   same offset as the latter. The comment at line 615 says offsets are only kept when
   explicitly provided. Run `detached_late`. The caller has to create a part after
   a failed call; with everything created before the first call, retries are right
   (`AssembledReadsBack` in `detached`).
2. **`crypto.go:182`** - `struct.go:112` says `DeferAuth` *delays* the authentication;
   for a deflated entry it leaves it out: the streaming reader compares the code
   when its own end is read, and the decoder above it stops at the end marker. Run
   `entry_defer`. Stored data are authenticated (`StoredEndAuthenticated`).
3. **`filter.go:106`** - "preserving their original compressed byte structures
   precisely" (line 14): the length of a descriptor is inferred from a zip64 field in the
   local header, which this package's own Writer copies from the caller's `Extra`
   (`writer.go:451-453`) while it chooses the descriptor by the sizes. Too much is
   copied then. Run `filter_own`. Without such a field, and for entries of other
   programs that follow APPNOTE, copies are exact (`ConformingPreserved`).

Met while modelling, without a run: an offset of 0 given to `AddFileWithOffset` counts
as not given (`writer.go:616`); directory records are made from `CompressedSize` and
`UncompressedSize` (`writer.go:154`), which `struct.go:103-104` calls deprecated, so an
entry that sets only the 64 bit fields is recorded as empty. The runs keep away from
both: explicit offsets are positive, and both fields are set. An entry with an AE-2 field
but without the encryption flag meets no check at all: `reader.go:194` does not decrypt
it, and `reader.go:224` leaves out the `checksumReader` because of the field. Such entries
are among the cases of `entry_reader`, and `EOFMeansWhole` claims nothing of them.

## Proofs

`tlapm <Module>.tla` checks each module of proofs. The theorems hold for every
value of the constants that the named assumptions allow - any field widths, headers,
sizes, numbers of entries, goroutines, objects, buffer lengths - where the runs look at
one small instance. Every type invariant and every safety or action property of a
passing run is stated by a theorem, and so are the three refinements.

*Assumptions.* The ASSUMEs of the modules say what the constants are (`TLC`
evaluates them in every run). Some theorems have a hypothesis of their own, about
what a caller hands in; an MC module ASSUMEs it too, so that TLC shows that the cases
of the run are among those the theorem is about:

| Hypothesis | Of | Says |
|---|---|---|
| `\A f \in Initial : CleanHeader(f)` | `WriterProofs` | a caller's header holds no zip64 field, an AES field only for a method that writes one, and the flag wherever it holds a password |
| `SoundChecks`, `WholeParts` | `WriterProofs` | the check byte of a source of `CopyRawPart` is the one it derives; it has no more of a payload than that is long |
| `CleanCalls` | `DetachedWriterProofs` | clean headers for parts; no zip64 field in those built by hand (`Built`), and no explicit offset 0 |
| `SettledCalls` | `DetachedWriterProofs` | a header built by hand sets both pairs of size fields |
| `Late = FALSE` | `DetachedWriterProofs` | all parts are created before the first call |

Without clean headers a record repeats what the caller put there; without settled
sizes it says 0 (`writer.go:154`); an explicit offset 0 is overwritten
(`writer.go:616`); and for parts created late the claim is false, as disagreement 1 shows.
These hypotheses are where the code needs its callers.

**The formats** (`FileWriterProofs`, over `MCZipFormat`). `RecordsRoundTrip`,
`SaturatedAlwaysMeansZip64` and `EndsRoundTrip`: of any header with settled sizes and none
of the fields the record adds (`HeaderCase`), at any offset, and of any number of
entries whose headers have at least their fixed parts (`EndCase`). The difficult part is
that the reader consumes the zip64 values one after the other, each only for a saturated
field, while the writer decides once for all of them (`FieldsReadBack`); and in the end records
that a truncated count equals the true one modulo 2^16 and is not too large for the
file. `CasesHold` shows that the cases TLC enumerates are of that kind, and
`FormatsAlwaysRoundTrip` joins them.

**Writer** (`FileWriterProofs`, `WriterProofs`). `TypeCorrect`, `OffsetsCorrect`,
`CountCorrect`. The inductive invariant `IInv` is `TypeOK`, the two properties, and
`OpenIsLast`: when a file is open the Writer is not closed, there is a last block,
and it has no descriptor yet. None is inductive alone. The offset recorded by
`CreateHeader` is the count, so `OffsetsPointAtHeaders` needs `CountIsPosition`; that
one is preserved because the count grows by as much as the last block does, which
needs that the block being written *is* the last and that its descriptor is not
counted twice. `SetOffset` is safe because a count of 0 means an empty stream, since
no block is empty. `FileWriterProofs` shows for each operation that `compCount` and
the block grow by the same number of bytes (`WrittenBooks`, `FinishedBooks`,
`AbandonedBooks`); `WriterProofs` lifts this to a block inside the sequence and to
every way a close may end (`CloseOutcome`), which all calls begin with.

*What becomes of entries.* `EInv` adds to `IInv` that entries
have different headers (`Distinct`), that the open file writer has the header and the
books of the last block (`OpenOwns`), and `AllFramed`; from it `AlwaysFramed` and
`FinishedAlwaysStays`. Without `Distinct` closing an entry could rewrite the header of
another; without `OpenOwns` nothing would tie the cipher state `first` to the block.
`SInv` adds what headers say: `Clean` (the writer's own fields are not in a caller's
extra), `AllRecorded` (flags and method from the start; sizes, CRC and descriptor once
finished), `Counted`, and `SealedLast` (the directory was made from the headers as they
are). From it `SealedAlwaysReadsBack`, by the lemmas `RecordReadsBack` and `EndReadsBack`,
which rest on the facts of the formats, and `ArchiveRefinement`. Both assume
`\A f \in Initial : CleanHeader(f)`, which `MCWriter` has TLC check of its headers: a
caller that hands in a zip64 or AES field of its own makes the record say it.

**CopyRaw** (in `WriterProofs` too). `CopyIInv` is `IInv` with `CopyTypeOK`, which says that while
a copy is under way the open entry is its own: the caller's other calls come between
copies. `CopyOffsetsCorrect` and `CopyTypeCorrect` follow; `RefusedAlwaysUntouched`
needs only that nothing was written when the cipher header is checked, and
`RightPasswordAlwaysAccepted` that the byte in it is the one its source derives
(`SoundChecks`). `CopySInv` joins `SInv` with `Reserved` (until its entry is created, the
header of the copy is that of no entry), so that most steps are calls of the Writer, of
which the part above says everything; left are the override of the header, writes of
other lengths, and what the descriptor of the source puts into the header of the
open entry. Hence `CopySealedReadsBack` and `CopyFinishedStays`. `CheckBytesAlwaysMatch`
rests on `Flagged` (every entry announces a descriptor, from its creation on), which
makes the check byte a matter of the time alone, and the time changes before the entry
is created. `CopiesAlwaysReadBack` follows a copy through its steps (`Before`, `During`,
`After`): its header says what the local header of the source announced until the
descriptor was read, then what is true; the data written are what was read less the
header of the cipher; and an entry that is finished is not touched again. It assumes
that a source has no more of a payload than the payload is long (`WholeParts`). TLC checks
both assumptions of the parts in `MCCopyRaw`.

**DetachedWriterProofs.** `IInv` is `TypeOK`, `Files` (a part being written has its file
writer), `Calls` (`Exclusive`: whoever is inside the generator holds `mu`; `Frozen`: parts
are complete then; `Published`), `Listed` (log and directory are the same parts, each
once), `Stable` (ties are in the order of the log, always) and `SortedOnce`. `Stable` is
needed before the first sort and across repeated ones: a later stable sort keeps the
ties as it finds them. Theorems: `TypeCorrect`, `MutualExclusion`,
`DirectoryAlwaysOrdered`.

*Placement.* `AInv` adds to `IInv` where the loop has come. `Early`: while somebody is in
the generator the parts are complete. `Recorded`: the header of a part says what its block
holds. `Placing`: when a caller holds the lock in the loop, the parts before
`placed` form a `Chain` (each begins where the one before it ends) and those behind it
are `Blank`, or the directory is `Full`, that is sorted and a chain from end to end, left so
by a call that failed later. A repeat then keeps everything: sorting a sorted
sequence stably is the identity (`IncreasingIsIdentity`), and every offset that is taken
for "given" equals the one that would be computed. This is where `Late = FALSE` enters: a part
inserted into a full directory breaks the chain. `SealedDirectory` says the rest of a
published directory, `Refused` of an error. `PlacementInvariant` is
`[]AInv`. `AssembledAlwaysReadsBack` follows: the chain gives offsets, and what `Starts`
computes of the parts is the same (see *Recursion*); `Recorded` and `RecordReadsBack` give
the rest. `ArchiveRefinement` adds `Sized` (a part just made has written nothing; one built by
hand has settled sizes) and maps each step: most change one part (`Seen`) and are steps of
its entry, the step of encoding is the one that lists all.

**DescriptorStripperProofs.** `IInv` is `TypeOK`, `Held` (until the end is seen a whole
descriptor is pending, or nothing was emitted), `Ended` (then exactly the rest of the
payload is) and `Reported`. The core is that the parse of the pending words and the
parse of the whole source agree, because the window holds six words or is the source.
Theorems: `TypeCorrect`, `PayloadAlwaysOnly`, `Refinement` (of `RawPart`), and
`TrueDescriptorAlwaysTaken`: the forms are tried from the longest to the shortest with the
sizes of the payload so far, so a descriptor that is `Certain` (its checksum is not 0 and
its size not the number of the signature) excludes each form tried before its own.

**FilterStreamProofs.** `IInv` is `TypeOK`, `Ordered` (what is to be visited lies in the order
of offsets), `Laid` (the positions in both streams are the ends of the last piece, and
each new offset follows from the piece before), `Taken` (what was copied of each
entry), `Sealed` (the directory is made of these offsets) and `OnePass`. `OnePass` is inductive
only with the others: entries of a consistent archive do not overlap, and a conforming
descriptor, of either kind, is copied with its true length (`EntryCopied`), so the position behind an
entry is at most the offset of the next (`NextLiesAhead`). `RewrittenReadsBack` is the
round trip of a record whose zip64 field was removed and made anew. Theorems:
`TypeCorrect`, `AlwaysPreserved`, `AlwaysOnePass`, `FilteredAlwaysReadsBack`.

**KeyStreamProofs.** `IInv` is `TypeOK`, `Aligned` (used and buffered bytes together are *M*
whole blocks, and the counter is *M + 1*), `BufferInOrder` (what is buffered are the
bytes that come next) and `KeyBytesInOrder`. The arithmetic: adding one with carry to the
digits of *n* gives those of *n + 1* (`CarryArrives`, `IncrementCounts`), hence *m*
increments give those of *n + m* (`CountsUp`); and `refill` never overruns its
buffer (`BlocksFit`). Any base, block size and buffer of more than two blocks will do.
`TypeCorrect`, `KeyBytesAlwaysInOrder`.

**EntryReaderProofs.** The properties speak of what came out at the top; the inductive
invariant says what every layer has found. `Layers`: each unit taken from the section is
in one of the layers (`held + delivered + buf = taken`). `ErrorsMean`: what a sticky error
below the decoder proves; `io.EOF` of AES data means that the comparison succeeded over
all of them. `Streaming`: the `authReader` has written to its HMAC what it has handed on.
`Staged`: nothing is above a `bufferedAuthReader` before the stage `pass`, and that stage
is reached only with the whole section in the buffer, the code read and the
comparison made. `VerifiedBeforeRelease` follows from `Staged`, the others
are inductive next to these. `TypeCorrect` and the four properties of the run.

**FlatePoolProofs.** `IInv` is `TypeOK`, `Locks` (a goroutine in a call is alone at its
handle: while it makes it because nobody knows it, later because it has its mutex) and
`Places` (an object is with one handle, or in the pool of its level, or new; and it is
aimed at the handle that holds it). A handle between put and clear does not hold its
object any more (`Holds`), which is what makes `Places` inductive. `TypeCorrect` and the
three properties of the run.

*Recursion.* The models use recursive functions only (`Starts`, `Places`, `CountedUp`,
`Quotients`), no recursive operators, which the provers cannot take. The
induction theorems of the library cannot be instantiated by the installed provers either, so these
proofs go by the least counterexample: a set of naturals that is not empty has
a least element (`LeastElement`, from `WFMin` of the library). With it a function that is
defined by recursion is shown to exist (`QuotientsExist`) and to be the only one that
satisfies its equation, and whatever the invariant says step by step of the offsets is
that function.

*Only model-checked.* Liveness (`CallsReturn`, `StreamCallsReturn`, `ReadingEnds`) and the fairness
it needs are out of the prover's reach. The three disagreements are counterexamples,
which TLC finds. That the actions of the models cover every call is shown by the runs'
coverage.

## What is not modelled

* Compression, AES, HMAC, PBKDF2, CRC and xxh3 themselves, and the key schedule of
  ZipCrypto: arithmetic without control. What they decide (a code matches, a password is
  right) is a flag or a value of the model.
* `VerifyXXH3`: one loop over `Read`, whose outcome `EntryReader` describes, and the
  comparison of a hash. `HeaderOffset`, `DataOffset`, `SetPassword` of a `Reader` and other
  accessors; the search for the end record in the last bytes of a file (`findSignatureInBlock` is
  taken to find it); allocation limits.
* File modes, MS-DOS times, `removeExtraField`: pure functions that the package's unit tests
  cover by enumeration. The registry of codecs: a map under a lock.
* A `Write` of an *attached* Writer that fails half way is not followed: the sticky error
  of its `bufio.Writer` keeps anything after it out of the stream. (A `partWriter` of a
  detached Writer has none; its errors are actions of `DetachedWriter`.) A caller that goes
  on with a part after its `partWriter` has failed is not modelled. A compressor that writes before its
  first `Write` would put bytes before the local header (`writer.go:371` against
  `377`); the models take compressors not to.
* Entries created after `Close`, headers used for two entries that are not neighbours,
  directories asked for before every part is closed: the documentation asks the caller
  not to, or says nothing.

## Plan

Done: every component but the conversions named above, the abstract specifications
`Archive` and `RawPart`, and the proofs above.

Left: the hazards without a property in `PROJECT.json`, each with the reason why; proofs of
the finer parts should the models grow to take in `findSignatureInBlock` or the
registry; shorter proofs where a lemma about `PreparedHeader` would serve several steps.
