------------------------------- MODULE IndexCodec ------------------------------
(***************************************************************************)
(* The byte format of the index, written once and read back: the writer of *)
(* internal/plumbing/update_index.go, the writer of git, whose files       *)
(* ReadIndex promises to read (version 3 with an extended flags field,     *)
(* extension blocks), and the reader of read_index.go.                     *)
(*                                                                         *)
(* The ten stat fields and the hash are 60 bytes of one value each; a path *)
(* is its length.  An offset is what it is in the code, the number of      *)
(* bytes before it, so the byte at an offset is data[offset + 1].          *)
(***************************************************************************)
EXTENDS Integers, SequencesExt, FiniteSetsExt

CONSTANTS
    Lengths,     \* lengths of paths
    Fills,       \* values of the bytes of stat fields and hash
    Extensions,  \* lengths of the payload of an extension block
    MaxEntries,  \* bound: entries of an index
    MaxBlocks,   \* bound: extension blocks of an index
    SHA1(_, _)   \* byte i of the hash of a content

\* Lengths and counts are written as uint32 and read as int.
MaxInt32 == 2147483647

ASSUME CodecAssumption ==
    /\ Lengths \subseteq Nat \ {0}
    /\ \A fill \in Fills : fill \in Nat /\ fill < 256
    /\ Extensions \subseteq 0 .. MaxInt32
    /\ MaxEntries \in 0 .. MaxInt32 /\ MaxBlocks \in Nat

VARIABLES
    entries,  \* what is written: by kitcat, or by git with extended flags
    blocks,   \* the lengths of the extension blocks git adds
    readBack  \* what ReadIndex returns, or Unread

IndexEntry ==
    [length : Lengths, stage : {0, 2, 3}, fill : Fills, extended : BOOLEAN]

Unread == [status |-> "unread", entries |-> <<>>]
Refused == [status |-> "error", entries |-> <<>>]
-------------------------------------------------------------------------------
Bytes(n, byte) == [i \in 1 .. n |-> byte]

\* binary.Write and the readers of binary.BigEndian.
Uint16(n) == << (n \div 256) % 256, n % 256 >>

Uint32(n) ==
    << (n \div 16777216) % 256, (n \div 65536) % 256, (n \div 256) % 256, n % 256 >>

Uint16At(data, offset) == 256 * data[offset + 1] + data[offset + 2]

Uint32At(data, offset) ==
    16777216 * data[offset + 1] + 65536 * data[offset + 2]
      + 256 * data[offset + 3] + data[offset + 4]

DIRC == <<68, 73, 82, 67>>

Checksum(content) == [i \in 1 .. 20 |-> SHA1(content, i)]

Pad(size) == (8 - (size % 8)) % 8

\* Stage in bits 12 and 13, the length of the path, capped, in those below.
Flags(e) == e.stage * 4096 + Min({e.length, 4095})

\* Plausible defect: a full block of padding after an aligned entry.
WriteEntryFullPad(e) ==
    Bytes(60, e.fill) \o Uint16(Flags(e)) \o Bytes(e.length, 97) \o <<0>>
      \o Bytes(8 - ((62 + e.length + 1) % 8), 0)

\* Stat fields, hash, flags, path, NUL, and zeros up to a multiple of eight.
WriteEntry(e) ==
    Bytes(60, e.fill) \o Uint16(Flags(e)) \o Bytes(e.length, 97) \o <<0>>
      \o Bytes(Pad(62 + e.length + 1), 0)

\* git's entry with bit 14 set and a second field of flags.
ExtendedEntry(e) ==
    Bytes(60, e.fill) \o Uint16(Flags(e) + 16384) \o <<64, 0>>
      \o Bytes(e.length, 97) \o <<0>> \o Bytes(Pad(64 + e.length + 1), 0)

Block(length) == <<84, 82, 69, 69>> \o Uint32(length) \o Bytes(length, 255)

Header(es) ==
    DIRC \o Uint32(IF \E i \in DOMAIN es : es[i].extended THEN 3 ELSE 2) \o Uint32(Len(es))

\* A buffer after each of the writes of a loop: written[i] after i of them.
Writes(buffer, pieces) ==
    LET written[i \in 0 .. Len(pieces)] ==
            IF i = 0 THEN buffer ELSE written[i - 1] \o pieces[i]
    IN written

EntryBytes(e) == IF e.extended THEN ExtendedEntry(e) ELSE WriteEntry(e)

WriteEntries(es) == Writes(Header(es), [i \in DOMAIN es |-> EntryBytes(es[i])])[Len(es)]

\* What the checksum is made of: git's file has blocks after the entries.
WriteContent(es, bs) ==
    Writes(WriteEntries(es), [i \in DOMAIN bs |-> Block(bs[i])])[Len(bs)]

\* UpdateIndex; git's file differs by its version, extended entries and blocks.
WriteIndex(es, bs) == WriteContent(es, bs) \o Checksum(WriteContent(es, bs))
-------------------------------------------------------------------------------
Stopped == [offset |-> 0, entries |-> <<>>, ok |-> FALSE]

\* One round of the loop over the entries, r being what the rounds before left:
\* the fixed part, the second field of flags, the path up to the first NUL, and
\* the padding have to end within the file.
ReadEntry(data, r) ==
    LET flags    == Uint16At(data, r.offset + 60)
        extended == (flags \div 16384) % 2 = 1
        start    == r.offset + (IF extended THEN 64 ELSE 62)
        nuls     == {i \in start + 1 .. Len(data) : data[i] = 0}
        nul      == Min(nuls)
        end      == nul + Pad(nul - r.offset)
        entry    == [length |-> nul - 1 - start, stage |-> (flags \div 4096) % 4,
                     fill |-> data[r.offset + 1], extended |-> extended]
    IN IF ~r.ok \/ r.offset + 62 > Len(data) \/ start > Len(data) \/ nuls = {} \/ end > Len(data)
       THEN Stopped
       ELSE [offset |-> end, entries |-> Append(r.entries, entry), ok |-> TRUE]

\* The loop over the entries: read[i] is what i rounds leave.
ReadEntries(data, count) ==
    LET read[i \in 0 .. count] ==
            IF i = 0 THEN [offset |-> 12, entries |-> <<>>, ok |-> TRUE]
            ELSE ReadEntry(data, read[i - 1])
    IN read

\* The loop over the extension blocks, by the offset it has come to: TRUE when
\* each block from there on ends before the checksum.
BlocksEnd(data) ==
    LET limit == Len(data) - 20
        ends[offset \in 0 .. Len(data)] ==
            \/ offset + 8 > limit
            \/ LET next == offset + 8 + Uint32At(data, offset + 4)
               IN next <= limit /\ ends[next]
    IN ends

ReadIndex(data) ==
    LET limit   == Len(data) - 20
        content == SubSeq(data, 1, limit)
        count   == Uint32At(data, 8)
        read    == ReadEntries(data, count)[count]
    IN IF \/ Len(data) < 32
          \/ SubSeq(data, limit + 1, Len(data)) # Checksum(content)
          \/ SubSeq(data, 1, 4) # DIRC
          \/ Uint32At(data, 4) \notin 2 .. 3
          \/ ~read.ok \/ ~BlocksEnd(data)[read.offset]
       THEN Refused
       ELSE [status |-> "ok", entries |-> read.entries]
-------------------------------------------------------------------------------
CodecInit ==
    /\ entries \in SeqOf(IndexEntry, MaxEntries)
    /\ blocks \in SeqOf(Extensions, MaxBlocks)
    /\ readBack = Unread

CodecStep ==
    /\ readBack = Unread
    /\ readBack' = ReadIndex(WriteIndex(entries, blocks))
    /\ UNCHANGED <<entries, blocks>>

CodecSpec == CodecInit /\ [][CodecStep]_<<entries, blocks, readBack>>

(***************************************************************************)
(* read_index.go:46-48: what a writer of version 2 or 3 wrote is read back *)
(* entry by entry, the padding agreed upon for every length of a path, the *)
(* stage kept apart from the extended bit above it, and the blocks that    *)
(* follow the entries skipped.                                             *)
(***************************************************************************)
IndexRoundTrip ==
    readBack # Unread => readBack = [status |-> "ok", entries |-> entries]
===============================================================================
