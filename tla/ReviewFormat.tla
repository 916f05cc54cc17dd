---------------------------- MODULE ReviewFormat ----------------------------
(* How the changes of a bundle become the file list of a review: the          *)
(* validator parses what git diff-tree -z --raw prints, and rad-control       *)
(* checks and sorts it, so that the digest of equal changes is equal.         *)
(*                                                                            *)
(* Bytes are numbers.  The texts that match the header of a raw record are a  *)
(* constant; such bytes may occur in a path too.  A base64 text is what it    *)
(* decodes to and whether it is the one that encoding that gives back.        *)
EXTENDS Integers, SequencesExt

CONSTANTS
  Byte,        (* the bytes of a path and of a header                         *)
  Header,      (* the texts that match rawHeaderPattern                       *)
  FullHeader,  (* those of them whose blobs match objectIdSchema              *)
  MaxLength,   (* bound: the bytes of a raw diff                              *)
  MaxPath,     (* bound: the bytes of a path                                  *)
  MaxFiles     (* bound: the files of a list                                  *)

ASSUME FormatAssumption ==
  /\ Byte \subseteq 1..255
  /\ Header \subseteq Seq({b \in Byte : b < 128}) \ {<<>>}
  /\ FullHeader \subseteq Header
  /\ MaxLength \in Nat /\ MaxPath \in Nat /\ MaxFiles \in Nat \ {0}

Nul == 0

(* Buffer.toString("base64") and Buffer.from(text, "base64"): the texts that  *)
(* decode to the same bytes are one that is canonical and others.             *)
Encode(bytes) == [bytes |-> bytes, canonical |-> TRUE]
Decode(text) == text.bytes

(* Buffer.toString("ascii") clears the highest bit of every byte.             *)
Ascii(bytes) == [i \in DOMAIN bytes |-> bytes[i] % 128]

-----------------------------------------------------------------------------
(* apps/validator/src/raw-diff.ts *)

(* Mutant: an unterminated last field is dropped.                             *)
AnyTermination(raw) == TRUE

NulTerminated(raw) == raw # <<>> => Last(raw) = Nul

(* The offsets of the NUL bytes, and the k-th of them.                        *)
Nulls(raw) == {i \in DOMAIN raw : raw[i] = Nul}
NullAt(raw, k) ==
  CHOOSE i \in Nulls(raw) : Cardinality({j \in Nulls(raw) : j <= i}) = k

(* The fields that end in the NULs of raw.                                    *)
SplitNull(raw) ==
  LET start(k) == IF k = 1 THEN 1 ELSE NullAt(raw, k - 1) + 1
  IN [k \in 1..Cardinality(Nulls(raw)) |-> SubSeq(raw, start(k), NullAt(raw, k) - 1)]

(* parseRawDiff does not throw.                                               *)
Parses(raw, maxFiles) ==
  LET fields == SplitNull(raw) IN
  /\ NulTerminated(raw)
  /\ Len(fields) % 2 = 0
  /\ Len(fields) \div 2 <= maxFiles
  /\ \A k \in DOMAIN fields :
       IF k % 2 = 1 THEN Ascii(fields[k]) \in Header ELSE fields[k] # <<>>

ParseRawDiff(raw) ==
  LET fields == SplitNull(raw) IN
  [k \in 1..(Len(fields) \div 2) |->
     [header |-> Ascii(fields[2 * k - 1]), pathBase64 |-> Encode(fields[2 * k])]]

-----------------------------------------------------------------------------
(* packages/git-artifacts/src/crf.ts *)

(* Mutant: any text that decodes to a path.                                   *)
AnyBase64(text) == Decode(text) # <<>>

CanonicalBase64(text) ==
  Decode(text) # <<>> /\ Encode(Decode(text)) = text

(* Buffer.compare, and compareText on canonical JSON.                         *)
Precedes(a, b) ==
  \E n \in 0..Len(a) :
    /\ n < Len(b)
    /\ SubSeq(a, 1, n) = SubSeq(b, 1, n)
    /\ n = Len(a) \/ a[n + 1] < b[n + 1]

(* Files of one path come in the order of their other fields: any order does, *)
(* since a list in which a path comes twice is refused.                       *)
FilePrecedes(f, g) ==
  LET p == Decode(f.pathBase64)
      q == Decode(g.pathBase64)
  IN Precedes(p, q) \/ (p = q /\ Precedes(f.header, g.header))

(* Array.sort: in an order in which no file comes before one it follows.      *)
CanonicalizeFiles(files) ==
  LET order == CHOOSE p \in Bijection(DOMAIN files, DOMAIN files) :
        \A i, j \in DOMAIN files : i < j => ~FilePrecedes(files[p[j]], files[p[i]])
  IN [i \in DOMAIN files |-> files[order[i]]]

(* structuralFileSchema.parse does not throw.                                 *)
FitsSchema(file) ==
  /\ CanonicalBase64(file.pathBase64)
  /\ file.header \in FullHeader

(* canonicalizeFiles does not throw.                                          *)
Canonicalizes(files) ==
  LET sorted == CanonicalizeFiles(files) IN
  /\ \A k \in DOMAIN files : FitsSchema(files[k])
  /\ \A k \in DOMAIN sorted : k > 1 => sorted[k - 1].pathBase64 # sorted[k].pathBase64

-----------------------------------------------------------------------------
(* Reference definitions: what git prints, and the inputs up to the bounds    *)

(* git diff-tree -z --raw of files: each a header and a path, in turn.        *)
PrintRawDiff(files) ==
  FlattenSeq([k \in DOMAIN files |->
    files[k].header \o <<Nul>> \o Decode(files[k].pathBase64) \o <<Nul>>])

RawDiffs == SeqOf(Byte \cup {Nul}, MaxLength)
Paths == SeqOf(Byte, MaxPath)
Printable == [header : Header, pathBase64 : {Encode(p) : p \in Paths \ {<<>>}}]
Reported == [header : Header, pathBase64 : [bytes : Paths, canonical : BOOLEAN]]

DistinctPaths(files) ==
  \A i, j \in DOMAIN files :
    Decode(files[i].pathBase64) = Decode(files[j].pathBase64) => i = j

(* raw with the highest bit cleared in every byte that an even number of NULs *)
(* precedes, which is a byte of a header or the NUL after it.                 *)
AsciiHeaders(raw) ==
  [i \in DOMAIN raw |->
     IF Cardinality({j \in Nulls(raw) : j < i}) % 2 = 0 THEN raw[i] % 128 ELSE raw[i]]

(* The parser takes what git may print if and only if that is of no more      *)
(* files than allowed, and gives back the changes it was printed of.  What    *)
(* else it takes differs from that in the highest bit of header bytes only:   *)
(* no byte of a path is lost or changed, no truncated or misaligned output is *)
(* read as another list of changes (raw-diff.ts:12-70).                       *)
ExactFraming ==
  \A maxFiles \in 1..MaxFiles :
    /\ \A raw \in RawDiffs :
         Parses(raw, maxFiles) =>
           /\ PrintRawDiff(ParseRawDiff(raw)) = AsciiHeaders(raw)
           /\ Len(ParseRawDiff(raw)) <= maxFiles
    /\ \A files \in SeqOf(Printable, MaxFiles) :
         LET raw == PrintRawDiff(files) IN
         /\ Parses(raw, maxFiles) <=> Len(files) <= maxFiles
         /\ ParseRawDiff(raw) = files

(* One set of changes has one manifest, which names no path twice: whatever   *)
(* list a validator reports, it is refused or put in strict order of the      *)
(* paths' bytes, so that a second validation of the same changes gives the    *)
(* same digest; and a list as the parser makes it is refused for nothing but  *)
(* a path that comes twice or a blob that is not a full object id             *)
(* (crf.ts:7-30,152-173, review-service.ts:81, exact-revalidator.ts:48).      *)
CanonicalManifests ==
  /\ \A files \in SeqOf(Reported, MaxFiles) :
       Canonicalizes(files) =>
         LET manifest == CanonicalizeFiles(files) IN
         /\ ToSet(manifest) = ToSet(files) /\ Len(manifest) = Len(files)
         /\ \A k \in DOMAIN manifest : k > 1 =>
              Precedes(Decode(manifest[k - 1].pathBase64), Decode(manifest[k].pathBase64))
  /\ \A files \in SeqOf(Printable, MaxFiles) :
       Canonicalizes(ParseRawDiff(PrintRawDiff(files))) <=>
         /\ DistinctPaths(files)
         /\ \A k \in DOMAIN files : files[k].header \in FullHeader
=============================================================================
