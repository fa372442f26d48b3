---------------------------- MODULE Arinc665Files ----------------------------
(***************************************************************************)
(* The files of ARINC 665 as sequences of words: load header, batch file   *)
(* and the lists of files, loads and batches are encoded, perhaps damaged, *)
(* and decoded into an object that is new or was used before.              *)
(* A word is two bytes and a byte is below ByteBase (256 in the code), so  *)
(* every 16, 32 and 64 bit field keeps its range. A file is a header that  *)
(* points to sections, which are written one after the other.              *)
(***************************************************************************)
EXTENDS Integers, Sequences, SequencesExt

CONSTANTS
  ByteBase,    \* values of a byte
  Files,       \* bound: the contents that are encoded
  Before,      \* bound: the contents an object had before it is decoded into
  CheckSize,   \* words of a check value, by type
  LoadCrcs,    \* bound: load CRCs, calculated outside
  Deltas       \* bound: how damage changes a word

Byte == 0 .. ByteBase - 1
WordBase == ByteBase * ByteBase
Word == 0 .. WordBase - 1
DoubleBase == WordBase * WordBase
DoubleWord == 0 .. DoubleBase - 1
CheckType == DOMAIN CheckSize
NotUsed == 0

VARIABLES
  file,      \* the content to encode
  before,    \* the object to decode into, as it was before
  status,
  raw,       \* the encoded file
  damage,    \* index of the damaged word, or NoDamage
  result     \* the object after decoding
vars == <<file, before, status, raw, damage, result>>

-----------------------------------------------------------------------------
(* What a file holds. An optional part has at most one element.            *)

Text == Seq(Byte)
NoCheckValue == [type |-> NotUsed, value |-> <<>>]
CheckValue == UNION {[type : {t}, value : [1 .. CheckSize[t] -> Word]] : t \in CheckType}

FileLength == 0 .. DoubleBase * DoubleBase - 2   \* a 64 bit length that can be rounded up
MediumNumber == Byte \ {0}
Media == INSTANCE MediumNumbers WITH MaxMedium <- ByteBase - 1

LoadFile == [name : Text, part : Text, length : FileLength, crc : Word, check : CheckValue]
LoadType == [description : Text, number : Word]
HardwarePositions == [thw : Text, positions : Seq(Text)]
FileInfo == [name : Text, path : Text, member : MediumNumber, crc : Word, check : CheckValue]
LoadInfo == [part : Text, name : Text, member : MediumNumber, thw : Seq(Text)]
BatchInfo == [part : Text, name : Text, member : MediumNumber]
BatchLoad == [name : Text, part : Text]
BatchTarget == [position : Text, loads : Seq(BatchLoad)]
MediaInformation == [number : MediumNumber, members : MediumNumber]
UserData == {d \in Text : Len(d) % 2 = 0}
Supplement == {2, 3}

LoadHeader ==
  [kind : {"loadHeader"}, version : Supplement, flags : Word, part : Text,
   type : {<<>>} \cup [1 .. 1 -> LoadType], thw : Seq(Text), positions : Seq(HardwarePositions),
   data : Seq(LoadFile), support : Seq(LoadFile), user : UserData, check : CheckType]
FileList ==
  [kind : {"fileList"}, version : Supplement, part : Text, media : MediaInformation,
   files : Seq(FileInfo), user : UserData, check : CheckType]
LoadList ==
  [kind : {"loadList"}, version : Supplement, part : Text, media : MediaInformation,
   loads : Seq(LoadInfo), user : UserData]
BatchList ==
  [kind : {"batchList"}, version : Supplement, part : Text, media : MediaInformation,
   batches : Seq(BatchInfo), user : UserData]
BatchFile ==
  [kind : {"batchFile"}, version : Supplement, part : Text, comment : Text,
   targets : Seq(BatchTarget)]
Contents == LoadHeader \cup FileList \cup LoadList \cup BatchList \cup BatchFile

Padded(bytes) == IF Len(bytes) % 2 = 0 THEN bytes ELSE Append(bytes, 0)

(* What the members hold after the setters. User defined data is filled up *)
(* to whole words, hardware without positions is not written.              *)
Content(f) ==
  CASE f.kind = "batchFile" -> f
    [] f.kind = "loadHeader" ->
         [f EXCEPT !.user = Padded(@),
                   !.positions = SelectSeq(@, LAMBDA p : p.positions # <<>>)]
    [] OTHER -> [f EXCEPT !.user = Padded(@)]

ASSUME FilesAssumption ==
  /\ ByteBase \in Nat /\ ByteBase > 2
  /\ NotUsed \in CheckType /\ CheckType \subseteq Word
  /\ CheckSize[NotUsed] = 0
  /\ \A t \in CheckType : CheckSize[t] \in Nat /\ 4 + 2 * CheckSize[t] \in Word
  /\ Deltas \subseteq Word \ {0} /\ LoadCrcs \subseteq DoubleWord
  /\ \A f \in Files \cup Before : Content(f) \in Contents

-----------------------------------------------------------------------------
(* Writing.                                                                *)

High(d) == d \div WordBase
Low(d) == d % WordBase
Double(d) == <<High(d), Low(d)>>
Quad(q) == Double(q \div DoubleBase) \o Double(q % DoubleBase)

Packed(bytes) ==
  LET b == Padded(bytes)
  IN [i \in 1 .. Len(b) \div 2 |-> b[2 * i - 1] * ByteBase + b[2 * i]]

EncodedString(s) == <<Len(s)>> \o Packed(s)

EncodedCheckValue(c) ==
  IF c.type = NotUsed THEN <<0>> ELSE <<4 + 2 * CheckSize[c.type], c.type>> \o c.value

(* Entries after their number. *)
EncodedMany(entries) == <<Len(entries)>> \o FlattenSeq(entries)

(* Mutant: a pointer that does not fit is written as it is.                *)
NextPointerWide(size) == size + 1

(* From an entry to the next one, the pointer itself included. *)
NextPointer(size) == (size + 1) % WordBase

EncodedList(entries) ==
  EncodedMany([i \in DOMAIN entries |->
                 <<IF i = Len(entries) THEN 0 ELSE NextPointer(Len(entries[i]))>> \o entries[i]])

EncodedStrings(ss) == EncodedMany([i \in DOMAIN ss |-> EncodedString(ss[i])])

(* Only Supplement 3 and later have check values of files.                 *)
From3(v, words) == IF v = 3 THEN words ELSE <<>>

EncodedDataFile(v, e) ==
  EncodedString(e.name) \o EncodedString(e.part) \o Double((e.length + 1) \div 2) \o <<e.crc>>
    \o From3(v, Quad(e.length) \o EncodedCheckValue(e.check))
EncodedSupportFile(v, e) ==
  EncodedString(e.name) \o EncodedString(e.part) \o Double(e.length) \o <<e.crc>>
    \o From3(v, EncodedCheckValue(e.check))
EncodedLoadType(t) == EncodedString(t.description) \o <<t.number>>
EncodedPositions(p) == EncodedString(p.thw) \o EncodedStrings(p.positions)
EncodedFileInfo(v, e) ==
  EncodedString(e.name) \o EncodedString(e.path) \o <<e.member, e.crc>>
    \o From3(v, EncodedCheckValue(e.check))
EncodedLoadInfo(e) ==
  EncodedString(e.part) \o EncodedString(e.name) \o <<e.member>> \o EncodedStrings(e.thw)
EncodedBatchInfo(e) == EncodedString(e.part) \o EncodedString(e.name) \o <<e.member>>
EncodedBatchLoad(e) == EncodedString(e.name) \o EncodedString(e.part)
EncodedTarget(e) ==
  EncodedString(e.position) \o EncodedMany([i \in DOMAIN e.loads |-> EncodedBatchLoad(e.loads[i])])
EncodedMediaInformation(f) ==
  EncodedString(f.part) \o <<f.media.number * ByteBase + f.media.members>>

(* The entries of the lists, without next pointers. *)
DataFileEntries(f) == [i \in DOMAIN f.data |-> EncodedDataFile(f.version, f.data[i])]
SupportFileEntries(f) == [i \in DOMAIN f.support |-> EncodedSupportFile(f.version, f.support[i])]
FileEntries(f) == [i \in DOMAIN f.files |-> EncodedFileInfo(f.version, f.files[i])]
LoadEntries(f) == [i \in DOMAIN f.loads |-> EncodedLoadInfo(f.loads[i])]
BatchEntries(f) == [i \in DOMAIN f.batches |-> EncodedBatchInfo(f.batches[i])]
TargetEntries(f) == [i \in DOMAIN f.targets |-> EncodedTarget(f.targets[i])]

(* The sections in the order in which they are written. What is left out   *)
(* is empty. The number of hardware with positions is cut to its field.    *)
ListSection(entries) == IF entries = <<>> THEN <<>> ELSE EncodedList(entries)
PositionsSection(ps) ==
  LET n == Len(ps) % WordBase
  IN IF n = 0 THEN <<>>
     ELSE <<n>> \o FlattenSeq([i \in DOMAIN ps |-> EncodedPositions(ps[i])])
LoadHeaderSections(f) ==
  <<EncodedString(f.part),
    IF f.type = <<>> THEN <<>> ELSE From3(f.version, EncodedLoadType(f.type[1])),
    EncodedStrings(f.thw),
    From3(f.version, PositionsSection(f.positions)),
    EncodedList(DataFileEntries(f)),
    ListSection(SupportFileEntries(f)),
    Packed(f.user)>>
ListFileSections(f, entries) ==
  <<EncodedMediaInformation(f), EncodedList(entries), Packed(f.user)>>
BatchFileSections(f) ==
  <<EncodedString(f.part) \o EncodedString(f.comment), EncodedList(TargetEntries(f))>>
Sections(f) ==
  CASE f.kind = "loadHeader" -> LoadHeaderSections(f)
    [] f.kind = "fileList" -> ListFileSections(f, FileEntries(f))
    [] f.kind = "loadList" -> ListFileSections(f, LoadEntries(f))
    [] f.kind = "batchList" -> ListFileSections(f, BatchEntries(f))
    [] f.kind = "batchFile" -> BatchFileSections(f)

(* The sections to which the header points, in the order of the pointers. *)
(* The last one is the check value, if there is one.                      *)
Pointers(kind, v) ==
  CASE kind = "loadHeader" -> IF v = 2 THEN <<1, 3, 5, 6, 7>> ELSE <<1, 3, 5, 6, 7, 2, 4, 8>>
    [] kind = "fileList" -> IF v = 2 THEN <<1, 2, 3>> ELSE <<1, 2, 3, 4>>
    [] kind \in {"loadList", "batchList"} -> <<1, 2, 3>>
    [] kind = "batchFile" -> <<1, 2>>
HeaderSize(kind, v) == 4 + 2 * Len(Pointers(kind, v))

(* Format versions tell load headers, batch files and lists apart. *)
FormatVersion(kind, v) ==
  v + CASE kind = "loadHeader" -> 0
        [] kind = "batchFile" -> 2
        [] OTHER -> 4

(* The last words: check value, file CRC and, in load headers, load CRC. A *)
(* load header has room for its check value, set later.                    *)
CrcWords(kind) == IF kind = "loadHeader" THEN 3 ELSE 1

(* Mutant: the basic header is left out.                                   *)
ChecksumOfBody(words) ==
  LET sum[i \in 0 .. Len(words)] == IF i < 4 THEN 0 ELSE (sum[i - 1] + words[i]) % WordBase
  IN sum[Len(words)]

Checksum(words) ==
  LET sum[i \in 0 .. Len(words)] == IF i = 0 THEN 0 ELSE (sum[i - 1] + words[i]) % WordBase
  IN sum[Len(words)]
CheckValueOf(t, words) == [type |-> t, value |-> [i \in 1 .. CheckSize[t] |-> Checksum(words)]]

HasCheckValue(kind, v) == v = 3 /\ kind \in {"loadHeader", "fileList"}
CheckValueRoom(f) ==
  IF HasCheckValue(f.kind, f.version)
  THEN [i \in 1 .. Len(EncodedCheckValue(CheckValueOf(f.check, <<>>))) |-> 0]
  ELSE <<>>
CheckValueWords(f, words) ==
  IF f.kind = "fileList" /\ f.version = 3 THEN EncodedCheckValue(CheckValueOf(f.check, words))
  ELSE CheckValueRoom(f)

AllSections(f) == Append(Sections(f), CheckValueRoom(f))
Start(f, i) ==
  HeaderSize(f.kind, f.version) + Len(FlattenSeq(SubSeq(AllSections(f), 1, i - 1)))
PointerTo(f, i) == IF AllSections(f)[i] = <<>> THEN 0 ELSE Start(f, i)
FileSize(f) == Start(f, Len(AllSections(f)) + 1) + CrcWords(f.kind)

Header(f) ==
  LET order == Pointers(f.kind, f.version)
  IN Double(FileSize(f))
     \o <<FormatVersion(f.kind, f.version),
          IF f.kind = "loadHeader" /\ f.version = 3 THEN f.flags ELSE 0>>
     \o [w \in 1 .. 2 * Len(order) |-> Double(PointerTo(f, order[(w + 1) \div 2]))[2 - (w % 2)]]

WithCrc(words, kind) == words \o <<Checksum(words)>> \o [i \in 1 .. CrcWords(kind) - 1 |-> 0]

EncodedFile(f) ==
  LET words == Header(f) \o FlattenSeq(Sections(f))
  IN WithCrc(words \o CheckValueWords(f, words), f.kind)

(* What does not fit its field is refused, except for the next pointers of *)
(* the lists of a media set.                                               *)
StringFits(s) == Len(s) \in Word
CountFits(s) == Len(s) \in Word
StringsFit(ss) == CountFits(ss) /\ \A i \in DOMAIN ss : StringFits(ss[i])
EntriesFit(entries) == \A i \in 1 .. Len(entries) - 1 : Len(entries[i]) + 1 \in Word
NamesFit(e) == StringFits(e.name) /\ StringFits(e.part)

LoadHeaderFits(f) ==
  /\ StringFits(f.part) /\ StringsFit(f.thw)
  /\ f.version = 3 =>
       /\ f.type # <<>> => StringFits(f.type[1].description)
       /\ \A i \in DOMAIN f.positions :
            StringFits(f.positions[i].thw) /\ StringsFit(f.positions[i].positions)
  /\ CountFits(f.data) /\ CountFits(f.support)
  /\ \A i \in DOMAIN f.data :
       NamesFit(f.data[i]) /\ (f.data[i].length + 1) \div 2 \in DoubleWord
  /\ \A i \in DOMAIN f.support : NamesFit(f.support[i]) /\ f.support[i].length \in DoubleWord
  /\ EntriesFit(DataFileEntries(f)) /\ EntriesFit(SupportFileEntries(f))
FileListFits(f) ==
  /\ StringFits(f.part) /\ CountFits(f.files)
  /\ \A i \in DOMAIN f.files : StringFits(f.files[i].name) /\ StringFits(f.files[i].path)
LoadListFits(f) ==
  /\ StringFits(f.part) /\ CountFits(f.loads)
  /\ \A i \in DOMAIN f.loads : NamesFit(f.loads[i]) /\ StringsFit(f.loads[i].thw)
BatchListFits(f) ==
  /\ StringFits(f.part) /\ CountFits(f.batches)
  /\ \A i \in DOMAIN f.batches : NamesFit(f.batches[i])
BatchFileFits(f) ==
  /\ StringFits(f.part) /\ StringFits(f.comment) /\ CountFits(f.targets)
  /\ \A i \in DOMAIN f.targets :
       /\ StringFits(f.targets[i].position) /\ CountFits(f.targets[i].loads)
       /\ \A j \in DOMAIN f.targets[i].loads : NamesFit(f.targets[i].loads[j])
  /\ EntriesFit(TargetEntries(f))
EncodableFile(f) ==
  /\ CASE f.kind = "loadHeader" -> LoadHeaderFits(f)
       [] f.kind = "fileList" -> FileListFits(f)
       [] f.kind = "loadList" -> LoadListFits(f)
       [] f.kind = "batchList" -> BatchListFits(f)
       [] f.kind = "batchFile" -> BatchFileFits(f)
  /\ FileSize(f) \in DoubleWord

-----------------------------------------------------------------------------
(* Reading. What cannot be read, or is found wrong, ends with Failed;      *)
(* reading behind the end of the file is refused by the Helper library.    *)

Failed == [ok |-> FALSE]
Got(value, at) == [ok |-> TRUE, value |-> value, at |-> at]

Places(words) == 0 .. Len(words)
Readable(words, at, n) == at + n <= Len(words)
Read(words, at, n) == SubSeq(words, at + 1, at + n)
Pointer(words, at) == words[at + 1] * WordBase + words[at + 2]

Unpacked(words, n) ==
  [i \in 1 .. n |-> IF i % 2 = 1 THEN words[(i + 1) \div 2] \div ByteBase
                                 ELSE words[i \div 2] % ByteBase]

DecodedString(words, at) ==
  LET n == words[at + 1]
      size == (n + 1) \div 2
  IN IF /\ Readable(words, at, 1) /\ Readable(words, at + 1, size)
        /\ n % 2 = 1 => words[at + 1 + size] % ByteBase = 0
     THEN Got(Unpacked(Read(words, at + 1, size), n), at + 1 + size)
     ELSE Failed

DecodedWord(words, at) == IF Readable(words, at, 1) THEN Got(words[at + 1], at + 1) ELSE Failed
DecodedDouble(words, at) == IF Readable(words, at, 2) THEN Got(Pointer(words, at), at + 2) ELSE Failed
DecodedQuad(words, at) ==
  IF Readable(words, at, 4)
  THEN Got(Pointer(words, at) * DoubleBase + Pointer(words, at + 2), at + 4) ELSE Failed
DecodedMember(words, at) ==
  IF Readable(words, at, 1) /\ words[at + 1] \in MediumNumber THEN Got(words[at + 1], at + 1)
  ELSE Failed

DecodedCheckValue(words, at) ==
  LET type == words[at + 2]
      size == CheckSize[type]
  IN IF ~ Readable(words, at, 1) THEN Failed
     ELSE IF words[at + 1] = 0 THEN Got(NoCheckValue, at + 1)
     ELSE IF /\ words[at + 1] >= 4 /\ Readable(words, at, 2)
             /\ type \in CheckType /\ words[at + 1] = 4 + 2 * size
             /\ Readable(words, at + 2, size)
     THEN Got([type |-> type, value |-> Read(words, at + 2, size)], at + 2 + size)
     ELSE Failed

(* Entries after their number. What decodes an entry is given as a         *)
(* function of the place.                                                  *)
DecodedMany(decoded, words, at) ==
  LET entries[i \in 0 .. words[at + 1]] ==
        IF i = 0 THEN Got(<<>>, at + 1)
        ELSE LET former == entries[i - 1]
                 entry == decoded[former.at]
             IN IF former.ok /\ entry.ok THEN Got(Append(former.value, entry.value), entry.at)
                ELSE Failed
  IN IF Readable(words, at, 1) THEN entries[words[at + 1]] ELSE Failed

(* Entries with pointers to the next one, which only the last has not. *)
DecodedList(decoded, words, at) ==
  LET n == words[at + 1]
      entries[i \in 0 .. n] ==
        IF i = 0 THEN Got(<<>>, at + 1)
        ELSE LET former == entries[i - 1]
                 next == words[former.at + 1]
                 entry == decoded[former.at + 1]
             IN IF former.ok /\ Readable(words, former.at, 1) /\ (i = n <=> next = 0) /\ entry.ok
                THEN Got(Append(former.value, entry.value), former.at + next) ELSE Failed
  IN IF Readable(words, at, 1) THEN entries[n] ELSE Failed

DecodedStrings(words, at) ==
  DecodedMany([p \in Places(words) |-> DecodedString(words, p)], words, at)

DecodedFrom3(v, words, at) == IF v = 3 THEN DecodedCheckValue(words, at) ELSE Got(NoCheckValue, at)

(* The length in words and the length in bytes must agree. *)
Consistent(size, length) == (length + 1) \div 2 \in DoubleWord => size = (length + 1) \div 2

DecodedDataFile(v, words, at) ==
  LET name == DecodedString(words, at)
      part == DecodedString(words, name.at)
      size == DecodedDouble(words, part.at)
      crc == DecodedWord(words, size.at)
      length == IF v = 3 THEN DecodedQuad(words, crc.at) ELSE Got(2 * size.value, crc.at)
      check == DecodedFrom3(v, words, length.at)
  IN IF /\ name.ok /\ part.ok /\ size.ok /\ crc.ok /\ length.ok
        /\ v = 3 => Consistent(size.value, length.value)
        /\ check.ok
     THEN Got([name |-> name.value, part |-> part.value, length |-> length.value,
               crc |-> crc.value, check |-> check.value], check.at)
     ELSE Failed

DecodedSupportFile(v, words, at) ==
  LET name == DecodedString(words, at)
      part == DecodedString(words, name.at)
      length == DecodedDouble(words, part.at)
      crc == DecodedWord(words, length.at)
      check == DecodedFrom3(v, words, crc.at)
  IN IF name.ok /\ part.ok /\ length.ok /\ crc.ok /\ check.ok
     THEN Got([name |-> name.value, part |-> part.value, length |-> length.value,
               crc |-> crc.value, check |-> check.value], check.at)
     ELSE Failed

DecodedLoadType(words, at) ==
  LET description == DecodedString(words, at)
      number == DecodedWord(words, description.at)
  IN IF description.ok /\ number.ok
     THEN Got(<<[description |-> description.value, number |-> number.value]>>, number.at)
     ELSE Failed

DecodedPositions(words, at) ==
  LET thw == DecodedString(words, at)
      positions == DecodedStrings(words, thw.at)
  IN IF thw.ok /\ positions.ok
     THEN Got([thw |-> thw.value, positions |-> positions.value], positions.at) ELSE Failed

DecodedFileInfo(v, words, at) ==
  LET name == DecodedString(words, at)
      path == DecodedString(words, name.at)
      member == DecodedMember(words, path.at)
      crc == DecodedWord(words, member.at)
      check == DecodedFrom3(v, words, crc.at)
  IN IF name.ok /\ path.ok /\ member.ok /\ crc.ok /\ check.ok
     THEN Got([name |-> name.value, path |-> path.value, member |-> member.value,
               crc |-> crc.value, check |-> check.value], check.at)
     ELSE Failed

DecodedLoadInfo(words, at) ==
  LET part == DecodedString(words, at)
      name == DecodedString(words, part.at)
      member == DecodedMember(words, name.at)
      thw == DecodedStrings(words, member.at)
  IN IF part.ok /\ name.ok /\ member.ok /\ thw.ok
     THEN Got([part |-> part.value, name |-> name.value, member |-> member.value,
               thw |-> thw.value], thw.at)
     ELSE Failed

DecodedBatchInfo(words, at) ==
  LET part == DecodedString(words, at)
      name == DecodedString(words, part.at)
      member == DecodedMember(words, name.at)
  IN IF part.ok /\ name.ok /\ member.ok
     THEN Got([part |-> part.value, name |-> name.value, member |-> member.value], member.at)
     ELSE Failed

DecodedBatchLoad(words, at) ==
  LET name == DecodedString(words, at)
      part == DecodedString(words, name.at)
  IN IF name.ok /\ part.ok THEN Got([name |-> name.value, part |-> part.value], part.at) ELSE Failed

DecodedTarget(words, at) ==
  LET position == DecodedString(words, at)
      loads == DecodedMany([p \in Places(words) |-> DecodedBatchLoad(words, p)], words, position.at)
  IN IF position.ok /\ loads.ok
     THEN Got([position |-> position.value, loads |-> loads.value], loads.at) ELSE Failed

DecodedMediaInformation(words, at) ==
  LET part == DecodedString(words, at)
      numbers == words[part.at + 1]
  IN IF part.ok /\ Readable(words, part.at, 1)
     THEN Got([part |-> part.value,
               media |-> [number |-> Media!MediumNumberOf(numbers \div ByteBase),
                          members |-> Media!MediumNumberOf(numbers % ByteBase)]], part.at + 1)
     ELSE Failed

-----------------------------------------------------------------------------
(* The whole file.                                                         *)

(* Mutant: the load type is not emptied.                                   *)
ResetButType(o) ==
  CASE o.kind = "loadHeader" -> [o EXCEPT !.positions = <<>>, !.user = <<>>, !.check = NotUsed]
    [] o.kind = "fileList" -> [o EXCEPT !.check = NotUsed]
    [] OTHER -> o

(* What is emptied before the sections are read. The other members of a    *)
(* used object stay as they are if the file has no section for them.       *)
Reset(o) ==
  CASE o.kind = "loadHeader" ->
         [o EXCEPT !.type = <<>>, !.positions = <<>>, !.user = <<>>, !.check = NotUsed]
    [] o.kind = "fileList" -> [o EXCEPT !.check = NotUsed]
    [] OTHER -> o

(* Mutant: the load CRC behind the file CRC is forgotten.                  *)
DecodedUserDataToCrc(words, at, check, kind, former) ==
  LET end == IF check = 0 THEN Len(words) - 1 ELSE check
  IN IF at = 0 THEN Got(former, 0)
     ELSE IF check # 0 /\ check <= at THEN Failed
     ELSE Got(Unpacked(SubSeq(words, at + 1, end), 2 * (end - at)), end)

(* User defined data ends at the check value or else at the CRC. *)
DecodedUserData(words, at, check, kind, former) ==
  LET end == IF check = 0 THEN Len(words) - CrcWords(kind) ELSE check
  IN IF at = 0 THEN Got(former, 0)
     ELSE IF check # 0 /\ check <= at THEN Failed
     ELSE Got(Unpacked(SubSeq(words, at + 1, end), 2 * (end - at)), end)

(* An optional section with a pointer; without one the former value stays. *)
Optional(at, decoded, former) == IF at = 0 THEN Got(former, 0) ELSE decoded

DecodedLoadHeader(o, words, v) ==
  LET typeAt == IF v = 3 THEN Pointer(words, 14) ELSE 0
      positionsAt == IF v = 3 THEN Pointer(words, 16) ELSE 0
      checkAt == IF v = 3 THEN Pointer(words, 18) ELSE 0
      part == DecodedString(words, Pointer(words, 4))
      type == Optional(typeAt, DecodedLoadType(words, typeAt), o.type)
      thw == DecodedStrings(words, Pointer(words, 6))
      positions ==
        Optional(positionsAt,
                 DecodedMany([p \in Places(words) |-> DecodedPositions(words, p)], words, positionsAt),
                 o.positions)
      data == DecodedList([p \in Places(words) |-> DecodedDataFile(v, words, p)],
                          words, Pointer(words, 8))
      support == Optional(Pointer(words, 10),
                          DecodedList([p \in Places(words) |-> DecodedSupportFile(v, words, p)],
                                      words, Pointer(words, 10)),
                          o.support)
      user == DecodedUserData(words, Pointer(words, 12), checkAt, o.kind, o.user)
      check == Optional(checkAt, DecodedCheckValue(words, checkAt), NoCheckValue)
  IN IF /\ part.ok /\ type.ok /\ thw.ok /\ positions.ok /\ data.ok /\ support.ok /\ user.ok
        /\ check.ok
     THEN Got([o EXCEPT !.version = v, !.flags = IF v = 3 THEN words[4] ELSE @,
                        !.part = part.value, !.type = type.value, !.thw = thw.value,
                        !.positions = positions.value, !.data = data.value,
                        !.support = support.value, !.user = user.value,
                        !.check = check.value.type], 0)
     ELSE Failed

(* The list of files verifies its check value. *)
DecodedFileList(o, words, v) ==
  LET checkAt == IF v = 3 THEN Pointer(words, 10) ELSE 0
      info == DecodedMediaInformation(words, Pointer(words, 4))
      files == DecodedList([p \in Places(words) |-> DecodedFileInfo(v, words, p)],
                           words, Pointer(words, 6))
      user == DecodedUserData(words, Pointer(words, 8), checkAt, o.kind, o.user)
      check == Optional(checkAt, DecodedCheckValue(words, checkAt), NoCheckValue)
  IN IF /\ info.ok /\ files.ok /\ user.ok /\ check.ok
        /\ check.value.type # NotUsed =>
             check.value = CheckValueOf(check.value.type, Read(words, 0, checkAt))
     THEN Got([o EXCEPT !.version = v, !.part = info.value.part, !.media = info.value.media,
                        !.files = files.value, !.user = user.value,
                        !.check = check.value.type], 0)
     ELSE Failed

(* The loads are added to those that the list already has. *)
DecodedLoadList(o, words, v) ==
  LET info == DecodedMediaInformation(words, Pointer(words, 4))
      loads == DecodedList([p \in Places(words) |-> DecodedLoadInfo(words, p)],
                           words, Pointer(words, 6))
      user == DecodedUserData(words, Pointer(words, 8), 0, o.kind, o.user)
  IN IF info.ok /\ loads.ok /\ user.ok
     THEN Got([o EXCEPT !.version = v, !.part = info.value.part, !.media = info.value.media,
                        !.loads = @ \o loads.value, !.user = user.value], 0)
     ELSE Failed

DecodedBatchList(o, words, v) ==
  LET info == DecodedMediaInformation(words, Pointer(words, 4))
      batches == DecodedList([p \in Places(words) |-> DecodedBatchInfo(words, p)],
                             words, Pointer(words, 6))
      user == DecodedUserData(words, Pointer(words, 8), 0, o.kind, o.user)
  IN IF info.ok /\ batches.ok /\ user.ok
     THEN Got([o EXCEPT !.version = v, !.part = info.value.part, !.media = info.value.media,
                        !.batches = batches.value, !.user = user.value], 0)
     ELSE Failed

DecodedBatchFile(o, words, v) ==
  LET part == DecodedString(words, Pointer(words, 4))
      comment == DecodedString(words, part.at)
      targets == DecodedList([p \in Places(words) |-> DecodedTarget(words, p)],
                             words, Pointer(words, 6))
  IN IF part.ok /\ comment.ok /\ targets.ok
     THEN Got([o EXCEPT !.version = v, !.part = part.value, !.comment = comment.value,
                        !.targets = targets.value], 0)
     ELSE Failed

HeaderAccepted(words, kind, v) ==
  LET crc == Len(words) - CrcWords(kind)
  IN /\ Pointer(words, 0) = Len(words)
     /\ words[3] = FormatVersion(kind, v)
     /\ words[crc + 1] = Checksum(Read(words, 0, crc))

SpareAccepted(words, kind, v) == (kind = "loadHeader" /\ v = 3) \/ words[4] = 0

DecodedBody(o, words, v) ==
  CASE o.kind = "loadHeader" -> DecodedLoadHeader(o, words, v)
    [] o.kind = "fileList" -> DecodedFileList(o, words, v)
    [] o.kind = "loadList" -> DecodedLoadList(o, words, v)
    [] o.kind = "batchList" -> DecodedBatchList(o, words, v)
    [] o.kind = "batchFile" -> DecodedBatchFile(o, words, v)

DecodedFile(o, words) ==
  IF \E v \in Supplement : HeaderAccepted(words, o.kind, v) /\ SpareAccepted(words, o.kind, v)
  THEN DecodedBody(Reset(o), words, CHOOSE v \in Supplement : words[3] = FormatVersion(o.kind, v))
  ELSE Failed

-----------------------------------------------------------------------------
Blank(kind) ==
  LET media == [number |-> 1, members |-> 1]
  IN CASE kind = "loadHeader" ->
            [kind |-> kind, version |-> 3, flags |-> 0, part |-> <<>>, type |-> <<>>,
             thw |-> <<>>, positions |-> <<>>, data |-> <<>>, support |-> <<>>, user |-> <<>>,
             check |-> NotUsed]
       [] kind = "fileList" ->
            [kind |-> kind, version |-> 3, part |-> <<>>, media |-> media, files |-> <<>>,
             user |-> <<>>, check |-> NotUsed]
       [] kind = "loadList" ->
            [kind |-> kind, version |-> 3, part |-> <<>>, media |-> media, loads |-> <<>>,
             user |-> <<>>]
       [] kind = "batchList" ->
            [kind |-> kind, version |-> 3, part |-> <<>>, media |-> media, batches |-> <<>>,
             user |-> <<>>]
       [] kind = "batchFile" ->
            [kind |-> kind, version |-> 3, part |-> <<>>, comment |-> <<>>, targets |-> <<>>]

NoDamage == 0

Init ==
  /\ file \in {Content(f) : f \in Files}
  /\ before \in {Blank(file.kind)} \cup {Content(f) : f \in {g \in Before : g.kind = file.kind}}
  /\ status = "new" /\ raw = <<>> /\ damage = NoDamage /\ result = before

Encode ==
  /\ status = "new" /\ EncodableFile(file)
  /\ raw' = EncodedFile(file)
  /\ status' = IF file.kind = "loadHeader" THEN "encoded" ELSE "written"
  /\ UNCHANGED <<file, before, damage, result>>

RefuseToEncode ==
  /\ status = "new" /\ ~ EncodableFile(file)
  /\ status' = "refused"
  /\ UNCHANGED <<file, before, raw, damage, result>>

(* The check value of a load is put into its room, and the file CRC is     *)
(* calculated again. In Supplement 2 nothing is done.                      *)
WithLoadCheckValue(words) ==
  LET at == Pointer(words, 18)
      value == EncodedCheckValue(CheckValueOf(file.check, Read(words, 0, at)))
      crc == Len(words) - CrcWords(file.kind)
  IN Read(words, 0, at) \o value
     \o <<Checksum(Read(words, 0, at) \o value)>> \o SubSeq(words, crc + 2, Len(words))

StoreLoadCheckValue ==
  /\ status = "encoded"
  /\ raw' = IF file.version = 3 THEN WithLoadCheckValue(raw) ELSE raw
  /\ status' = "checked"
  /\ UNCHANGED <<file, before, damage, result>>

StoreLoadCrc ==
  /\ status = "checked"
  /\ \E crc \in LoadCrcs : raw' = Read(raw, 0, Len(raw) - 2) \o Double(crc)
  /\ status' = "written"
  /\ UNCHANGED <<file, before, damage, result>>

(* External: a word of the medium is damaged. *)
Damage ==
  /\ status = "written" /\ damage = NoDamage
  /\ \E i \in DOMAIN raw, d \in Deltas :
       /\ raw' = [raw EXCEPT ![i] = (@ + d) % WordBase]
       /\ damage' = i
  /\ UNCHANGED <<file, before, status, result>>

(* What a refused file has already changed in the object is not modelled: *)
(* the exception leaves it to nobody.                                      *)
Decode ==
  /\ status = "written"
  /\ LET d == DecodedFile(before, raw)
     IN IF d.ok THEN status' = "decoded" /\ result' = d.value
                ELSE status' = "rejected" /\ UNCHANGED result
  /\ UNCHANGED <<file, before, raw, damage>>

Next ==
  \/ Encode \/ RefuseToEncode \/ StoreLoadCheckValue \/ StoreLoadCrc
  \/ Damage \/ Decode

Spec == Init /\ [][Next]_vars
-----------------------------------------------------------------------------
(* Properties.                                                             *)

(* Type invariant: every value written to a file fits its field, and user  *)
(* defined data is a whole number of words.                                *)
TypeOK ==
  /\ status \in {"new", "encoded", "checked", "written", "refused", "decoded", "rejected"}
  /\ raw \in Seq(Word)
  /\ damage \in 0 .. Len(raw)
  /\ result.kind = file.kind /\ result.version \in {2, 3}
  /\ "user" \in DOMAIN result => Len(result.user) % 2 = 0

(* What is left of a content in its supplement: in Supplement 2 there are  *)
(* no flags, load types, positions and check values, and the length of a   *)
(* data file is known in words only.                                       *)
Unchecked(e) == [e EXCEPT !.check = NoCheckValue]
Expressible(f) ==
  IF f.version = 3 THEN f
  ELSE CASE f.kind = "loadHeader" ->
              [f EXCEPT !.flags = 0, !.type = <<>>, !.positions = <<>>, !.check = NotUsed,
                 !.data = [i \in DOMAIN f.data |->
                             [Unchecked(f.data[i]) EXCEPT !.length = @ + (@ % 2)]],
                 !.support = [i \in DOMAIN f.support |-> Unchecked(f.support[i])]]
         [] f.kind = "fileList" ->
              [f EXCEPT !.check = NotUsed,
                 !.files = [i \in DOMAIN f.files |-> Unchecked(f.files[i])]]
         [] OTHER -> f

(* All entries with a successor are small enough for the next pointer,     *)
(* which the lists of a media set do not check, and hardware with          *)
(* positions is few enough to be counted, which load headers do not check. *)
CountersFit(f) ==
  CASE f.kind = "loadHeader" -> CountFits(f.positions)
    [] f.kind = "fileList" -> EntriesFit(FileEntries(f))
    [] f.kind = "loadList" -> EntriesFit(LoadEntries(f))
    [] f.kind = "batchList" -> EntriesFit(BatchEntries(f))
    [] f.kind = "batchFile" -> TRUE

(* Encoding and decoding into a new object gives the content back, as far  *)
(* as the supplement can express it: no pointer, padding, optional section *)
(* or check value is read other than written. A written file is not        *)
(* rejected. (encode and decodeBody of the five kinds of files)            *)
DecodesWhatWasEncoded ==
  CountersFit(file) /\ before = Blank(file.kind) =>
    /\ status = "decoded" => result = Expressible(file)
    /\ status = "rejected" => damage # NoDamage

(* A file with one damaged word is not decoded, except for the load CRC of *)
(* a load header, which only the decompiler of media sets can check.       *)
(* (Arinc665File::decodeHeader)                                            *)
DamageDetected ==
  status = "decoded" /\ damage # NoDamage =>
    file.kind = "loadHeader" /\ damage > Len(raw) - 2

(* An object that is assigned a second file forgets the first one, but for *)
(* the support files of load headers, the flags in Supplement 2, the user  *)
(* defined data of the lists, each only if the new file has none, and the  *)
(* loads of the list of loads, which are kept before the new ones.         *)
(* (operator= of the files)                                                *)
Leftovers ==
  {m \in DOMAIN before :
     \/ m = "support" /\ file.support = <<>>
     \/ m = "flags" /\ file.version = 2
     \/ m = "user" /\ file.kind # "loadHeader" /\ file.user = <<>>}
ForgetsFormerContent ==
  status = "decoded" /\ CountersFit(file) =>
    \A m \in DOMAIN result :
      result[m] = IF m = "loads" THEN before.loads \o file.loads
                  ELSE IF m \in Leftovers THEN before[m]
                  ELSE Expressible(file)[m]
=============================================================================
