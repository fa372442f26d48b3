-------------------------- MODULE MCArinc665Files --------------------------
(* Small contents of all kinds of files, with strings, lengths and entries *)
(* at the limits of their fields. A byte has four values, so that strings  *)
(* have up to 15 characters.                                               *)
EXTENDS Arinc665Files

Crc16Type == 1
Crc32Type == 2
CheckSizes == (NotUsed :> 0) @@ (Crc16Type :> 1) @@ (Crc32Type :> 2)

Odd == <<1>>
Even == <<2, 3>>
Longest == [i \in 1 .. WordBase - 1 |-> 2]
TooLong == Append(Longest, 1)

Checks ==
  {NoCheckValue, [type |-> Crc16Type, value |-> <<7>>], [type |-> Crc32Type, value |-> <<7, 0>>]}
(* With a check value of 32 bits, an entry of Supplement 3 only fits the   *)
(* field of its next pointer if the part number is empty.                  *)
ALoadFile(length, check) ==
  [name |-> Odd, part |-> IF check.type = Crc32Type THEN <<>> ELSE Even,
   length |-> length, crc |-> 9, check |-> check]

(* Load headers with every choice of optional parts, and load headers with *)
(* lengths and strings at their limits.                                    *)
AHeader(v, part, type, positions, data, support, user, check) ==
  [kind |-> "loadHeader", version |-> v, flags |-> 5, part |-> part, type |-> type,
   thw |-> <<Odd, Even>>, positions |-> positions, data |-> data, support |-> support,
   user |-> user, check |-> check]
OneType == <<[description |-> Odd, number |-> 6]>>
TwoPositions == <<[thw |-> Odd, positions |-> <<>>], [thw |-> Even, positions |-> <<Odd, Even>>]>>
ManyPositions(n) ==
  [i \in 1 .. n |-> [thw |-> IF i = 1 THEN <<>> ELSE <<(i - 2) \div 4, (i - 2) % 4>>,
                    positions |-> << <<>> >>]]
AllLoadHeaders ==
  {AHeader(v, Odd, t, p, <<ALoadFile(3, c), ALoadFile(4, NoCheckValue)>>, s, u, k) :
     v \in {2, 3}, t \in {<<>>, OneType}, p \in {<<>>, TwoPositions}, c \in Checks,
     s \in {<<>>, <<ALoadFile(3, NoCheckValue)>>}, u \in {<<>>, <<1, 2, 3>>}, k \in {NotUsed, Crc16Type}}
  \cup {AHeader(v, p, <<>>, <<>>, <<ALoadFile(m, NoCheckValue)>>, <<ALoadFile(n, NoCheckValue)>>, <<>>, NotUsed) :
          v \in {2, 3}, p \in {Longest, TooLong}, m \in {0, 510, 511}, n \in {255, 256}}
  \cup {AHeader(3, Odd, <<>>, ManyPositions(n), <<>>, <<>>, <<>>, NotUsed) :
          n \in {WordBase - 1, WordBase}}
  \cup {AHeader(3, Odd, <<>>, <<>>, <<>>, <<>>, [i \in 1 .. 448 |-> 1], NotUsed)}

AFile(name, check) == [name |-> name, path |-> Odd, member |-> 3, crc |-> 4, check |-> check]
AllFileLists ==
  [kind : {"fileList"}, version : {2, 3}, part : {Even}, media : {[number |-> 1, members |-> 3]},
   files : {<<>>} \cup {<<AFile(n, c), AFile(Even, d)>> : n \in {Odd, Longest}, c, d \in Checks},
   user : {<<>>, <<1, 2, 3>>}, check : {NotUsed, Crc16Type}]

ALoadInfo(name, thw) == [name |-> name, part |-> Odd, member |-> 2, thw |-> thw]
AllLoadLists ==
  [kind : {"loadList"}, version : {2, 3}, part : {Odd}, media : {[number |-> 2, members |-> 3]},
   loads : {<<>>, <<ALoadInfo(Longest, <<Odd>>), ALoadInfo(Odd, <<>>)>>,
            <<ALoadInfo(Odd, <<Odd, Even>>), ALoadInfo(Even, <<>>), ALoadInfo(Odd, <<>>)>>},
   user : {<<>>, <<1>>}]

ABatchInfo(name) == [name |-> name, part |-> Odd, member |-> 1]
AllBatchLists ==
  [kind : {"batchList"}, version : {2, 3}, part : {Odd}, media : {[number |-> 1, members |-> 1]},
   batches : {<<>>, <<ABatchInfo(Odd), ABatchInfo(Longest)>>, <<ABatchInfo(Even), ABatchInfo(Odd)>>},
   user : {<<>>, <<1>>}]

ATarget(position, n) ==
  [position |-> position, loads |-> [i \in 1 .. n |-> [name |-> Odd, part |-> Even]]]
AllBatchFiles ==
  [kind : {"batchFile"}, version : {2, 3}, part : {Odd}, comment : {<<>>, Even},
   targets : {<<>>, <<ATarget(Even, 0)>>, <<ATarget(Odd, 2), ATarget(Even, 1)>>,
              <<ATarget(Longest, 2), ATarget(Odd, 1)>>}]

AllFiles == AllLoadHeaders \cup AllFileLists \cup AllLoadLists \cup AllBatchLists \cup AllBatchFiles

(* An object that was used before held most of what a file can hold. *)
UsedObjects ==
  {f \in AllFiles :
     CASE f.kind = "loadHeader" ->
            /\ f.version = 3 /\ f.part = Odd /\ f.type # <<>> /\ f.positions # <<>> /\ f.user # <<>>
            /\ f.check # NotUsed /\ f.support # <<>> /\ f.data[1].check = NoCheckValue
       [] f.kind = "fileList" ->
            f.version = 3 /\ f.user # <<>> /\ f.check # NotUsed /\ f.files = <<AFile(Odd, NoCheckValue), AFile(Even, NoCheckValue)>>
       [] f.kind = "loadList" -> f.version = 3 /\ f.user # <<>> /\ Len(f.loads) = 3
       [] f.kind = "batchList" -> f.version = 3 /\ f.user # <<>> /\ f.batches # <<>>
       [] f.kind = "batchFile" -> f.version = 3 /\ f.comment # <<>> /\ Len(f.targets) = 1}
=============================================================================
