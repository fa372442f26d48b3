------------------------ MODULE MCMediaSetTransport ------------------------
(* Media sets of up to two directories, two regular files, one load and   *)
(* one batch, on up to two media or with a file on the largest medium.    *)
EXTENDS MediaSetTransport

CONSTANTS d1, d2, f1, f2, l1, b1, p1, v1, v2, v3, Crc32

(* Two values have one checksum. *)
Checksums == (v1 :> 1) @@ (v2 :> 1) @@ (v3 :> 3)

Trees ==
  {[parent |-> (d1 :> Root) @@ (d2 :> pd) @@ (f1 :> p[1]) @@ (f2 :> p[2]) @@ (l1 :> p[3]) @@ (b1 :> p[4]),
    name |-> (d1 :> "d1") @@ (d2 :> "d2") @@ (f1 :> "f") @@ (f2 :> n) @@ (l1 :> "l")
                @@ (b1 :> IF p[2] = NoValue /\ n = "l" THEN "l" ELSE "b"),
    medium |-> (Root :> 1) @@ (d1 :> m[1]) @@ (d2 :> NoValue) @@ (f1 :> NoValue) @@ (f2 :> m[2])
                 @@ (l1 :> NoValue) @@ (b1 :> NoValue),
    check |-> [s \in Scope |-> IF s = <<Root, "mediaSet">> THEN Crc32
                               ELSE IF s = <<f1, "file">> THEN NotUsed ELSE NoValue],
    data |-> (l1 :> {f1}),
    support |-> (l1 :> IF p[2] = NoValue \/ (n = "g" /\ p[2] = p[3]) THEN {} ELSE {f2}),
    targets |-> (b1 :> (p1 :> IF p[4] = NoValue THEN NoValue ELSE {l1}))] :
      pd \in {Root, d1}, n \in {"f", "g", "l", "FILES.LUM", "BATCHES.LUM"}, m \in {NoValue, 2, MaxMedium} \X {NoValue, 2},
      p \in {Root, d1, d2} \X {NoValue, Root, d1, d2} \X {Root, d2} \X {NoValue, Root, d1}}

(* Names are unique in a directory, and absent files have no attributes.   *)
MediaSets ==
  {t \in Trees :
     /\ \A x, y \in Entity :
          x # y /\ t.parent[x] = t.parent[y] /\ t.parent[x] # NoValue => t.name[x] # t.name[y]
     /\ t.parent[f2] = NoValue => t.name[f2] # "f" /\ t.medium[f2] = NoValue
     /\ t.medium[d1] = MaxMedium => t.parent[f2] = NoValue
     /\ "l" \in {t.name[f2], t.name[b1]} => t.parent[d2] = d1 /\ t.medium[f2] = NoValue
     /\ t.name[f2] \in {"FILES.LUM", "BATCHES.LUM"} =>
          /\ t.parent[f2] \in {Root, d1} /\ t.parent[d2] = d1 /\ t.parent[f1] # Root
          /\ \A c \in {d1, f2} : t.medium[c] = NoValue}

Originals == (("All" :> "missing") @@ ("None" :> "current") @@ ("NoneExisting" :> "earlier"))

(* Files of one name differ by policy in nothing, in content or in sum.    *)
Contents == ("All" :> v1) @@ ("None" :> v2) @@ ("NoneExisting" :> v3)

(* The earlier edition differs in the checksums of both files, only in     *)
(* their contents, or, if its headers are taken over, in one of each.      *)
EarlierContents(p) ==
  (f1 :> IF p = "All" THEN v3 ELSE v2) @@ (f2 :> IF p = "All" THEN v3 ELSE v1)

Versions(policy) == IF policy = "All" THEN Version ELSE {"Supplement345"}

Descriptions(trees) ==
  UNION {{[ms |-> t, version |-> v, policy |-> p,
    value |-> (f1 :> v1) @@ (f2 :> Contents[p]), earlier |-> EarlierContents(p),
    original |-> [f \in {l1, b1} |-> Originals[p]]] :
      t \in trees, v \in Versions(p)} : p \in Policy}

Sources == Descriptions({t \in MediaSets : BatchesListed(t)})
SourcesWithBatches == Descriptions({t \in MediaSets : ~BatchesListed(t)})
=============================================================================
