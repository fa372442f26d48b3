--------------------------- MODULE MCMediaSetXml ---------------------------
(* Media sets of two directories, two regular files, one load and one      *)
(* batch.                                                                  *)
EXTENDS MediaSetViewer

CONSTANTS d1, d2, f1, f2, l1, b1, p1, p2, Crc32

Trees ==
  {[parent |-> (d1 :> Root) @@ (d2 :> d1) @@ (f1 :> p[1]) @@ (f2 :> p[2])
                 @@ (l1 :> p[3]) @@ (b1 :> d1),
    name |-> (d1 :> "d1") @@ (d2 :> "d2") @@ (f1 :> "f") @@ (f2 :> n)
               @@ (l1 :> "l") @@ (b1 :> "b"),
    medium |-> (Root :> IF n = "f" THEN NoValue ELSE 2) @@ (d1 :> 2) @@ (d2 :> NoValue) @@ (f1 :> 1) @@ (f2 :> NoValue)
                 @@ (l1 :> NoValue) @@ (b1 :> 2),
    check |-> [s \in Scope |-> IF s \in {<<Root, "mediaSet">>, <<l1, "data">>} THEN Crc32
                               ELSE IF s = <<f1, "file">> THEN NotUsed ELSE NoValue],
    data |-> (l1 :> {f1}),
    support |-> (l1 :> {f2}),
    targets |-> (b1 :> ((p1 :> {l1}) @@ (p2 :> {})))] :
      n \in {"f", "g"},
      p \in {<<Root, d1, Root>>, <<Root, Root, d2>>, <<d2, d2, d2>>, <<d2, d1, Root>>, <<d2, Root, d2>>}}

(* Two target hardware IDs, one of them without positions. *)
HardwareIds == l1 :> <<2, 0>>

(* Names are unique in a directory. *)
MediaSets ==
  {t \in Trees : \A x, y \in Entity :
     x # y /\ t.parent[x] = t.parent[y] /\ t.parent[x] # NoValue => t.name[x] # t.name[y]}
=============================================================================
