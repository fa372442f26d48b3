-------------------------- MODULE MediaSetRegistry --------------------------
(***************************************************************************)
(* What a Media Set Manager repository promises: a durable catalogue of    *)
(* part numbers, and media sets stored beside it. The catalogue changes by *)
(* one media set at a time, names only stored media sets, and a media set  *)
(* it names stays stored. The catalogue as a whole may be lost, and then   *)
(* it stays lost.                                                          *)
(***************************************************************************)
CONSTANT PartNumber

VARIABLES
  status,     \* "none" before creation, "open", or "lost"
  catalogue,  \* the registered media sets
  stored      \* the media sets of which every file is stored

registryVars == <<status, catalogue, stored>>

Init == status = "none" /\ catalogue = {} /\ stored = {}

Create ==
  /\ status = "none"
  /\ status' = "open"
  /\ UNCHANGED <<catalogue, stored>>

Lose ==
  /\ status' = "lost"
  /\ catalogue' = {}
  /\ UNCHANGED stored

Store(p) ==
  /\ stored' = stored \cup {p}
  /\ UNCHANGED <<status, catalogue>>

Discard(p) ==
  /\ status = "open"
  /\ p \notin catalogue
  /\ stored' = stored \ {p}
  /\ UNCHANGED <<status, catalogue>>

Register(p) ==
  /\ status = "open"
  /\ p \in stored
  /\ catalogue' = catalogue \cup {p}
  /\ UNCHANGED <<status, stored>>

Deregister(p) ==
  /\ status = "open"
  /\ catalogue' = catalogue \ {p}
  /\ UNCHANGED <<status, stored>>

Next ==
  \/ Create
  \/ Lose
  \/ \E p \in PartNumber :
       Store(p) \/ Discard(p) \/ Register(p) \/ Deregister(p)

Spec == Init /\ [][Next]_registryVars

=============================================================================
