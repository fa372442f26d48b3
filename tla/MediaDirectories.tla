-------------------------- MODULE MediaDirectories --------------------------
(***************************************************************************)
(* The programs that call the decompiler: they are given directories, each *)
(* with one medium, and note for every file of the media set where it came *)
(* from. Each learns the number of a medium from its list of files.        *)
(***************************************************************************)
EXTENDS MediaSetDecompiler

VARIABLE directories   \* the directories in the order given, each named by
                       \*   the medium that it holds a copy of

(* getMediumInformation: without a list of files it is no medium. *)
IsMedium(d) == CanRead(<<d, ListOfFiles>>, "fileList")

MediumInformation(d) ==
  LET list == media[<<d, ListOfFiles>>]
  IN [number |-> list.medium, members |-> list.members]

(* The command stops at a directory that is no medium. *)
CommandAccepts == \A k \in DOMAIN directories : IsMedium(directories[k])

(* The source of a file: the directory at the place of its medium number.  *)
CommandSource(f) == directories[f.medium]

-----------------------------------------------------------------------------
(* The page of the viewer adds one directory after the other.              *)

(* The places of the directories that are media.                           *)
MediumPlaces == {k \in DOMAIN directories : IsMedium(directories[k])}

(* The first one settles how many media there are; others are refused.     *)
MediaSetMembers == MediumInformation(directories[Min(MediumPlaces)]).members

Taken == {k \in MediumPlaces : MediumInformation(directories[k]).members = MediaSetMembers}

NumberAt(k) == MediumInformation(directories[k]).number

(* Mutant: media are numbered in the order in which they are added.        *)
ViewerPathsByPlace ==
  [m \in 1 .. Cardinality(Taken) |->
     directories[CHOOSE k \in Taken : Cardinality({j \in Taken : j <= k}) = m]]

(* A later directory with the same medium replaces the former.             *)
ViewerPaths ==
  [m \in {NumberAt(k) : k \in Taken} |-> directories[Max({k \in Taken : NumberAt(k) = m})]]

(* The wizard can be finished. *)
ViewerComplete ==
  DOMAIN ViewerPaths # {} /\ MediaSetMembers = Cardinality(DOMAIN ViewerPaths)

ViewerSource(f) == ViewerPaths[f.medium]
=============================================================================
