--------------------------- MODULE MCLearningLoop ---------------------------
(* Instances of LearningLoop for TLC.                                      *)
EXTENDS LearningLoop

CONSTANTS i1, i2, r1, r2, r3, r4, key, slot

(* r1 waits for both interactions and is too large to go with anything,    *)
(* r2 and r3 are a group, r4 shares the slot of r1.                        *)
NamedReferences == r1 :> {i1, i2} @@ r2 :> {i1} @@ r3 :> {i1} @@ r4 :> {i1}
Pair == r1 :> NoKey @@ r2 :> key @@ r3 :> key @@ r4 :> NoKey
OneSlot == r1 :> slot @@ r2 :> NoKey @@ r3 :> NoKey @@ r4 :> slot
MixedBytes == r1 :> 3 @@ r2 :> 1 @@ r3 :> 1 @@ r4 :> 1

(* Two regimes in one run: hosts race on the whole chain while there are   *)
(* no records, and records flow while the trainer is alone on a chain of   *)
(* two rows.                                                               *)
Regimes ==
  \/ log = <<>> /\ consumed = {}
  \/ /\ Len(releases) <= 2
     /\ \A c \in Callers \ {Trainer} : calls[c].pc = "new"
IdSymmetry == Permutations(Ids)
=============================================================================
