---------------------------- MODULE ReleaseChain ----------------------------
(***************************************************************************)
(* The release chain of the learning surface: an append-only log of        *)
(* harness trees and a head, the release that is served.                   *)
(*                                                                         *)
(* Several hosts hold a surface over one store.  publish appends, promote  *)
(* moves the head, rollback and the seed of a new surface do both; each is *)
(* a read of the chain followed by turns of the store, and in between the  *)
(* other hosts run, the caller aborts, or its process ends.                *)
(*                                                                         *)
(* Trees are Contents, release ids come from the host's idFactory, which   *)
(* may repeat itself.  Every row the surface writes is restorable, so that *)
(* refusal of rollback is left out, as are gates and timestamps.           *)
(*                                                                         *)
(* AppendAnywhere and RejectedSeedIgnored are mistakes that faulty code    *)
(* could make; they test the properties and are no part of the             *)
(* specification.                                                          *)
(***************************************************************************)
EXTENDS Naturals, Sequences

CONSTANTS
  Callers,    \* host processes, each with a surface of its own
  Seeders,    \* those that pass a seed tree
  Contents,   \* admitted trees, by contentId
  Ids,        \* what idFactory may return: bounds the length of the chain
  None,       \* no release, no content
  MaxFaults   \* bound: aborted calls and crashes

ASSUME ChainAssumption ==
  /\ Seeders \subseteq Callers
  /\ None \notin Ids \cup Contents
  /\ MaxFaults \in Nat

VARIABLES
  releases,   \* state.releases: the rows, oldest first
  head,       \* state.headReleaseId
  calls,      \* the call in progress on each surface
  observed,   \* observedHead of each surface
  faults,     \* calls aborted and processes ended so far
  cutOff      \* history: one of them was a seed between append and promotion

chainVars == <<releases, head, calls, observed, faults, cutOff>>
-----------------------------------------------------------------------------
Row == [releaseId : Ids, parent : Ids \cup {None}, contentId : Contents,
        step : Nat, operation : {"creation", "evolve", "rollback"},
        current : BOOLEAN, target : Ids \cup {None}]

Call == [pc : {"new", "observe", "idle", "append", "promote"},
         operation : {"creation", "evolve", "rollback"},
         tail : Ids \cup {None}, content : Contents \cup {None},
         target : Ids \cup {None}, expected : Ids \cup {None},
         release : Ids \cup {None}]

NoCall(pc) == [pc |-> pc, operation |-> "evolve", tail |-> None,
               content |-> None, target |-> None, expected |-> None,
               release |-> None]

OnChain == {releases[i].releaseId : i \in DOMAIN releases}
RowOf(id) == CHOOSE i \in DOMAIN releases : releases[i].releaseId = id
ContentOf(id) == IF id = None THEN None ELSE releases[RowOf(id)].contentId
TailId == IF releases = <<>> THEN None ELSE releases[Len(releases)].releaseId

(* A create() that swallows the failure of its seed.                       *)
RejectedSeedIgnored(c) == calls' = [calls EXCEPT ![c] = NoCall("idle")]

(* A call that throws: create() leaves no surface, the others an idle one. *)
Rejected(c) ==
  calls' = [calls EXCEPT ![c] =
              NoCall(IF @.operation = "creation" THEN "new" ELSE "idle")]
-----------------------------------------------------------------------------
(* create() with a seed, to the answer of store.releases().                *)
CreateSeeded(c, content) ==
  /\ calls[c].pc = "new" /\ c \in Seeders
  /\ calls' = [calls EXCEPT ![c] =
                 IF releases # <<>> THEN NoCall("observe")
                 ELSE [NoCall("append") EXCEPT !.operation = "creation",
                                               !.content = content]]
  /\ UNCHANGED <<releases, head, observed, faults, cutOff>>

(* create() without a seed, and currentTree() of a surface: it asks for    *)
(* the head.                                                               *)
AskHead(c) ==
  /\ \/ calls[c].pc = "new" /\ c \notin Seeders
     \/ calls[c].pc = "idle"
  /\ calls' = [calls EXCEPT ![c] = NoCall("observe")]
  /\ UNCHANGED <<releases, head, observed, faults, cutOff>>

ObserveHead(c) ==
  /\ calls[c].pc = "observe"
  /\ observed' = [observed EXCEPT ![c] = ContentOf(head)]
  /\ calls' = [calls EXCEPT ![c] = NoCall("idle")]
  /\ UNCHANGED <<releases, head, faults, cutOff>>

(* publish(), to the answer of store.releases(): the tail it will expect.  *)
Publish(c, content) ==
  /\ calls[c].pc = "idle"
  /\ calls' = [calls EXCEPT ![c] =
                 [NoCall("append") EXCEPT !.content = content, !.tail = TailId]]
  /\ UNCHANGED <<releases, head, observed, faults, cutOff>>

(* rollback() to the same point; a target that is not on the chain is      *)
(* refused there and changes nothing.  expected is the head the host saw.  *)
Rollback(c, target, expected) ==
  /\ calls[c].pc = "idle" /\ target \in OnChain /\ expected \in OnChain
  /\ calls' = [calls EXCEPT ![c] =
                 [NoCall("append") EXCEPT !.operation = "rollback",
                    !.content = ContentOf(target), !.tail = TailId,
                    !.target = target, !.expected = expected]]
  /\ UNCHANGED <<releases, head, observed, faults, cutOff>>

AppendAnywhere(call, id) == id \notin OnChain

(* putReleaseNow accepts an append on the tail its caller read, under a    *)
(* new id; the step it compares is the one of that tail.                   *)
Appends(call, id) == call.tail = TailId /\ id \notin OnChain

NewRow(call, id) ==
  [releaseId |-> id, parent |-> call.tail, contentId |-> call.content,
   step |-> IF call.tail = None THEN 1 ELSE releases[RowOf(call.tail)].step + 1,
   operation |-> call.operation, current |-> FALSE, target |-> call.target]

(* Where a caller goes once its row is on the chain: the seed and rollback *)
(* go on to promote it.                                                    *)
AfterAppend(call, id) ==
  IF call.operation = "evolve" THEN NoCall("idle")
  ELSE [call EXCEPT !.pc = "promote", !.release = id]
PutRelease(c, id) ==
  /\ calls[c].pc = "append"
  /\ IF Appends(calls[c], id)
     THEN /\ releases' = Append(releases, NewRow(calls[c], id))
          /\ calls' = [calls EXCEPT ![c] = AfterAppend(@, id)]
     ELSE Rejected(c) /\ UNCHANGED releases
  /\ UNCHANGED <<head, observed, faults, cutOff>>

(* promoteReleaseNow: one row becomes current and every other stops being. *)
Promotes(id, expected) == head = expected /\ id \in OnChain

Promoted(id) ==
  [i \in DOMAIN releases |->
     [releases[i] EXCEPT !.current = (releases[i].releaseId = id)]]

MoveHead(c, id) ==
  /\ releases' = Promoted(id)
  /\ head' = id
  /\ observed' = [observed EXCEPT ![c] = ContentOf(id)]

(* promote(), the host's decision: one turn of the store.  A refusal       *)
(* changes nothing and is not a step.                                      *)
Promote(c, id, expected) ==
  /\ calls[c].pc = "idle"
  /\ Promotes(id, expected)
  /\ MoveHead(c, id)
  /\ UNCHANGED <<calls, faults, cutOff>>

(* The promotion that ends a seed or a rollback.                           *)
PromoteAppended(c) ==
  /\ calls[c].pc = "promote"
  /\ IF Promotes(calls[c].release, calls[c].expected)
     THEN /\ MoveHead(c, calls[c].release)
          /\ calls' = [calls EXCEPT ![c] = NoCall("idle")]
     ELSE Rejected(c) /\ UNCHANGED <<releases, head, observed>>
  /\ UNCHANGED <<faults, cutOff>>

(* The seed has appended the first row and not promoted it yet.            *)
SeedHalfDone(c) == calls[c].pc = "promote" /\ calls[c].operation = "creation"

Fault(c) ==
  /\ faults < MaxFaults
  /\ faults' = faults + 1
  /\ cutOff' = (cutOff \/ SeedHalfDone(c))

(* The signal of a call aborts it between two turns of the store.          *)
Abort(c) ==
  /\ Fault(c)
  /\ calls[c].pc \in {"append", "promote"}
  /\ Rejected(c)
  /\ UNCHANGED <<releases, head, observed>>

(* The host process ends; the store is durable.                            *)
Crash(c) ==
  /\ Fault(c)
  /\ calls[c].pc # "new"
  /\ calls' = [calls EXCEPT ![c] = NoCall("new")]
  /\ observed' = [observed EXCEPT ![c] = None]
  /\ UNCHANGED <<releases, head>>
-----------------------------------------------------------------------------
Init ==
  /\ releases = <<>>
  /\ head = None
  /\ calls = [c \in Callers |-> NoCall("new")]
  /\ observed = [c \in Callers |-> None]
  /\ faults = 0
  /\ cutOff = FALSE

CallerStep(c) ==
  \/ \E content \in Contents : CreateSeeded(c, content) \/ Publish(c, content)
  \/ AskHead(c)
  \/ ObserveHead(c)
  \/ \E target, expected \in Ids : Rollback(c, target, expected)
  \/ \E id \in Ids : PutRelease(c, id)
  \/ \E id \in Ids, expected \in Ids \cup {None} : Promote(c, id, expected)
  \/ PromoteAppended(c)
  \/ Abort(c)
  \/ Crash(c)

Next == \E c \in Callers : CallerStep(c)

Spec == Init /\ [][Next]_chainVars
-----------------------------------------------------------------------------
ChainTypeOK ==
  /\ releases \in Seq(Row)
  /\ head \in Ids \cup {None}
  /\ calls \in [Callers -> Call]
  /\ observed \in [Callers -> Contents \cup {None}]
  /\ faults \in 0..MaxFaults
  /\ cutOff \in BOOLEAN

(* The chain is one line: ids are never reused, the first row has no       *)
(* parent, and every other names the row before it, one step further.  A   *)
(* publisher that read an old tail must not fork it.                       *)
ChainLinked ==
  /\ \A i, j \in DOMAIN releases :
       releases[i].releaseId = releases[j].releaseId => i = j
  /\ \A i \in DOMAIN releases :
       /\ releases[i].step = i
       /\ releases[i].parent =
            IF i = 1 THEN None ELSE releases[i - 1].releaseId

(* The rows marked current are exactly the one the head names.             *)
HeadCurrent ==
  /\ head = None \/ head \in OnChain
  /\ \A i \in DOMAIN releases :
       releases[i].current <=> releases[i].releaseId = head

(* A rollback row brings back the content of an earlier row.               *)
RollbackRestores ==
  \A i \in DOMAIN releases : releases[i].operation = "rollback" =>
    \E j \in 1..(i - 1) : /\ releases[j].releaseId = releases[i].target
                          /\ releases[j].contentId = releases[i].contentId

ChainInvariant == ChainTypeOK /\ ChainLinked /\ HeadCurrent /\ RollbackRestores

(* A chain that every host seeds serves something, except while the one    *)
(* that wrote the first row is about to promote it: the losers of the race *)
(* must neither be handed an empty chain for good nor take the head away,  *)
(* also when they, or those that publish and roll back later, are aborted  *)
(* or crash, start over and seed again.  Only a fault of the seed that won *)
(* between its two turns leaves a chain without a head, and the code does  *)
(* leave it so: the next create() finds a row and seeds nothing.           *)
SeededServes ==
  (Seeders = Callers /\ ~cutOff /\ releases # <<>>) =>
    head # None \/ \E c \in Callers : SeedHalfDone(c)
=============================================================================
