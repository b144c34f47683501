-------------------------- MODULE LearningLoop_proofs --------------------------
(***************************************************************************)
(* Theorems about the learning surface, for every value of its constants.  *)
(*                                                                         *)
(* First the release chain: it keeps ChainInvariant, whatever the hosts,   *)
(* the ids their factories return and the calls that are cut off; and a    *)
(* chain every host seeds serves, unless a seed is cut off half done.      *)
(*                                                                         *)
(* Then the loop as one of the users of the chain: whatever it does to     *)
(* records and batches, it moves the chain only as a host may, so what is  *)
(* proved of the chain holds in the loop.                                  *)
(*                                                                         *)
(* Last the records: the engine of the trainer loses and counts twice no   *)
(* feedback, its batches are bounded and complete, and what the trainer    *)
(* consumes was nominated onto the chain.                                  *)
(***************************************************************************)
EXTENDS LearningLoop, FoldTheorems, SequenceTheorems

(* What an open call carries: content to append, and for a rollback the    *)
(* content of a row that is on the chain.                                  *)
CallsSound ==
  \A c \in Callers : calls[c].pc = "append" =>
    /\ calls[c].content \in Contents
    /\ calls[c].operation = "rollback" =>
         \E j \in DOMAIN releases :
           /\ releases[j].releaseId = calls[c].target
           /\ releases[j].contentId = calls[c].content

IInv == ChainInvariant /\ CallsSound

(* What two versions of the chain have in common when one grew out of the  *)
(* other.                                                                  *)
Extends(new, old) ==
  /\ DOMAIN old \subseteq DOMAIN new
  /\ \A i \in DOMAIN old : /\ new[i].releaseId = old[i].releaseId
                           /\ new[i].contentId = old[i].contentId
                           /\ new[i].parent = old[i].parent
                           /\ new[i].step = old[i].step
                           /\ new[i].operation = old[i].operation
                           /\ new[i].target = old[i].target
-----------------------------------------------------------------------------
(* An id on the chain has a row.                                           *)
LEMMA RowFound ==
  ASSUME NEW id \in OnChain
  PROVE  RowOf(id) \in DOMAIN releases /\ releases[RowOf(id)].releaseId = id
BY DEF OnChain, RowOf

LEMMA ContentTyped ==
  ASSUME ChainTypeOK, HeadCurrent
  PROVE  /\ ContentOf(head) \in Contents \cup {None}
         /\ \A id \in OnChain : /\ id \in Ids
                                /\ ContentOf(id) \in Contents
<1>1. \A i \in DOMAIN releases : releases[i] \in Row
  BY DEF ChainTypeOK
<1>2. \A i \in DOMAIN releases : releases[i].releaseId \in Ids
                                 /\ releases[i].contentId \in Contents
  BY <1>1 DEF Row
<1>3. \A id \in OnChain : id \in Ids
  BY <1>2 DEF OnChain
<1>4. \A id \in OnChain : ContentOf(id) \in Contents
  BY <1>2, <1>3, RowFound, ChainAssumption DEF ContentOf
<1> QED BY <1>3, <1>4 DEF HeadCurrent, ContentOf

LEMMA TailTyped ==
  ASSUME ChainTypeOK, NEW n, n = Len(releases)
  PROVE  /\ n \in Nat /\ DOMAIN releases = 1..n
         /\ TailId \in Ids \cup {None}
         /\ n > 0 => /\ TailId = releases[n].releaseId
                    /\ TailId \in OnChain /\ TailId \in Ids
         /\ n = 0 => TailId = None
<1>1. releases \in Seq(Row)
  BY DEF ChainTypeOK
<1>2. n \in Nat /\ DOMAIN releases = 1..n /\ (n = 0 <=> releases = <<>>)
  BY <1>1
<1>3. ASSUME n > 0
      PROVE  /\ TailId = releases[n].releaseId
             /\ TailId \in OnChain /\ TailId \in Ids
  <2>1. releases[n] \in Row /\ n \in DOMAIN releases
    BY <1>1, <1>2, <1>3
  <2>2. releases[n].releaseId \in Ids
    BY <2>1 DEF Row
  <2> QED BY <1>2, <1>3, <2>1, <2>2 DEF TailId, OnChain
<1>4. ASSUME n = 0 PROVE TailId = None
  BY <1>2, <1>4 DEF TailId
<1> QED BY <1>2, <1>3, <1>4

LEMMA NoCallTyped ==
  \A pc \in {"new", "observe", "idle", "append", "promote"} :
    NoCall(pc) \in Call /\ NoCall(pc).pc = pc
BY DEF NoCall, Call
-----------------------------------------------------------------------------
(* A step that leaves chain and head alone only has to keep its call       *)
(* sound.                                                                  *)
LEMMA CallStep ==
  ASSUME IInv, NEW c \in Callers, NEW new,
         UNCHANGED <<releases, head>>,
         calls' = [calls EXCEPT ![c] = new], new \in Call,
         observed' \in [Callers -> Contents \cup {None}],
         faults' \in 0..MaxFaults, cutOff' \in BOOLEAN,
         new.pc = "append" =>
           /\ new.content \in Contents
           /\ new.operation = "rollback" =>
                \E j \in DOMAIN releases :
                  /\ releases[j].releaseId = new.target
                  /\ releases[j].contentId = new.content
  PROVE  IInv'
<1>1. calls \in [Callers -> Call]
  BY DEF IInv, ChainInvariant, ChainTypeOK
<1>2. /\ calls' \in [Callers -> Call]
      /\ calls'[c] = new
      /\ \A d \in Callers : d # c => calls'[d] = calls[d]
  BY <1>1
<1>3. ChainTypeOK'
  BY <1>2 DEF IInv, ChainInvariant, ChainTypeOK
<1>4. ChainLinked' /\ HeadCurrent' /\ RollbackRestores'
  BY DEF IInv, ChainInvariant, ChainLinked, HeadCurrent, RollbackRestores,
         OnChain
<1>5. CallsSound'
  BY <1>2 DEF IInv, CallsSound
<1> QED BY <1>3, <1>4, <1>5 DEF IInv, ChainInvariant

(* Likewise a step that throws.                                            *)
LEMMA RejectedStep ==
  ASSUME IInv, NEW c \in Callers, Rejected(c),
         UNCHANGED <<releases, head, observed>>, faults' \in 0..MaxFaults, cutOff' \in BOOLEAN
  PROVE  IInv'
<1> DEFINE new == NoCall(IF calls[c].operation = "creation" THEN "new"
                         ELSE "idle")
<1>1. new \in Call /\ new.pc # "append"
  BY NoCallTyped
<1>2. calls' = [calls EXCEPT ![c] = new]
  BY DEF Rejected
<1>3. observed' \in [Callers -> Contents \cup {None}]
  BY DEF IInv, ChainInvariant, ChainTypeOK
<1> HIDE DEF new
<1> QED BY <1>1, <1>2, <1>3, CallStep
-----------------------------------------------------------------------------
(* The calls that are sound on a chain stay sound on any that extends it.  *)
LEMMA CallsKept ==
  ASSUME IInv, NEW c \in Callers, NEW new \in Call,
         Extends(releases', releases),
         calls' = [calls EXCEPT ![c] = new], new.pc # "append"
  PROVE  CallsSound' /\ calls' \in [Callers -> Call]
<1>1. calls \in [Callers -> Call]
  BY DEF IInv, ChainInvariant, ChainTypeOK
<1>2. /\ calls' \in [Callers -> Call]
      /\ calls'[c] = new
      /\ \A d \in Callers : d # c => calls'[d] = calls[d]
  BY <1>1
<1>3. ASSUME NEW d \in Callers, calls'[d].pc = "append"
      PROVE  /\ calls'[d].content \in Contents
             /\ calls'[d].operation = "rollback" =>
                  \E j \in DOMAIN releases' :
                    /\ releases'[j].releaseId = calls'[d].target
                    /\ releases'[j].contentId = calls'[d].content
  BY <1>2, <1>3 DEF IInv, CallsSound, Extends
<1> QED BY <1>2, <1>3 DEF CallsSound

(* An accepted append puts its row after the one its caller read.          *)
LEMMA AppendStep ==
  ASSUME IInv, NEW c \in Callers, NEW id \in Ids,
         calls[c].pc = "append", Appends(calls[c], id),
         releases' = Append(releases, NewRow(calls[c], id)),
         calls' = [calls EXCEPT ![c] = AfterAppend(@, id)],
         UNCHANGED <<head, observed, faults, cutOff>>
  PROVE  IInv'
<1> DEFINE row == NewRow(calls[c], id)
           n == Len(releases)
<1>1. /\ releases \in Seq(Row) /\ calls[c] \in Call /\ n \in Nat
      /\ DOMAIN releases = 1..n
      /\ \A i \in 1..n : releases[i] \in Row
  BY DEF IInv, ChainInvariant, ChainTypeOK
<1>2. /\ row.releaseId = id /\ row.parent = TailId /\ row.current = FALSE
      /\ row.contentId = calls[c].content /\ row.operation = calls[c].operation
      /\ row.target = calls[c].target
  BY DEF NewRow, Appends
<1>3. id # None /\ TailId \in Ids \cup {None}
      /\ (n > 0 => TailId = releases[n].releaseId /\ TailId \in OnChain
                   /\ TailId # None)
      /\ (n = 0 => TailId = None)
  BY TailTyped, ChainAssumption DEF IInv, ChainInvariant
<1>4. row.step = n + 1
  <2>1. CASE n = 0
    BY <2>1, <1>3 DEF NewRow, Appends
  <2>2. CASE n > 0
    <3>1. RowOf(TailId) \in 1..n
          /\ releases[RowOf(TailId)].releaseId = releases[n].releaseId
      BY <1>1, <1>3, <2>2, RowFound
    <3>2. RowOf(TailId) = n
      BY <1>1, <2>2, <3>1 DEF IInv, ChainInvariant, ChainLinked
    <3>3. releases[n].step = n
      BY <1>1, <2>2 DEF IInv, ChainInvariant, ChainLinked
    <3> QED BY <1>3, <2>2, <3>2, <3>3 DEF NewRow, Appends
  <2> QED BY <1>1, <2>1, <2>2
<1>5. row \in Row
  <2>1. calls[c].content \in Contents /\ calls[c].target \in Ids \cup {None}
        /\ calls[c].operation \in {"creation", "evolve", "rollback"}
    BY <1>1 DEF IInv, CallsSound, Call
  <2>2. row = [releaseId |-> id, parent |-> TailId,
               contentId |-> calls[c].content, step |-> row.step,
               operation |-> calls[c].operation, current |-> FALSE,
               target |-> calls[c].target]
    BY DEF NewRow, Appends
  <2>3. row.step \in Nat
    BY <1>4, <1>1
  <2> DEFINE step == row.step
  <2>4. step \in Nat
    BY <2>3
  <2>5. row = [releaseId |-> id, parent |-> TailId,
               contentId |-> calls[c].content, step |-> step,
               operation |-> calls[c].operation, current |-> FALSE,
               target |-> calls[c].target]
    BY <2>2
  <2> HIDE DEF row, step
  <2> QED BY <1>3, <2>1, <2>4, <2>5 DEF Row
<1> HIDE DEF row
<1>6. /\ releases' \in Seq(Row) /\ Len(releases') = n + 1
      /\ DOMAIN releases' = 1..(n + 1)
      /\ \A i \in 1..n : releases'[i] = releases[i]
      /\ releases'[n + 1] = row
  BY <1>1, <1>5 DEF row
<1>7. Extends(releases', releases)
  BY <1>1, <1>6 DEF Extends
<1>8. AfterAppend(calls[c], id) \in Call
      /\ AfterAppend(calls[c], id).pc # "append"
  <2>1. CASE calls[c].operation = "evolve"
    BY <2>1, NoCallTyped DEF AfterAppend
  <2>2. CASE calls[c].operation # "evolve"
    BY <1>1, <2>2 DEF AfterAppend, Call
  <2> QED BY <2>1, <2>2
<1>9. CallsSound' /\ calls' \in [Callers -> Call]
  <2> DEFINE new == AfterAppend(calls[c], id)
  <2>1. calls' = [calls EXCEPT ![c] = new] /\ new \in Call /\ new.pc # "append"
    BY <1>8
  <2> HIDE DEF new
  <2> QED BY <1>7, <2>1, CallsKept
<1>10. ChainTypeOK'
  BY <1>6, <1>9 DEF IInv, ChainInvariant, ChainTypeOK
<1>11. ChainLinked'
  <2>1. \A i \in 1..n : releases[i].releaseId # id
    BY <1>1 DEF Appends, OnChain
  <2>2. \A i, j \in DOMAIN releases' :
          releases'[i].releaseId = releases'[j].releaseId => i = j
    BY <1>1, <1>2, <1>6, <2>1 DEF IInv, ChainInvariant, ChainLinked
  <2>3. ASSUME NEW i \in DOMAIN releases'
        PROVE  /\ releases'[i].step = i
               /\ releases'[i].parent =
                    IF i = 1 THEN None ELSE releases'[i - 1].releaseId
    <3>1. CASE i = n + 1
      <4>1. releases'[i] = row /\ row.step = i /\ row.parent = TailId
        BY <1>2, <1>4, <1>6, <3>1
      <4>2. i = 1 => TailId = None
        BY <1>1, <1>3, <3>1
      <4>3. ASSUME i # 1
            PROVE  /\ n > 0
                   /\ releases'[i - 1].releaseId = releases[n].releaseId
        <5>1. i - 1 = n /\ n \in 1..n
          BY <1>1, <3>1, <4>3
        <5>2. releases'[n] = releases[n]
          BY <1>6, <5>1
        <5> QED BY <5>1, <5>2
      <4> QED BY <1>3, <4>1, <4>2, <4>3
    <3>2. CASE i \in 1..n
      BY <1>1, <1>6, <3>2 DEF IInv, ChainInvariant, ChainLinked
    <3> QED BY <1>1, <1>6, <3>1, <3>2
  <2> QED BY <2>2, <2>3 DEF ChainLinked
<1>12. HeadCurrent'
  <2>1. head = None \/ head \in OnChain'
    BY <1>1, <1>6 DEF IInv, ChainInvariant, HeadCurrent, OnChain
  <2>2. head # id
    BY <1>3 DEF IInv, ChainInvariant, HeadCurrent, Appends
  <2>3. \A i \in DOMAIN releases' :
          releases'[i].current <=> releases'[i].releaseId = head
    BY <1>1, <1>2, <1>6, <2>2 DEF IInv, ChainInvariant, HeadCurrent
  <2> QED BY <2>1, <2>3 DEF HeadCurrent
<1>13. RollbackRestores'
  <2> SUFFICES ASSUME NEW i \in DOMAIN releases',
                      releases'[i].operation = "rollback"
               PROVE  \E j \in 1..(i - 1) :
                        /\ releases'[j].releaseId = releases'[i].target
                        /\ releases'[j].contentId = releases'[i].contentId
    BY DEF RollbackRestores
  <2>1. CASE i = n + 1
    <3>1. calls[c].operation = "rollback"
      BY <1>2, <1>6, <2>1
    <3>2. PICK j \in 1..n : /\ releases[j].releaseId = calls[c].target
                            /\ releases[j].contentId = calls[c].content
      BY <1>1, <3>1 DEF IInv, CallsSound
    <3>3. j \in 1..(i - 1) /\ releases'[j] = releases[j]
          /\ releases'[i] = row
      BY <1>1, <1>6, <2>1
    <3> QED BY <1>2, <3>2, <3>3
  <2>2. CASE i \in 1..n
    <3>1. PICK j \in 1..(i - 1) :
            /\ releases[j].releaseId = releases[i].target
            /\ releases[j].contentId = releases[i].contentId
      BY <1>1, <1>6, <2>2 DEF IInv, ChainInvariant, RollbackRestores
    <3>2. j \in 1..n
      BY <1>1, <2>2
    <3> QED BY <1>6, <2>2, <3>1, <3>2
  <2> QED BY <1>1, <1>6, <2>1, <2>2
<1> QED BY <1>9, <1>10, <1>11, <1>12, <1>13 DEF IInv, ChainInvariant
-----------------------------------------------------------------------------
(* Moving the head marks one row and unmarks the others.                   *)
LEMMA MoveStep ==
  ASSUME IInv, NEW c \in Callers, NEW id \in OnChain, MoveHead(c, id),
         UNCHANGED <<faults, cutOff>>,
         NEW new \in Call, new.pc # "append",
         calls' = calls \/ calls' = [calls EXCEPT ![c] = new]
  PROVE  IInv'
<1> DEFINE n == Len(releases)
<1>1. /\ releases \in Seq(Row) /\ n \in Nat /\ DOMAIN releases = 1..n
      /\ \A i \in 1..n : releases[i] \in Row
  BY DEF IInv, ChainInvariant, ChainTypeOK
<1>2. releases' = [i \in 1..n |->
         [releases[i] EXCEPT !.current = (releases[i].releaseId = id)]]
  BY <1>1 DEF MoveHead, Promoted
<1>3. \A i \in 1..n :
        /\ releases'[i].releaseId = releases[i].releaseId
        /\ releases'[i].contentId = releases[i].contentId
        /\ releases'[i].parent = releases[i].parent
        /\ releases'[i].step = releases[i].step
        /\ releases'[i].operation = releases[i].operation
        /\ releases'[i].target = releases[i].target
        /\ releases'[i].current = (releases[i].releaseId = id)
        /\ releases'[i] \in Row
  BY <1>1, <1>2 DEF Row
<1>4. releases' \in Seq(Row) /\ DOMAIN releases' = 1..n
  <2> DEFINE new_releases == [i \in 1..n |->
         [releases[i] EXCEPT !.current = (releases[i].releaseId = id)]]
  <2>1. \A i \in 1..n : new_releases[i] \in Row
    BY <1>2, <1>3
  <2>2. new_releases = [i \in 1..n |-> new_releases[i]]
        /\ DOMAIN new_releases = 1..n
    OBVIOUS
  <2> HIDE DEF new_releases
  <2>3. new_releases \in [1..n -> Row]
    BY <2>1, <2>2
  <2>4. new_releases \in Seq(Row)
    BY <1>1, <2>3, SeqDef
  <2>5. releases' = new_releases
    BY <1>2 DEF new_releases
  <2> QED BY <2>2, <2>4, <2>5
<1>5. Extends(releases', releases)
  BY <1>1, <1>3, <1>4 DEF Extends
<1>6. CallsSound' /\ calls' \in [Callers -> Call]
  <2>1. CASE calls' = calls
    BY <1>5, <2>1
       DEF IInv, CallsSound, Extends, ChainInvariant, ChainTypeOK
  <2>2. CASE calls' = [calls EXCEPT ![c] = new]
    BY <1>5, <2>2, CallsKept
  <2> QED BY <2>1, <2>2
<1>7. OnChain' = OnChain
  BY <1>1, <1>3, <1>4 DEF OnChain
<1>8. ChainTypeOK'
  <2>1. id \in Ids /\ ContentOf(id) \in Contents
    BY ContentTyped DEF IInv, ChainInvariant
  <2>2. observed' \in [Callers -> Contents \cup {None}] /\ head' = id
    BY <2>1 DEF MoveHead, IInv, ChainInvariant, ChainTypeOK
  <2> QED BY <1>4, <1>6, <2>1, <2>2 DEF IInv, ChainInvariant, ChainTypeOK
<1>9. ChainLinked'
  <2>1. \A i, j \in 1..n :
          releases'[i].releaseId = releases'[j].releaseId => i = j
    BY <1>1, <1>3 DEF IInv, ChainInvariant, ChainLinked
  <2>2. ASSUME NEW i \in 1..n
        PROVE  /\ releases'[i].step = i
               /\ releases'[i].parent =
                    IF i = 1 THEN None ELSE releases'[i - 1].releaseId
    <3>1. i # 1 => i - 1 \in 1..n
      BY <1>1
    <3> QED BY <1>1, <1>3, <3>1 DEF IInv, ChainInvariant, ChainLinked
  <2> QED BY <1>4, <2>1, <2>2 DEF ChainLinked
<1>10. HeadCurrent'
  BY <1>1, <1>3, <1>4, <1>7 DEF HeadCurrent, MoveHead
<1>11. RollbackRestores'
  <2> SUFFICES ASSUME NEW i \in 1..n, releases'[i].operation = "rollback"
               PROVE  \E j \in 1..(i - 1) :
                        /\ releases'[j].releaseId = releases'[i].target
                        /\ releases'[j].contentId = releases'[i].contentId
    BY <1>4 DEF RollbackRestores
  <2>1. PICK j \in 1..(i - 1) :
          /\ releases[j].releaseId = releases[i].target
          /\ releases[j].contentId = releases[i].contentId
    BY <1>1, <1>3 DEF IInv, ChainInvariant, RollbackRestores
  <2>2. j \in 1..n
    BY <1>1
  <2> QED BY <1>3, <2>1, <2>2
<1> QED BY <1>6, <1>8, <1>9, <1>10, <1>11 DEF IInv, ChainInvariant
-----------------------------------------------------------------------------
LEMMA InitSound == Init => IInv
<1> SUFFICES ASSUME Init PROVE IInv
  OBVIOUS
<1>1. releases = <<>> /\ DOMAIN releases = {} /\ head = None
  BY DEF Init
<1>2. \A c \in Callers : calls[c] = NoCall("new") /\ calls[c].pc = "new"
                         /\ calls[c] \in Call
  BY NoCallTyped DEF Init
<1>3. ChainTypeOK
  <2>1. releases \in Seq(Row)
    BY <1>1
  <2>2. /\ calls \in [Callers -> Call]
        /\ observed \in [Callers -> Contents \cup {None}]
    BY <1>2 DEF Init
  <2>3. faults \in 0..MaxFaults
    BY ChainAssumption DEF Init
  <2>4. cutOff \in BOOLEAN
    BY Zenon DEF Init
  <2> QED BY <1>1, <2>1, <2>2, <2>3, <2>4 DEF ChainTypeOK
<1>4. ChainLinked /\ HeadCurrent /\ RollbackRestores
  BY <1>1 DEF ChainLinked, HeadCurrent, RollbackRestores
<1>5. CallsSound
  BY <1>2 DEF CallsSound
<1> QED BY <1>3, <1>4, <1>5 DEF IInv, ChainInvariant

LEMMA StepSound ==
  ASSUME IInv, NEW c \in Callers, CallerStep(c)
  PROVE  IInv'
<1> USE DEF chainVars
<1>0. /\ observed \in [Callers -> Contents \cup {None}]
      /\ faults \in 0..MaxFaults /\ MaxFaults \in Nat /\ cutOff \in BOOLEAN
      /\ releases \in Seq(Row) /\ calls[c] \in Call
      /\ TailId \in Ids \cup {None}
  BY ChainAssumption, TailTyped DEF IInv, ChainInvariant, ChainTypeOK
<1>1. ASSUME NEW content \in Contents, CreateSeeded(c, content) PROVE IInv'
  <2> DEFINE new == IF releases # <<>> THEN NoCall("observe")
                    ELSE [NoCall("append") EXCEPT !.operation = "creation",
                                                  !.content = content]
  <2>1. new \in Call /\ (new.pc = "append" =>
                           new.content \in Contents
                           /\ new.operation # "rollback")
    BY DEF NoCall, Call
  <2>2. calls' = [calls EXCEPT ![c] = new] /\ UNCHANGED <<releases, head>>
        /\ UNCHANGED <<observed, faults, cutOff>>
    BY <1>1 DEF CreateSeeded
  <2> HIDE DEF new
  <2> QED BY <1>0, <2>1, <2>2, CallStep
<1>2. ASSUME NEW content \in Contents, Publish(c, content) PROVE IInv'
  <2> DEFINE new == [NoCall("append") EXCEPT !.content = content,
                                             !.tail = TailId]
  <2>1. new \in Call /\ new.content \in Contents /\ new.operation # "rollback"
    BY <1>0 DEF NoCall, Call
  <2>2. calls' = [calls EXCEPT ![c] = new] /\ UNCHANGED <<releases, head>>
        /\ UNCHANGED <<observed, faults, cutOff>>
    BY <1>2 DEF Publish
  <2> HIDE DEF new
  <2> QED BY <1>0, <2>1, <2>2, CallStep
<1>3. CASE AskHead(c)
  <2>1. NoCall("observe") \in Call /\ NoCall("observe").pc # "append"
    BY NoCallTyped
  <2> QED BY <1>0, <1>3, <2>1, CallStep DEF AskHead
<1>4. CASE ObserveHead(c)
  <2>1. NoCall("idle") \in Call /\ NoCall("idle").pc # "append"
    BY NoCallTyped
  <2>2. observed' \in [Callers -> Contents \cup {None}]
    BY <1>0, <1>4, ContentTyped DEF ObserveHead, IInv, ChainInvariant
  <2> QED BY <1>0, <1>4, <2>1, <2>2, CallStep DEF ObserveHead
<1>5. ASSUME NEW target \in Ids, NEW expected \in Ids,
             Rollback(c, target, expected)
      PROVE  IInv'
  <2> DEFINE new == [NoCall("append") EXCEPT !.operation = "rollback",
                       !.content = ContentOf(target), !.tail = TailId,
                       !.target = target, !.expected = expected]
  <2>1. target \in OnChain /\ ContentOf(target) \in Contents /\ target # None
    BY <1>5, ContentTyped, ChainAssumption
       DEF Rollback, IInv, ChainInvariant
  <2>2. new \in Call /\ new.content = ContentOf(target)
        /\ new.target = target
    BY <1>0, <2>1 DEF NoCall, Call
  <2>3. calls' = [calls EXCEPT ![c] = new] /\ UNCHANGED <<releases, head>>
        /\ UNCHANGED <<observed, faults, cutOff>>
    BY <1>5 DEF Rollback
  <2>4. \E j \in DOMAIN releases :
          /\ releases[j].releaseId = new.target
          /\ releases[j].contentId = new.content
    <3>1. RowOf(target) \in DOMAIN releases
          /\ releases[RowOf(target)].releaseId = target
          /\ releases[RowOf(target)].contentId = ContentOf(target)
      BY <2>1, RowFound DEF ContentOf
    <3> HIDE DEF new
    <3> QED BY <2>2, <3>1
  <2> HIDE DEF new
  <2> QED BY <1>0, <2>1, <2>2, <2>3, <2>4, CallStep
<1>6. ASSUME NEW id \in Ids, PutRelease(c, id) PROVE IInv'
  <2>1. CASE Appends(calls[c], id)
    BY <1>6, <2>1, AppendStep DEF PutRelease
  <2>2. CASE ~Appends(calls[c], id)
    BY <1>0, <1>6, <2>2, RejectedStep DEF PutRelease
  <2> QED BY <2>1, <2>2
<1>7. ASSUME NEW id \in Ids, NEW expected \in Ids \cup {None},
             Promote(c, id, expected)
      PROVE  IInv'
  <2>1. NoCall("idle") \in Call /\ NoCall("idle").pc # "append"
    BY NoCallTyped
  <2> QED BY <1>7, <2>1, MoveStep DEF Promote, Promotes
<1>8. CASE PromoteAppended(c)
  <2>1. CASE Promotes(calls[c].release, calls[c].expected)
    <3>1. NoCall("idle") \in Call /\ NoCall("idle").pc # "append"
      BY NoCallTyped
    <3> QED BY <1>8, <2>1, <3>1, MoveStep DEF PromoteAppended, Promotes
  <2>2. CASE ~Promotes(calls[c].release, calls[c].expected)
    BY <1>0, <1>8, <2>2, RejectedStep DEF PromoteAppended
  <2> QED BY <2>1, <2>2
<1>9. CASE Abort(c)
  BY <1>0, <1>9, RejectedStep DEF Abort, Fault
<1>10. CASE Crash(c)
  <2>1. NoCall("new") \in Call /\ NoCall("new").pc # "append"
    BY NoCallTyped
  <2>2. observed' \in [Callers -> Contents \cup {None}]
        /\ faults' \in 0..MaxFaults /\ cutOff' \in BOOLEAN
    BY <1>0, <1>10 DEF Crash, Fault
  <2> QED BY <1>10, <2>1, <2>2, CallStep DEF Crash
<1> QED BY <1>1, <1>2, <1>3, <1>4, <1>5, <1>6, <1>7, <1>8, <1>9, <1>10
        DEF CallerStep

LEMMA Unmoved ==
  ASSUME IInv, UNCHANGED chainVars
  PROVE  IInv'
<1> USE DEF chainVars
<1>1. ChainTypeOK => ChainTypeOK'
  BY DEF ChainTypeOK
<1>2. ChainLinked => ChainLinked'
  BY DEF ChainLinked
<1>3. HeadCurrent => HeadCurrent'
  BY DEF HeadCurrent, OnChain
<1>4. RollbackRestores => RollbackRestores'
  BY DEF RollbackRestores
<1>5. CallsSound => CallsSound'
  BY DEF CallsSound
<1> QED BY <1>1, <1>2, <1>3, <1>4, <1>5, Zenon DEF IInv, ChainInvariant

(* Whatever the hosts, aborts and crashes: the chain stays one line of     *)
(* rows with distinct ids, exactly the head's row is current, and every    *)
(* rollback brings back the content of an earlier row.                     *)
THEOREM ChainCorrect == Spec => []ChainInvariant
<1>1. Init => IInv
  BY InitSound
<1>2. IInv /\ [Next]_chainVars => IInv'
  <2> SUFFICES ASSUME IInv, [Next]_chainVars PROVE IInv'
    OBVIOUS
  <2>1. CASE Next
    BY <2>1, StepSound DEF Next
  <2>2. CASE UNCHANGED chainVars
    BY <2>2, Unmoved
  <2> QED BY <2>1, <2>2
<1>3. IInv => ChainInvariant
  BY DEF IInv
<1> QED BY <1>1, <1>2, <1>3, PTL DEF Spec
-----------------------------------------------------------------------------
(* What keeps a chain that every host seeds served, as long as no call was *)
(* cut off: before the first row every host is at its seed; a seed expects *)
(* no head; a row about to be promoted is on the chain.                    *)
SeedsFirst ==
  releases = <<>> =>
    \A c \in Callers : \/ calls[c].pc = "new"
                       \/ calls[c].pc = "append"
                          /\ calls[c].operation = "creation"

SeedsExpectNone ==
  \A c \in Callers :
    /\ calls[c].pc \in {"append", "promote"}
    /\ calls[c].operation = "creation"
    => calls[c].expected = None

PromotesOnChain ==
  \A c \in Callers : calls[c].pc = "promote" => calls[c].release \in OnChain

AllSeed == ~cutOff /\ Seeders = Callers

SeedInvariant ==
  AllSeed => SeedsFirst /\ SeedsExpectNone /\ PromotesOnChain /\ SeededServes

(* A step keeps it when the call it writes keeps its part, and when it     *)
(* leaves somebody to serve the chain or to promote its first row.         *)
LEMMA SeedKept ==
  ASSUME IInv, SeedInvariant, AllSeed' => AllSeed,
         NEW c \in Callers, NEW new \in Call,
         calls' = [calls EXCEPT ![c] = new],
         OnChain \subseteq OnChain', releases' = <<>> => releases = <<>>,
         AllSeed /\ releases' = <<>> =>
           new.pc = "new" \/ (new.pc = "append" /\ new.operation = "creation"),
         new.pc \in {"append", "promote"} /\ new.operation = "creation"
           => new.expected = None,
         AllSeed /\ new.pc = "promote" => new.release \in OnChain',
         AllSeed /\ releases' # <<>> =>
           \/ head' # None
           \/ new.pc = "promote" /\ new.operation = "creation"
           \/ /\ releases # <<>> /\ head' = head
              /\ ~(calls[c].pc = "promote" /\ calls[c].operation = "creation")
  PROVE  SeedInvariant'
<1> SUFFICES ASSUME AllSeed'
             PROVE  /\ SeedsFirst' /\ SeedsExpectNone' /\ PromotesOnChain'
                    /\ SeededServes'
  BY DEF SeedInvariant
<1>1. /\ AllSeed /\ SeedsFirst /\ SeedsExpectNone /\ PromotesOnChain
      /\ SeededServes
  BY DEF SeedInvariant
<1>2. calls \in [Callers -> Call]
  BY DEF IInv, ChainInvariant, ChainTypeOK
<1>3. /\ calls'[c] = new
      /\ \A d \in Callers : d # c => calls'[d] = calls[d]
  BY <1>2
<1>4. SeedsFirst'
  BY <1>1, <1>3 DEF SeedsFirst
<1>5. SeedsExpectNone'
  BY <1>1, <1>3 DEF SeedsExpectNone
<1>6. PromotesOnChain'
  BY <1>1, <1>3 DEF PromotesOnChain
<1>7. SeededServes'
  <2> SUFFICES ASSUME releases' # <<>>, head' = None
               PROVE  \E d \in Callers : /\ calls'[d].pc = "promote"
                                         /\ calls'[d].operation = "creation"
    BY DEF SeededServes, SeedHalfDone
  <2>1. CASE new.pc = "promote" /\ new.operation = "creation"
    BY <1>3, <2>1
  <2>2. CASE /\ releases # <<>> /\ head' = head
             /\ ~(calls[c].pc = "promote" /\ calls[c].operation = "creation")
    <3>1. PICK d \in Callers : calls[d].pc = "promote"
                              /\ calls[d].operation = "creation"
      BY <1>1, <2>2 DEF SeededServes, SeedHalfDone, AllSeed
    <3>2. calls'[d] = calls[d]
      BY <1>3, <2>2, <3>1
    <3> QED BY <3>1, <3>2
  <2> QED BY <1>1, <2>1, <2>2
<1> QED BY <1>4, <1>5, <1>6, <1>7

LEMMA SeedInit == Init => SeedInvariant
<1> SUFFICES ASSUME Init PROVE SeedInvariant
  OBVIOUS
<1>1. releases = <<>> /\ \A c \in Callers : calls[c].pc = "new"
  BY DEF Init, NoCall
<1> QED BY <1>1 DEF SeedInvariant, SeedsFirst, SeedsExpectNone,
                    PromotesOnChain, SeededServes

LEMMA SeedStep ==
  ASSUME IInv, SeedInvariant, NEW c \in Callers, CallerStep(c)
  PROVE  SeedInvariant'
<1>0. /\ cutOff \in BOOLEAN /\ releases \in Seq(Row)
      /\ calls \in [Callers -> Call] /\ calls[c] \in Call
      /\ TailId \in Ids \cup {None}
      /\ \A id \in OnChain : id # None
  BY ChainAssumption, TailTyped, ContentTyped
     DEF IInv, ChainInvariant, ChainTypeOK
<1>a. /\ AllSeed => SeedsFirst
      /\ AllSeed /\ releases = <<>> =>
           \/ calls[c].pc = "new"
           \/ calls[c].pc = "append" /\ calls[c].operation = "creation"
  BY DEF SeedInvariant, SeedsFirst
<1>b. UNCHANGED releases => OnChain' = OnChain
  BY DEF OnChain
<1>c. \A pc \in {"new", "observe", "idle", "append", "promote"} :
        NoCall(pc).operation = "evolve"
  BY DEF NoCall
<1>1. ASSUME NEW content \in Contents, CreateSeeded(c, content)
      PROVE  SeedInvariant'
  <2>1. CASE releases # <<>>
    <3>1. calls' = [calls EXCEPT ![c] = NoCall("observe")]
      BY <1>1, <2>1 DEF CreateSeeded
    <3>2. NoCall("observe") \in Call /\ NoCall("observe").pc = "observe"
      BY NoCallTyped
    <3>3. /\ UNCHANGED <<releases, head, cutOff>> /\ calls[c].pc = "new"
          /\ AllSeed' => AllSeed
      BY <1>1 DEF CreateSeeded, AllSeed
    <3> QED BY <1>b, <2>1, <3>1, <3>2, <3>3, SeedKept
  <2>2. CASE releases = <<>>
    <3> DEFINE new == [NoCall("append") EXCEPT !.operation = "creation",
                                              !.content = content]
    <3>1. calls' = [calls EXCEPT ![c] = new]
      BY <1>1, <2>2 DEF CreateSeeded
    <3>2. /\ new \in Call /\ new.pc = "append" /\ new.operation = "creation"
          /\ new.expected = None
      BY DEF NoCall, Call
    <3>3. UNCHANGED <<releases, head, cutOff>> /\ (AllSeed' => AllSeed)
      BY <1>1 DEF CreateSeeded, AllSeed
    <3> HIDE DEF new
    <3> QED BY <1>b, <2>2, <3>1, <3>2, <3>3, SeedKept
  <2> QED BY <2>1, <2>2
<1>2. ASSUME NEW content \in Contents, Publish(c, content)
      PROVE  SeedInvariant'
  <2> DEFINE new == [NoCall("append") EXCEPT !.content = content,
                                             !.tail = TailId]
  <2>1. new \in Call /\ new.pc = "append" /\ new.operation = "evolve"
    BY <1>0 DEF NoCall, Call
  <2>2. calls' = [calls EXCEPT ![c] = new]
    BY <1>2 DEF Publish
  <2>3. /\ UNCHANGED <<releases, head, cutOff>> /\ (AllSeed' => AllSeed)
        /\ calls[c].pc = "idle"
    BY <1>2 DEF Publish, AllSeed
  <2> HIDE DEF new
  <2> QED BY <1>a, <1>b, <2>1, <2>2, <2>3, SeedKept
<1>3. CASE AskHead(c)
  <2>1. NoCall("observe") \in Call /\ NoCall("observe").pc = "observe"
    BY NoCallTyped
  <2>2. /\ UNCHANGED <<releases, head, cutOff>> /\ (AllSeed' => AllSeed)
        /\ calls' = [calls EXCEPT ![c] = NoCall("observe")]
        /\ AllSeed => calls[c].pc = "idle"
        /\ calls[c].pc \in {"new", "idle"}
    BY <1>3 DEF AskHead, AllSeed
  <2> QED BY <1>a, <1>b, <2>1, <2>2, SeedKept
<1>4. CASE ObserveHead(c)
  <2>1. NoCall("idle") \in Call /\ NoCall("idle").pc = "idle"
    BY NoCallTyped
  <2>2. /\ UNCHANGED <<releases, head, cutOff>> /\ (AllSeed' => AllSeed)
        /\ calls' = [calls EXCEPT ![c] = NoCall("idle")]
        /\ calls[c].pc = "observe"
    BY <1>4 DEF ObserveHead, AllSeed
  <2> QED BY <1>a, <1>b, <2>1, <2>2, SeedKept
<1>5. ASSUME NEW target \in Ids, NEW expected \in Ids,
             Rollback(c, target, expected)
      PROVE  SeedInvariant'
  <2> DEFINE new == [NoCall("append") EXCEPT !.operation = "rollback",
                       !.content = ContentOf(target), !.tail = TailId,
                       !.target = target, !.expected = expected]
  <2>1. target \in OnChain /\ ContentOf(target) \in Contents
    BY <1>5, ContentTyped DEF Rollback, IInv, ChainInvariant
  <2>2. new \in Call /\ new.pc = "append" /\ new.operation = "rollback"
    BY <1>0, <2>1 DEF NoCall, Call
  <2>3. /\ UNCHANGED <<releases, head, cutOff>> /\ (AllSeed' => AllSeed)
        /\ calls' = [calls EXCEPT ![c] = new] /\ calls[c].pc = "idle"
    BY <1>5 DEF Rollback, AllSeed
  <2> HIDE DEF new
  <2> QED BY <1>a, <1>b, <2>2, <2>3, SeedKept
<1>7. ASSUME NEW id \in Ids, PutRelease(c, id) PROVE SeedInvariant'
  <2>1. CASE ~Appends(calls[c], id)
    <3> DEFINE new == NoCall(IF calls[c].operation = "creation" THEN "new"
                             ELSE "idle")
    <3>1. /\ new \in Call /\ new.pc \in {"new", "idle"}
          /\ calls[c].operation = "creation" => new.pc = "new"
      BY NoCallTyped
    <3>2. /\ calls' = [calls EXCEPT ![c] = new] /\ (AllSeed' => AllSeed)
          /\ UNCHANGED <<releases, head>> /\ calls[c].pc = "append"
      BY <1>7, <2>1 DEF Rejected, PutRelease, AllSeed
    <3>3. AllSeed /\ releases = <<>> => new.pc = "new"
      BY <1>a, <3>1, <3>2
    <3> HIDE DEF new
    <3> QED BY <1>b, <3>1, <3>2, <3>3, SeedKept
  <2>2. CASE Appends(calls[c], id)
    <3> DEFINE row == NewRow(calls[c], id)
               new == AfterAppend(calls[c], id)
               n == Len(releases)
    <3>1. /\ calls[c].pc = "append" /\ UNCHANGED <<head, cutOff>>
          /\ releases' = Append(releases, row)
          /\ calls' = [calls EXCEPT ![c] = new]
          /\ AllSeed' => AllSeed
      BY <1>7, <2>2 DEF PutRelease, AllSeed
    <3>2. row.releaseId = id
      BY DEF NewRow
    <3> HIDE DEF row
    <3>3. /\ DOMAIN releases = 1..n /\ n \in Nat
          /\ DOMAIN releases' = 1..(n + 1) /\ releases' # <<>>
          /\ \A i \in 1..n : releases'[i] = releases[i]
          /\ releases'[n + 1] = row
      BY <1>0, <3>1
    <3>4. OnChain \subseteq OnChain' /\ id \in OnChain'
      BY <3>2, <3>3 DEF OnChain
    <3>5. CASE calls[c].operation = "evolve"
      <4>1. new = NoCall("idle")
        BY <3>5 DEF AfterAppend
      <4>2. new \in Call /\ new.pc = "idle"
        BY <4>1, NoCallTyped
      <4>3. AllSeed => releases # <<>>
        BY <1>a, <3>1, <3>5
      <4> HIDE DEF new
      <4> QED BY <3>1, <3>3, <3>4, <4>2, <4>3, SeedKept
    <3>6. CASE calls[c].operation # "evolve"
      <4>1. /\ new \in Call /\ new.pc = "promote" /\ new.release = id
            /\ new.operation = calls[c].operation
            /\ new.expected = calls[c].expected
        BY <1>0, <3>6 DEF AfterAppend, Call
      <4>2. AllSeed => \/ releases # <<>>
                       \/ new.operation = "creation"
        BY <1>a, <3>1, <4>1
      <4>3. AllSeed /\ new.operation = "creation" => new.expected = None
        BY <3>1, <4>1 DEF SeedInvariant, SeedsExpectNone
      <4> HIDE DEF new, n
      <4>4. CASE AllSeed
        BY <3>1, <3>3, <3>4, <4>1, <4>2, <4>3, <4>4, SeedKept
      <4>5. CASE ~AllSeed
        BY <3>1, <4>5 DEF SeedInvariant
      <4> QED BY <4>4, <4>5
    <3> QED BY <3>5, <3>6
  <2> QED BY <2>1, <2>2
<1>8. ASSUME NEW id \in OnChain, MoveHead(c, id), UNCHANGED cutOff,
             NEW new \in Call, calls' = [calls EXCEPT ![c] = new],
             \/ new = calls[c] /\ calls[c].pc = "idle"
             \/ new = NoCall("idle")
      PROVE  SeedInvariant'
  <2>1. new.pc = "idle"
    BY <1>8, NoCallTyped
  <2>2. /\ DOMAIN releases' = DOMAIN releases
        /\ \A i \in DOMAIN releases :
             releases'[i].releaseId = releases[i].releaseId
    <3>1. \A i \in DOMAIN releases : releases[i] \in Row
      BY <1>0
    <3> QED BY <1>8, <3>1 DEF MoveHead, Promoted, Row
  <2>3. OnChain \subseteq OnChain'
    BY <2>2 DEF OnChain
  <2>4. releases' # <<>> /\ head' # None
    <3>1. DOMAIN releases # {}
      BY <1>8 DEF OnChain
    <3>2. head' = id /\ id # None
      BY <1>0, <1>8 DEF MoveHead
    <3> QED BY <2>2, <3>1, <3>2
  <2>5. AllSeed' => AllSeed
    BY <1>8 DEF AllSeed
  <2> QED BY <1>8, <2>1, <2>3, <2>4, <2>5, SeedKept
<1>9. ASSUME NEW id \in Ids, NEW expected \in Ids \cup {None},
             Promote(c, id, expected)
      PROVE  SeedInvariant'
  <2>1. /\ id \in OnChain /\ MoveHead(c, id) /\ UNCHANGED cutOff
        /\ calls[c].pc = "idle" /\ calls' = calls
    BY <1>9 DEF Promote, Promotes
  <2>2. calls' = [calls EXCEPT ![c] = calls[c]]
    BY <1>0, <2>1
  <2> QED BY <1>0, <1>8, <2>1, <2>2
<1>10. CASE PromoteAppended(c)
  <2>1. CASE Promotes(calls[c].release, calls[c].expected)
    <3>1. NoCall("idle") \in Call
      BY NoCallTyped
    <3>2. /\ calls[c].release \in OnChain /\ MoveHead(c, calls[c].release)
          /\ UNCHANGED cutOff /\ calls' = [calls EXCEPT ![c] = NoCall("idle")]
      BY <1>10, <2>1 DEF PromoteAppended, Promotes
    <3> QED BY <1>8, <3>1, <3>2
  <2>2. CASE ~Promotes(calls[c].release, calls[c].expected)
    <3> DEFINE new == NoCall(IF calls[c].operation = "creation" THEN "new"
                             ELSE "idle")
    <3>1. /\ new \in Call /\ new.pc \in {"new", "idle"}
          /\ calls[c].operation = "creation" => new.pc = "new"
      BY NoCallTyped
    <3>2. /\ calls' = [calls EXCEPT ![c] = new] /\ (AllSeed' => AllSeed)
          /\ UNCHANGED <<releases, head>> /\ calls[c].pc = "promote"
      BY <1>10, <2>2 DEF Rejected, PromoteAppended, AllSeed
    <3>3. ASSUME AllSeed, releases # <<>>, head = None
          PROVE  calls[c].operation # "creation"
      BY <2>2, <3>2, <3>3
         DEF SeedInvariant, PromotesOnChain, SeedsExpectNone, Promotes
    <3>4. AllSeed => releases # <<>>
      BY <1>a, <3>2
    <3> HIDE DEF new
    <3> QED BY <1>b, <3>1, <3>2, <3>3, <3>4, SeedKept
  <2> QED BY <2>1, <2>2
<1>11. CASE Abort(c) \/ Crash(c)
  <2>1. PICK pc \in {"new", "idle"} :
          /\ calls' = [calls EXCEPT ![c] = NoCall(pc)]
          /\ UNCHANGED <<releases, head>>
          /\ cutOff' = (cutOff \/ SeedHalfDone(c))
          /\ \/ pc = "new"
             \/ /\ calls[c].operation # "creation"
                /\ calls[c].pc \in {"append", "promote"}
    BY <1>11 DEF Abort, Crash, Fault, Rejected
  <2>2. NoCall(pc) \in Call /\ NoCall(pc).pc = pc
    BY NoCallTyped
  <2>3. /\ AllSeed' => AllSeed
        /\ AllSeed' => ~SeedHalfDone(c)
    BY <1>0, <2>1 DEF AllSeed
  <2>4. AllSeed /\ releases = <<>> => pc = "new"
    BY <1>a, <2>1
  <2>5. CASE SeedHalfDone(c)
    BY <2>3, <2>5 DEF SeedInvariant
  <2>6. CASE ~SeedHalfDone(c)
    BY <1>b, <2>1, <2>2, <2>3, <2>4, <2>6, SeedKept DEF SeedHalfDone
  <2> QED BY <2>5, <2>6
<1> QED BY <1>1, <1>2, <1>3, <1>4, <1>5, <1>7, <1>9, <1>10, <1>11
        DEF CallerStep

(* Every host with a seed: a chain with a row on it has a head or a host   *)
(* that is about to promote that row, however the seeds, publications,     *)
(* promotions and rollbacks interleave and wherever they are aborted or    *)
(* crash, unless a fault hit the winning seed between its two turns.       *)
THEOREM SeedsServe == Spec => []SeededServes
<1>1. Init => IInv /\ SeedInvariant
  BY InitSound, SeedInit
<1>2. IInv /\ SeedInvariant /\ [Next]_chainVars => (IInv /\ SeedInvariant)'
  <2> SUFFICES ASSUME IInv, SeedInvariant, [Next]_chainVars
               PROVE  IInv' /\ SeedInvariant'
    OBVIOUS
  <2>1. CASE Next
    BY <2>1, StepSound, SeedStep DEF Next
  <2>2. CASE UNCHANGED chainVars
    <3>1. IInv'
      BY <2>2, Unmoved
    <3>2. AllSeed' => AllSeed
      BY <2>2 DEF chainVars, AllSeed
    <3>3. SeedsFirst => SeedsFirst'
      BY <2>2 DEF chainVars, SeedsFirst
    <3>4. SeedsExpectNone => SeedsExpectNone'
      BY <2>2 DEF chainVars, SeedsExpectNone
    <3>5. PromotesOnChain => PromotesOnChain'
      BY <2>2 DEF chainVars, PromotesOnChain, OnChain
    <3>6. SeededServes => SeededServes'
      BY <2>2 DEF chainVars, SeededServes, SeedHalfDone
    <3> QED BY <3>1, <3>2, <3>3, <3>4, <3>5, <3>6, Zenon DEF SeedInvariant
  <2> QED BY <2>1, <2>2
<1>3. SeedInvariant => SeededServes
  BY DEF SeedInvariant, SeededServes, AllSeed
<1> QED BY <1>1, <1>2, <1>3, PTL DEF Spec
-----------------------------------------------------------------------------
(* Every step of the loop is a step of one caller of the chain or leaves   *)
(* the chain alone.                                                        *)
LEMMA LoopStepOnChain ==
  ASSUME LoopNext
  PROVE  [Next]_chainVars
<1>0. Trainer \in Callers
  BY LoopAssumption
<1>1. CASE Agents
  BY <1>1 DEF Agents
<1>2. CASE Reads
  BY <1>2 DEF Reads
<1>3. CASE Build
  BY <1>3 DEF Build
<1>4. CASE Evolve
  BY <1>0, <1>4 DEF Evolve, Next, CallerStep
<1>5. CASE EvolveRejects
  BY <1>5 DEF EvolveRejects
<1>6. CASE Nominate
  BY <1>0, <1>6 DEF Nominate, Next, CallerStep
<1>7. CASE NominateAborted
  BY <1>0, <1>7 DEF NominateAborted, Next, CallerStep
<1>8. CASE Acknowledge
  BY <1>8 DEF Acknowledge
<1>9. CASE MarkConsumed
  BY <1>9 DEF MarkConsumed
<1>10. CASE TrainerCrash
  BY <1>0, <1>10 DEF TrainerCrash, Next, CallerStep
<1>11. CASE Hosts
  BY <1>0, <1>11 DEF Hosts, Next, CallerStep
<1> QED BY <1>1, <1>2, <1>3, <1>4, <1>5, <1>6, <1>7, <1>8, <1>9, <1>10, <1>11
        DEF LoopNext

(* The loop implements the release chain.                                  *)
THEOREM LoopImplementsChain == LoopSpec => Spec
<1>1. LoopInit => Init
  BY DEF LoopInit
<1>2. [LoopNext]_vars => [Next]_chainVars
  BY LoopStepOnChain DEF vars, recordVars, loopVars
<1> QED BY <1>1, <1>2, PTL DEF LoopSpec, Spec

(* So records that are consumed, batches that are rejected and a trainer   *)
(* that crashes leave a chain other hosts can rely on.                     *)
THEOREM LoopChainCorrect == LoopSpec => []ChainInvariant
BY LoopImplementsChain, ChainCorrect

(* And one that serves, however evolution and its hosts race for its first *)
(* rows, when every host seeds and no seed is cut off half done.           *)
THEOREM LoopServes == LoopSpec => []SeededServes
BY LoopImplementsChain, SeedsServe
-----------------------------------------------------------------------------
(* Kept appends, one element after the other, those that are in S.         *)
LEMMA KeptAlong ==
  ASSUME NEW T, NEW s \in Seq(T), NEW S
  PROVE  \E g \in [0..Len(s) -> Seq(T)] :
           /\ g[0] = <<>> /\ g[Len(s)] = Kept(s, S)
           /\ \A k \in 1..Len(s) :
                g[k] = IF s[k] \in S THEN Append(g[k - 1], s[k]) ELSE g[k - 1]
<1> DEFINE n == Len(s)
           E == Seq(T)
           Op(t, x) == IF x \in S THEN Append(t, x) ELSE t
           step == [i \in 1..n |-> [t \in E |-> Op(t, s[i])]]
           Folds(f) == f = [P \in SUBSET (1..n) |->
                              IF P = {} THEN <<>>
                              ELSE Op(f[P \ {Max(P)}], s[Max(P)])]
           iter == CHOOSE f : Folds(f)
<1>1. n \in Nat /\ DOMAIN s = 1..n /\ \A i \in 1..n : s[i] \in T
  OBVIOUS
<1>2. Kept(s, S) = iter[1..n]
  BY <1>1 DEF Kept, FoldLeft, MapThenFoldSet
<1>3. \A t \in E, i \in 1..n : Op(t, s[i]) \in E
  BY <1>1
<1>4. /\ <<>> \in E /\ step \in [1..n -> [E -> E]]
      /\ \A t \in E, i \in 1..n : step[i][t] = Op(t, s[i])
  BY <1>3
<1> HIDE DEF step, Op, n, E
<1>5. Folds(iter)
  <2>1. PICK f \in [SUBSET (1..n) -> E] : Iterates(f, <<>>, step, n)
    BY <1>1, <1>4, IteratesExist
  <2>2. \A P \in SUBSET (1..n) :
          f[P] = IF P = {} THEN <<>> ELSE Op(f[P \ {Max(P)}], s[Max(P)])
    <3> SUFFICES ASSUME NEW P \in SUBSET (1..n), P # {}
                 PROVE  f[P] = Op(f[P \ {Max(P)}], s[Max(P)])
      BY <2>1 DEF Iterates
    <3>1. f[P] = step[Max(P)][f[P \ {Max(P)}]]
      BY <2>1 DEF Iterates
    <3>2. Max(P) \in 1..n
      BY <1>1, MaxInPrefix
    <3>3. f[P \ {Max(P)}] \in E
      OBVIOUS
    <3> QED BY <1>4, <3>1, <3>2, <3>3
  <2>3. Folds(f)
    BY <2>2
  <2> HIDE DEF Folds
  <2> QED BY <2>3
<1>6. /\ iter[1..0] = <<>>
      /\ \A k \in 1..n : iter[1..k] = Op(iter[1..(k - 1)], s[k])
  <2>1. 1..0 = {}
    OBVIOUS
  <2>2. ASSUME NEW k \in 1..n
        PROVE  iter[1..k] = Op(iter[1..(k - 1)], s[k])
    <3>1. 1..k \in SUBSET (1..n) /\ k \in Nat /\ k # 0
      BY <1>1
    <3>2. /\ 1..k # {} /\ Max(1..k) = k
          /\ (1..k) \ {k} = 1..(k - 1)
      BY <3>1, PrefixWithoutMax
    <3> HIDE DEF iter
    <3> QED BY <1>5, <3>1, <3>2
  <2> HIDE DEF iter
  <2> QED BY <1>5, <2>1, <2>2
<1> HIDE DEF iter
<1> DEFINE base == <<>>
<1>7. Stepwise(iter, base, step, n, E)
  BY <1>4, <1>6 DEF Stepwise
<1> HIDE DEF Folds
<1>8. PICK g \in [0..n -> E] : Course(g, base, step, n) /\ g[n] = iter[1..n]
  <2>1. n \in Nat /\ base \in E /\ step \in [1..n -> [E -> E]]
    BY <1>1, <1>4
  <2> HIDE DEF base
  <2> QED BY <2>1, <1>7, IteratesAlong
<1>9. \A k \in 1..n : g[k] = IF s[k] \in S THEN Append(g[k - 1], s[k])
                             ELSE g[k - 1]
  <2> SUFFICES ASSUME NEW k \in 1..n
               PROVE  g[k] = Op(g[k - 1], s[k])
    BY DEF Op
  <2>1. k - 1 \in 0..n
    BY <1>1
  <2> QED BY <1>4, <1>8, <2>1 DEF Course
<1> QED BY <1>2, <1>8, <1>9 DEF n, E, Course

(* t is what Kept picks from the first k elements of s, f where from.      *)
Picks(t, f, s, k, S) ==
  /\ f \in [1..Len(t) -> 1..k]
  /\ \A i, j \in 1..Len(t) : i < j => f[i] < f[j]
  /\ \A j \in 1..Len(t) : t[j] = s[f[j]] /\ t[j] \in S
  /\ \A i \in 1..k : s[i] \in S => \E j \in 1..Len(t) : f[j] = i

LEMMA PicksMore ==
  ASSUME NEW T, NEW s \in Seq(T), NEW S, NEW k \in 1..Len(s),
         NEW t \in Seq(T), Len(t) < k, NEW f, Picks(t, f, s, k - 1, S)
  PROVE  /\ s[k] \notin S => Picks(t, f, s, k, S)
         /\ s[k] \in S => \E h : Picks(Append(t, s[k]), h, s, k, S)
<1>0. /\ k \in Nat /\ k - 1 \in Nat /\ Len(t) \in Nat /\ s[k] \in T
      /\ 1..k = (1..(k - 1)) \cup {k}
      /\ f \in [1..Len(t) -> 1..(k - 1)]
      /\ \A j \in 1..Len(t) : f[j] \in 1..(k - 1) /\ f[j] < k
  <2>1. k \in Nat /\ k - 1 \in Nat /\ Len(t) \in Nat /\ s[k] \in T
    OBVIOUS
  <2>2. 1..k = (1..(k - 1)) \cup {k}
    BY <2>1
  <2>3. f \in [1..Len(t) -> 1..(k - 1)]
    BY DEF Picks
  <2>4. \A j \in 1..Len(t) : f[j] \in 1..(k - 1) /\ f[j] < k
    BY <2>1, <2>3
  <2> QED BY <2>1, <2>2, <2>3, <2>4
<1>1. CASE s[k] \notin S
  <2>1. f \in [1..Len(t) -> 1..k]
    BY <1>0
  <2>2. \A i \in 1..k : s[i] \in S => \E j \in 1..Len(t) : f[j] = i
    BY <1>0, <1>1 DEF Picks
  <2> QED BY <1>1, <2>1, <2>2 DEF Picks
<1>2. CASE s[k] \in S
  <2> DEFINE u == Append(t, s[k])
             m == Len(t)
             h == [j \in 1..(m + 1) |-> IF j = m + 1 THEN k ELSE f[j]]
  <2>1. /\ m \in Nat /\ Len(u) = m + 1 /\ u[m + 1] = s[k]
        /\ \A j \in 1..m : u[j] = t[j]
    BY <1>0
  <2>2. /\ h[m + 1] = k
        /\ \A j \in 1..m : h[j] = f[j] /\ h[j] \in 1..(k - 1)
    BY <1>0, <2>1
  <2>3. h \in [1..(m + 1) -> 1..k]
    <3>1. \A j \in 1..(m + 1) : h[j] \in 1..k
      BY <1>0, <2>1, <2>2
    <3> QED BY <3>1
  <2> HIDE DEF u, h, m
  <2>a. \A i, j \in 1..m : i < j => f[i] < f[j]
    BY DEF Picks, m
  <2>4. \A i, j \in 1..(m + 1) : i < j => h[i] < h[j]
    <3> SUFFICES ASSUME NEW i \in 1..(m + 1), NEW j \in 1..(m + 1), i < j
                 PROVE  h[i] < h[j]
      OBVIOUS
    <3>1. i \in 1..m /\ (j \in 1..m \/ j = m + 1)
      BY <2>1
    <3>2. h[i] = f[i] /\ h[i] \in 1..(k - 1) /\ h[i] < k
      BY <1>0, <2>2, <3>1
    <3>3. CASE j \in 1..m
      BY <2>2, <2>a, <3>1, <3>2, <3>3
    <3>4. CASE j = m + 1
      BY <2>2, <3>2, <3>4
    <3> QED BY <3>1, <3>3, <3>4
  <2>5. \A j \in 1..(m + 1) : u[j] = s[h[j]] /\ u[j] \in S
    <3>1. \A j \in 1..m : t[j] = s[f[j]] /\ t[j] \in S
      BY DEF Picks, m
    <3>2. \A j \in 1..(m + 1) : j \in 1..m \/ j = m + 1
      BY <2>1
    <3> QED BY <1>2, <2>1, <2>2, <3>1, <3>2
  <2>6. \A i \in 1..k : s[i] \in S => \E j \in 1..(m + 1) : h[j] = i
    <3>1. \A i \in 1..(k - 1) : s[i] \in S => \E j \in 1..m : f[j] = i
      BY DEF Picks, m
    <3>2. m + 1 \in 1..(m + 1) /\ \A j \in 1..m : j \in 1..(m + 1)
      BY <2>1
    <3> QED BY <1>0, <2>2, <3>1, <3>2
  <2>7. Picks(u, h, s, k, S)
    BY <2>1, <2>3, <2>4, <2>5, <2>6 DEF Picks
  <2> QED BY <1>2, <2>7 DEF u
<1> QED BY <1>1, <1>2

(* So Kept has just the elements of s that are in S, in their order, and   *)
(* is shorter if there are others.                                         *)
LEMMA KeptSound ==
  ASSUME NEW T, NEW s \in Seq(T), NEW S
  PROVE  /\ Kept(s, S) \in Seq(T)
         /\ Len(Kept(s, S)) <= Len(s)
         /\ \A i \in 1..Len(s) :
              s[i] \notin S => Len(Kept(s, S)) < Len(s)
         /\ \E f : Picks(Kept(s, S), f, s, Len(s), S)
<1> DEFINE n == Len(s)
           Short(t, k) ==
             /\ Len(t) <= k
             /\ \A i \in 1..k : s[i] \notin S => Len(t) < k
<1>1. PICK g \in [0..n -> Seq(T)] :
        /\ g[0] = <<>> /\ g[n] = Kept(s, S)
        /\ \A k \in 1..n :
             g[k] = IF s[k] \in S THEN Append(g[k - 1], s[k]) ELSE g[k - 1]
  BY KeptAlong
<1> DEFINE G == {k \in 0..n : /\ Short(g[k], k)
                              /\ \E f : Picks(g[k], f, s, k, S)}
<1>2. 0 \in G
  <2>1. Len(g[0]) = 0 /\ 0 \in 0..n /\ 1..0 = {}
    BY <1>1
  <2>2. Short(g[0], 0)
    BY <2>1
  <2>3. Picks(g[0], [j \in {} |-> j], s, 0, S)
    BY <2>1 DEF Picks
  <2> QED BY <2>1, <2>2, <2>3
<1>3. ASSUME NEW j \in 0..(n - 1), j \in G
      PROVE  j + 1 \in G
  <2> DEFINE k == j + 1
             t == g[j]
  <2>1. k \in 1..n /\ k - 1 = j /\ t \in Seq(T) /\ Len(t) \in Nat
        /\ j \in Nat /\ k \in 0..n
    BY <1>1
  <2>2. PICK f : Picks(t, f, s, k - 1, S)
    BY <1>3, <2>1
  <2>3. Short(t, j) /\ Len(t) < k
    BY <1>3, <2>1
  <2>4. g[k] = IF s[k] \in S THEN Append(t, s[k]) ELSE t
    BY <1>1, <2>1
  <2>5. \E h : Picks(g[k], h, s, k, S)
    <3> HIDE DEF k, t
    <3> QED BY <2>1, <2>2, <2>3, <2>4, PicksMore
  <2>6. Short(g[k], k)
    <3>1. CASE s[k] \in S
      <4>1. Len(g[k]) = Len(t) + 1
        BY <2>1, <2>4, <3>1
      <4>2. \A i \in 1..k : s[i] \notin S => i \in 1..j
        BY <2>1, <3>1
      <4>3. \A i \in 1..k : s[i] \notin S => Len(t) < j
        BY <2>3, <4>2
      <4> QED BY <2>1, <2>3, <4>1, <4>3
    <3>2. CASE s[k] \notin S
      BY <2>1, <2>3, <2>4, <3>2
    <3> QED BY <3>1, <3>2
  <2> QED BY <2>1, <2>5, <2>6
<1>4. n \in G
  <2>1. n \in Nat
    OBVIOUS
  <2> HIDE DEF G, n
  <2> QED BY <1>2, <1>3, <2>1, PrefixInduction
<1>5. Kept(s, S) \in Seq(T)
  BY <1>1
<1> QED BY <1>1, <1>4, <1>5

LEMMA KeptElements ==
  ASSUME NEW T, NEW s \in Seq(T), NEW S
  PROVE  /\ Kept(s, S) \in Seq(T)
         /\ SetOf(Kept(s, S)) = SetOf(s) \cap S
         /\ IsInjective(s) => IsInjective(Kept(s, S))
<1> DEFINE t == Kept(s, S)
           n == Len(s)
<1>1. /\ t \in Seq(T) /\ DOMAIN t = 1..Len(t) /\ Len(t) \in Nat
      /\ DOMAIN s = 1..n /\ n \in Nat
  BY KeptSound
<1>2. PICK f : Picks(t, f, s, n, S)
  BY KeptSound
<1> HIDE DEF t, n
<1>3. SetOf(t) = SetOf(s) \cap S
  <2>1. ASSUME NEW x \in SetOf(t) PROVE x \in SetOf(s) \cap S
    <3>1. PICK j \in 1..Len(t) : x = t[j]
      BY <1>1 DEF SetOf
    <3>2. f[j] \in 1..n /\ t[j] = s[f[j]] /\ t[j] \in S
      BY <1>2 DEF Picks
    <3> QED BY <1>1, <3>1, <3>2 DEF SetOf
  <2>2. ASSUME NEW x \in SetOf(s) \cap S PROVE x \in SetOf(t)
    <3>1. PICK i \in 1..n : x = s[i]
      BY <1>1 DEF SetOf
    <3>2. PICK j \in 1..Len(t) : f[j] = i
      BY <1>2, <3>1 DEF Picks
    <3>3. t[j] = s[i]
      BY <1>2, <3>2 DEF Picks
    <3> QED BY <1>1, <3>1, <3>3 DEF SetOf
  <2> QED BY <2>1, <2>2
<1>4. ASSUME IsInjective(s) PROVE IsInjective(t)
  <2> SUFFICES ASSUME NEW i \in 1..Len(t), NEW j \in 1..Len(t), t[i] = t[j]
               PROVE  i = j
    BY <1>1 DEF IsInjective
  <2>1. f[i] \in 1..n /\ f[j] \in 1..n /\ s[f[i]] = s[f[j]]
    BY <1>2 DEF Picks
  <2>2. f[i] = f[j]
    BY <1>1, <1>4, <2>1 DEF IsInjective
  <2>3. ~(i < j) /\ ~(j < i)
    BY <1>2, <2>1, <2>2 DEF Picks
  <2> QED BY <1>1, <2>3
<1> QED BY <1>1, <1>3, <1>4 DEF t
-----------------------------------------------------------------------------
(* What the engine keeps, with the reports in open excused from missing an *)
(* interaction: those an interaction just folded in has yet to re-judge.   *)
IndexExact(e) ==
  \A r \in Reports, i \in Interactions :
    r \in SetOf(e.waiting[i]) <=> r \in SetOf(e.parked) /\ i \in Missing(e, r)

Accounted(e) ==
  /\ e.seen = SetOf(e.parked) \cup SetOf(e.ready) \cup SetOf(e.pending)
                \cup e.acknowledged \cup e.refused
  /\ SetOf(e.parked) \cap SetOf(e.ready) = {}
  /\ SetOf(e.parked) \cap SetOf(e.pending) = {}
  /\ SetOf(e.ready) \cap SetOf(e.pending) = {}
  /\ (SetOf(e.parked) \cup SetOf(e.ready) \cup SetOf(e.pending))
       \cap (e.acknowledged \cup e.refused) = {}
  /\ e.acknowledged \cap e.refused = {}
  /\ IsInjective(e.parked) /\ IsInjective(e.ready) /\ IsInjective(e.pending)

EngineSound(e, open) ==
  /\ e \in Engine
  /\ IndexExact(e)
  /\ \A r \in SetOf(e.parked) \ open : Missing(e, r) # {}
  /\ Accounted(e)
  /\ \A r \in SetOf(e.ready) \cup SetOf(e.pending) : Missing(e, r) = {}
  /\ Len(e.pending) <= BatchSize

(* The same while the engine judges r, a report it has seen: r may be      *)
(* parked, and is nowhere else.                                            *)
Judgeable(e, r, open) ==
  /\ e \in Engine
  /\ IndexExact(e)
  /\ \A q \in SetOf(e.parked) \ open : q # r => Missing(e, q) # {}
  /\ e.seen = SetOf(e.parked) \cup SetOf(e.ready) \cup SetOf(e.pending)
                \cup e.acknowledged \cup e.refused \cup {r}
  /\ r \notin SetOf(e.ready) \cup SetOf(e.pending)
                \cup e.acknowledged \cup e.refused
  /\ SetOf(e.parked) \cap SetOf(e.ready) = {}
  /\ SetOf(e.parked) \cap SetOf(e.pending) = {}
  /\ SetOf(e.ready) \cap SetOf(e.pending) = {}
  /\ (SetOf(e.parked) \cup SetOf(e.ready) \cup SetOf(e.pending))
       \cap (e.acknowledged \cup e.refused) = {}
  /\ e.acknowledged \cap e.refused = {}
  /\ IsInjective(e.parked) /\ IsInjective(e.ready) /\ IsInjective(e.pending)
  /\ \A q \in SetOf(e.ready) \cup SetOf(e.pending) : Missing(e, q) = {}
  /\ Len(e.pending) <= BatchSize

(* What folding records in never touches.                                  *)
SameBatch(f, e) ==
  f.pending = e.pending /\ f.acknowledged = e.acknowledged
    /\ f.trained = e.trained
-----------------------------------------------------------------------------
LEMMA SetOfTyped ==
  ASSUME NEW T, NEW s \in Seq(T)
  PROVE  /\ SetOf(s) \subseteq T
         /\ \A x \in T : SetOf(Append(s, x)) = SetOf(s) \cup {x}
         /\ \A x \in T : IsInjective(s) /\ x \notin SetOf(s)
                         => IsInjective(Append(s, x))
<1>1. Len(s) \in Nat /\ DOMAIN s = 1..Len(s) /\ \A i \in 1..Len(s) : s[i] \in T
  OBVIOUS
<1>2. ASSUME NEW x \in T
      PROVE  /\ SetOf(Append(s, x)) = SetOf(s) \cup {x}
             /\ IsInjective(s) /\ x \notin SetOf(s)
                => IsInjective(Append(s, x))
  <2> DEFINE t == Append(s, x)
             n == Len(s)
  <2>1. /\ DOMAIN t = 1..(n + 1) /\ t[n + 1] = x /\ n \in Nat
        /\ \A i \in 1..n : t[i] = s[i]
        /\ DOMAIN s = 1..n
    BY <1>1
  <2> HIDE DEF t, n
  <2>2. \A i \in 1..(n + 1) : i \in 1..n \/ i = n + 1
    BY <2>1
  <2>3. (n + 1) \in 1..(n + 1) /\ \A i \in 1..n : i \in 1..(n + 1)
    BY <2>1
  <2>4. SetOf(t) = SetOf(s) \cup {x}
    BY <2>1, <2>2, <2>3 DEF SetOf
  <2>5. ASSUME IsInjective(s), x \notin SetOf(s) PROVE IsInjective(t)
    <3>1. \A i \in 1..n : t[i] # x
      BY <2>1, <2>5 DEF SetOf
    <3> QED BY <2>1, <2>2, <2>5, <3>1 DEF IsInjective
  <2> QED BY <2>4, <2>5 DEF t
<1> QED BY <1>1, <1>2 DEF SetOf

LEMMA WithoutSound ==
  ASSUME NEW T, NEW s \in Seq(T), NEW x
  PROVE  /\ Without(s, x) \in Seq(T)
         /\ SetOf(Without(s, x)) = SetOf(s) \ {x}
         /\ IsInjective(s) => IsInjective(Without(s, x))
         /\ Len(Without(s, x)) <= Len(s)
         /\ x \in SetOf(s) => Len(Without(s, x)) < Len(s)
<1>1. /\ Without(s, x) \in Seq(T)
      /\ SetOf(Without(s, x)) = SetOf(s) \ {x}
      /\ IsInjective(s) => IsInjective(Without(s, x))
  BY KeptElements DEF Without
<1>2. Len(Without(s, x)) <= Len(s)
  BY KeptSound DEF Without
<1>3. ASSUME x \in SetOf(s) PROVE Len(Without(s, x)) < Len(s)
  <2> DEFINE S == SetOf(s) \ {x}
  <2>1. PICK i \in 1..Len(s) : s[i] = x
    BY <1>3 DEF SetOf
  <2>2. s[i] \notin S
    BY <2>1
  <2> HIDE DEF S
  <2>3. Len(Kept(s, S)) < Len(s)
    BY <2>1, <2>2, KeptSound
  <2> QED BY <2>3 DEF Without, S
<1> QED BY <1>1, <1>2, <1>3

(* What a report leaves behind when it is released.                        *)
Released(f, e, r) ==
  /\ f \in Engine
  /\ SetOf(f.parked) = SetOf(e.parked) \ {r}
  /\ IsInjective(e.parked) => IsInjective(f.parked)
  /\ Len(f.parked) <= Len(e.parked)
  /\ r \in SetOf(e.parked) => Len(f.parked) < Len(e.parked)
  /\ \A i \in Interactions :
       SetOf(f.waiting[i]) = IF i \in References[r]
                             THEN SetOf(e.waiting[i]) \ {r}
                             ELSE SetOf(e.waiting[i])
  /\ f.known = e.known /\ f.seen = e.seen /\ f.ready = e.ready
  /\ f.refused = e.refused /\ SameBatch(f, e)

LEMMA ReleaseSound ==
  ASSUME NEW e \in Engine, NEW r \in Reports
  PROVE  Released(Release(e, r), e, r)
<1> DEFINE f == Release(e, r)
<1> DEFINE parked == Without(e.parked, r)
           waiting == [i \in Interactions |->
              IF i \in References[r] THEN Without(e.waiting[i], r)
              ELSE e.waiting[i]]
<1>1. /\ e.parked \in Seq(Reports)
      /\ \A i \in Interactions : e.waiting[i] \in Seq(Reports)
  BY DEF Engine
<1>2. f = [e EXCEPT !.parked = parked, !.waiting = waiting]
  BY DEF Release
<1>3. /\ parked \in Seq(Reports)
      /\ SetOf(parked) = SetOf(e.parked) \ {r}
      /\ IsInjective(e.parked) => IsInjective(parked)
      /\ Len(parked) <= Len(e.parked)
      /\ r \in SetOf(e.parked) => Len(parked) < Len(e.parked)
  BY <1>1, WithoutSound
<1>4. /\ waiting \in [Interactions -> Seq(Reports)]
      /\ \A i \in Interactions :
           SetOf(waiting[i]) = IF i \in References[r]
                               THEN SetOf(e.waiting[i]) \ {r}
                               ELSE SetOf(e.waiting[i])
  <2>1. ASSUME NEW i \in Interactions
        PROVE  /\ waiting[i] \in Seq(Reports)
               /\ SetOf(waiting[i]) = IF i \in References[r]
                                      THEN SetOf(e.waiting[i]) \ {r}
                                      ELSE SetOf(e.waiting[i])
    BY <1>1, WithoutSound
  <2> QED BY <2>1
<1> HIDE DEF parked, waiting, f
<1>5. /\ f.parked = parked /\ f.waiting = waiting /\ f \in Engine
      /\ f.known = e.known /\ f.seen = e.seen /\ f.ready = e.ready
      /\ f.refused = e.refused /\ SameBatch(f, e)
  BY <1>2, <1>3, <1>4 DEF Engine, SameBatch
<1>6. Released(f, e, r)
  BY <1>3, <1>4, <1>5 DEF Released
<1> QED BY <1>6 DEF f
-----------------------------------------------------------------------------
LEMMA ParkedJudgeable ==
  ASSUME NEW e, NEW open, EngineSound(e, open), NEW r \in SetOf(e.parked)
  PROVE  Judgeable(e, r, open) /\ r \in Reports
<1>1. e \in Engine /\ e.parked \in Seq(Reports)
  BY DEF EngineSound, Engine
<1>2. SetOf(e.parked) \subseteq Reports
  BY <1>1, SetOfTyped
<1>3. /\ r \notin SetOf(e.ready) \cup SetOf(e.pending)
                    \cup e.acknowledged \cup e.refused
      /\ e.seen = SetOf(e.parked) \cup SetOf(e.ready) \cup SetOf(e.pending)
                    \cup e.acknowledged \cup e.refused \cup {r}
  BY DEF EngineSound, Accounted
<1> QED BY <1>2, <1>3 DEF Judgeable, EngineSound, Accounted

(* Refusing a report takes it out of the parked ones and counts it.        *)
LEMMA RefuseSound ==
  ASSUME NEW e, NEW r \in Reports, NEW open, Judgeable(e, r, open),
         NEW g, g = Refuse(e, r)
  PROVE  /\ EngineSound(g, open \ {r})
         /\ Len(g.parked) <= Len(e.parked)
         /\ r \in SetOf(e.parked) => Len(g.parked) < Len(e.parked)
         /\ g.known = e.known /\ g.seen = e.seen /\ SameBatch(g, e)
<1> DEFINE f == Release(e, r)
<1>0. e \in Engine
  BY DEF Judgeable
<1>1. Released(f, e, r) /\ f \in Engine
  BY <1>0, ReleaseSound DEF Released
<1> DEFINE refused == f.refused \cup {r}
<1>a. refused \in SUBSET Reports
  BY <1>1 DEF Engine
<1>2. g = [f EXCEPT !.refused = refused]
  BY DEF Refuse
<1>b. refused = f.refused \cup {r}
  OBVIOUS
<1> HIDE DEF f, refused
<1>3. /\ g \in Engine /\ g.parked = f.parked /\ g.waiting = f.waiting
      /\ g.known = f.known /\ g.seen = f.seen /\ g.ready = f.ready
      /\ g.pending = f.pending /\ g.refused = f.refused \cup {r}
      /\ g.acknowledged = f.acknowledged /\ g.trained = f.trained
  <2>1. g \in Engine /\ g.refused = refused
    BY <1>1, <1>2, <1>a DEF Engine
  <2>2. /\ g.parked = f.parked /\ g.waiting = f.waiting
        /\ g.known = f.known /\ g.seen = f.seen /\ g.ready = f.ready
        /\ g.pending = f.pending
        /\ g.acknowledged = f.acknowledged /\ g.trained = f.trained
    BY <1>1, <1>2 DEF Engine
  <2> QED BY <2>1, <2>2, <1>b
<1>4. IndexExact(g)
  <2> SUFFICES ASSUME NEW q \in Reports, NEW i \in Interactions
               PROVE  q \in SetOf(g.waiting[i]) <=>
                        q \in SetOf(g.parked) /\ i \in Missing(g, q)
    BY DEF IndexExact
  <2>1. /\ q \in SetOf(e.waiting[i]) <=>
             q \in SetOf(e.parked) /\ i \in Missing(e, q)
        /\ Missing(g, q) = Missing(e, q)
        /\ i \in Missing(e, q) => i \in References[q]
    BY <1>1, <1>3 DEF Released, Judgeable, IndexExact, Missing
  <2>2. SetOf(g.waiting[i]) = IF i \in References[r]
                              THEN SetOf(e.waiting[i]) \ {r}
                              ELSE SetOf(e.waiting[i])
    BY <1>1, <1>3 DEF Released
  <2>3. SetOf(g.parked) = SetOf(e.parked) \ {r}
    BY <1>1, <1>3 DEF Released
  <2> QED BY <2>1, <2>2, <2>3
<1>5. /\ g.ready = e.ready /\ g.pending = e.pending
      /\ g.acknowledged = e.acknowledged /\ g.seen = e.seen
      /\ g.refused = e.refused \cup {r} /\ g.known = e.known
      /\ SetOf(g.parked) = SetOf(e.parked) \ {r}
      /\ SameBatch(g, e)
  BY <1>1, <1>3 DEF Released, SameBatch
<1>6. Accounted(g)
  <2>1. IsInjective(g.parked) /\ IsInjective(g.ready) /\ IsInjective(g.pending)
    BY <1>1, <1>3, <1>5 DEF Released, Judgeable
  <2> QED BY <1>5, <2>1 DEF Judgeable, Accounted
<1>7. \A q \in SetOf(g.parked) \ (open \ {r}) : Missing(g, q) # {}
  BY <1>5 DEF Judgeable, Missing
<1>8. /\ \A q \in SetOf(g.ready) \cup SetOf(g.pending) : Missing(g, q) = {}
      /\ Len(g.pending) <= BatchSize
  BY <1>5 DEF Judgeable, Missing
<1> QED BY <1>1, <1>3, <1>4, <1>5, <1>6, <1>7, <1>8 DEF EngineSound, Released

(* A report that misses nothing is put with the ready ones.                *)
Readied(e, r) == [Release(e, r) EXCEPT !.ready = Append(@, r)]

LEMMA ReadySound ==
  ASSUME NEW e, NEW r \in Reports, NEW open, Judgeable(e, r, open),
         Missing(e, r) = {},
         NEW g, g = Readied(e, r)
  PROVE  /\ EngineSound(g, open \ {r})
         /\ Len(g.parked) <= Len(e.parked)
         /\ g.known = e.known /\ g.seen = e.seen /\ SameBatch(g, e)
<1> DEFINE f == Release(e, r)
<1>0. e \in Engine /\ e.ready \in Seq(Reports)
  BY DEF Judgeable, Engine
<1>1. Released(f, e, r) /\ f \in Engine
  BY <1>0, ReleaseSound DEF Released
<1> DEFINE ready == Append(e.ready, r)
<1>a. /\ ready \in Seq(Reports) /\ SetOf(ready) = SetOf(e.ready) \cup {r}
      /\ IsInjective(ready)
  BY <1>0, SetOfTyped DEF Judgeable
<1>b. g = [f EXCEPT !.ready = Append(@, r)]
  BY DEF Readied
<1> HIDE DEF f
<1>2. g = [f EXCEPT !.ready = ready]
  BY <1>1, <1>b DEF Released
<1> HIDE DEF ready
<1>3. /\ g \in Engine /\ g.parked = f.parked /\ g.waiting = f.waiting
      /\ g.known = f.known /\ g.seen = f.seen /\ g.ready = ready
      /\ g.pending = f.pending /\ g.refused = f.refused
      /\ g.acknowledged = f.acknowledged /\ g.trained = f.trained
  BY <1>1, <1>2, <1>a DEF Engine
<1>4. IndexExact(g)
  <2> SUFFICES ASSUME NEW q \in Reports, NEW i \in Interactions
               PROVE  q \in SetOf(g.waiting[i]) <=>
                        q \in SetOf(g.parked) /\ i \in Missing(g, q)
    BY DEF IndexExact
  <2>1. /\ q \in SetOf(e.waiting[i]) <=>
             q \in SetOf(e.parked) /\ i \in Missing(e, q)
        /\ Missing(g, q) = Missing(e, q)
        /\ i \in Missing(e, q) => i \in References[q]
    BY <1>1, <1>3 DEF Released, Judgeable, IndexExact, Missing
  <2>2. SetOf(g.waiting[i]) = IF i \in References[r]
                              THEN SetOf(e.waiting[i]) \ {r}
                              ELSE SetOf(e.waiting[i])
    BY <1>1, <1>3 DEF Released
  <2>3. SetOf(g.parked) = SetOf(e.parked) \ {r}
    BY <1>1, <1>3 DEF Released
  <2> QED BY <2>1, <2>2, <2>3
<1>5. /\ SetOf(g.ready) = SetOf(e.ready) \cup {r} /\ g.pending = e.pending
      /\ g.acknowledged = e.acknowledged /\ g.seen = e.seen
      /\ g.refused = e.refused /\ g.known = e.known
      /\ SetOf(g.parked) = SetOf(e.parked) \ {r}
      /\ SameBatch(g, e)
  BY <1>1, <1>3, <1>a DEF Released, SameBatch
<1>6. Accounted(g)
  <2>1. IsInjective(g.parked) /\ IsInjective(g.ready) /\ IsInjective(g.pending)
    BY <1>1, <1>3, <1>5, <1>a DEF Released, Judgeable
  <2> QED BY <1>5, <2>1 DEF Judgeable, Accounted
<1>7. \A q \in SetOf(g.parked) \ (open \ {r}) : Missing(g, q) # {}
  BY <1>5 DEF Judgeable, Missing
<1>8. /\ \A q \in SetOf(g.ready) \cup SetOf(g.pending) : Missing(g, q) = {}
      /\ Len(g.pending) <= BatchSize
  BY <1>5 DEF Judgeable, Missing
<1> QED BY <1>1, <1>3, <1>4, <1>5, <1>6, <1>7, <1>8 DEF EngineSound, Released

(* A report that misses something is parked and registered with all it     *)
(* misses.                                                                 *)
LEMMA RegisterSound ==
  ASSUME NEW e, NEW r \in Reports, NEW open, Judgeable(e, r, open),
         Missing(e, r) # {}, NEW h, h = Registered(e, r)
  PROVE  /\ EngineSound(h, open \ {r}) /\ r \in SetOf(h.parked)
         /\ Len(h.parked) <= Len(e.parked) + 1
         /\ r \in SetOf(e.parked) => h.parked = e.parked
         /\ r \notin SetOf(e.parked) => h.parked = Append(e.parked, r)
         /\ h.known = e.known /\ h.seen = e.seen /\ SameBatch(h, e)
<1> DEFINE parked == IF r \in SetOf(e.parked) THEN e.parked
                     ELSE Append(e.parked, r)
           waiting == [i \in Interactions |->
              IF i \in Missing(e, r) /\ r \notin SetOf(e.waiting[i])
              THEN Append(e.waiting[i], r) ELSE e.waiting[i]]
<1>0. /\ e \in Engine /\ e.parked \in Seq(Reports)
      /\ \A i \in Interactions : e.waiting[i] \in Seq(Reports)
  BY DEF Judgeable, Engine
<1>1. h = [e EXCEPT !.parked = parked, !.waiting = waiting]
  BY DEF Registered
<1>2. /\ parked \in Seq(Reports) /\ SetOf(parked) = SetOf(e.parked) \cup {r}
      /\ IsInjective(parked) /\ Len(parked) <= Len(e.parked) + 1
      /\ r \in SetOf(e.parked) => parked = e.parked
      /\ r \notin SetOf(e.parked) => parked = Append(e.parked, r)
  <2>1. CASE r \in SetOf(e.parked)
    BY <1>0, <2>1 DEF Judgeable
  <2>2. CASE r \notin SetOf(e.parked)
    <3>1. parked = Append(e.parked, r)
      BY <2>2
    <3>2. /\ Append(e.parked, r) \in Seq(Reports)
          /\ Len(Append(e.parked, r)) = Len(e.parked) + 1
          /\ Len(e.parked) \in Nat
      BY <1>0
    <3>3. /\ SetOf(Append(e.parked, r)) = SetOf(e.parked) \cup {r}
          /\ IsInjective(Append(e.parked, r))
      BY <1>0, <2>2, SetOfTyped DEF Judgeable
    <3> HIDE DEF parked
    <3> QED BY <2>2, <3>1, <3>2, <3>3
  <2> QED BY <2>1, <2>2
<1>3. /\ waiting \in [Interactions -> Seq(Reports)]
      /\ \A i \in Interactions :
           SetOf(waiting[i]) = IF i \in Missing(e, r)
                               THEN SetOf(e.waiting[i]) \cup {r}
                               ELSE SetOf(e.waiting[i])
  <2>1. ASSUME NEW i \in Interactions
        PROVE  /\ waiting[i] \in Seq(Reports)
               /\ SetOf(waiting[i]) = IF i \in Missing(e, r)
                                      THEN SetOf(e.waiting[i]) \cup {r}
                                      ELSE SetOf(e.waiting[i])
    <3>1. /\ e.waiting[i] \in Seq(Reports)
          /\ Append(e.waiting[i], r) \in Seq(Reports)
          /\ SetOf(Append(e.waiting[i], r)) = SetOf(e.waiting[i]) \cup {r}
      BY <1>0, SetOfTyped
    <3>2. CASE i \in Missing(e, r) /\ r \notin SetOf(e.waiting[i])
      BY <3>1, <3>2
    <3>3. CASE ~(i \in Missing(e, r) /\ r \notin SetOf(e.waiting[i]))
      <4>1. waiting[i] = e.waiting[i]
        BY <3>3
      <4> HIDE DEF waiting
      <4> QED BY <3>1, <3>3, <4>1
    <3> QED BY <3>2, <3>3
  <2> QED BY <2>1
<1> HIDE DEF parked, waiting
<1>4. /\ h \in Engine /\ h.parked = parked /\ h.waiting = waiting
      /\ h.known = e.known /\ h.seen = e.seen /\ h.ready = e.ready
      /\ h.pending = e.pending /\ h.refused = e.refused
      /\ h.acknowledged = e.acknowledged /\ h.trained = e.trained
  BY <1>0, <1>1, <1>2, <1>3 DEF Engine
<1>5. IndexExact(h)
  <2> SUFFICES ASSUME NEW q \in Reports, NEW i \in Interactions
               PROVE  q \in SetOf(h.waiting[i]) <=>
                        q \in SetOf(h.parked) /\ i \in Missing(h, q)
    BY DEF IndexExact
  <2>1. /\ q \in SetOf(e.waiting[i]) <=>
             q \in SetOf(e.parked) /\ i \in Missing(e, q)
        /\ Missing(h, q) = Missing(e, q)
    BY <1>4 DEF Judgeable, IndexExact, Missing
  <2> QED BY <1>2, <1>3, <1>4, <2>1
<1>6. Accounted(h)
  <2>1. IsInjective(h.parked) /\ IsInjective(h.ready) /\ IsInjective(h.pending)
    BY <1>2, <1>4 DEF Judgeable
  <2>2. SetOf(h.parked) = SetOf(e.parked) \cup {r}
    BY <1>2, <1>4
  <2> QED BY <1>4, <2>1, <2>2 DEF Judgeable, Accounted
<1>7. \A q \in SetOf(h.parked) \ (open \ {r}) : Missing(h, q) # {}
  BY <1>2, <1>4 DEF Judgeable, Missing
<1>8. /\ \A q \in SetOf(h.ready) \cup SetOf(h.pending) : Missing(h, q) = {}
      /\ Len(h.pending) <= BatchSize
  BY <1>4 DEF Judgeable, Missing
<1>9. SameBatch(h, e)
  BY <1>4 DEF SameBatch
<1> QED BY <1>2, <1>4, <1>5, <1>6, <1>7, <1>8, <1>9 DEF EngineSound

LEMMA SameBatchChain ==
  ASSUME NEW e, NEW f, NEW g, SameBatch(f, e), SameBatch(g, f)
  PROVE  SameBatch(g, e)
BY DEF SameBatch

(* Parking keeps the bound on parked reports: when it refuses one, that is *)
(* an earlier one.                                                         *)
LEMMA ParkSound ==
  ASSUME NEW e, NEW r \in Reports, NEW open, Judgeable(e, r, open),
         Missing(e, r) # {}, Len(e.parked) <= MaxParked,
         NEW g, g = Park(e, r)
  PROVE  /\ EngineSound(g, open \ {r}) /\ Len(g.parked) <= MaxParked
         /\ g.known = e.known /\ g.seen = e.seen /\ SameBatch(g, e)
<1> DEFINE h == Registered(e, r)
           oldest == Head(h.parked)
<1>1. /\ EngineSound(h, open \ {r}) /\ r \in SetOf(h.parked)
      /\ Len(h.parked) <= Len(e.parked) + 1
      /\ r \in SetOf(e.parked) => h.parked = e.parked
      /\ r \notin SetOf(e.parked) => h.parked = Append(e.parked, r)
      /\ h.known = e.known /\ h.seen = e.seen /\ SameBatch(h, e)
  BY RegisterSound
<1>2. g = IF Len(h.parked) > MaxParked /\ oldest # r
          THEN Refuse(h, oldest) ELSE h
  BY DEF Park
<1> HIDE DEF h
<1>3. /\ e.parked \in Seq(Reports) /\ h.parked \in Seq(Reports)
      /\ MaxParked \in Nat \ {0}
      /\ Len(h.parked) \in Nat /\ Len(e.parked) \in Nat
  BY <1>1, RecordsAssumption DEF Judgeable, EngineSound, Engine
<1>4. CASE Len(h.parked) > MaxParked /\ oldest # r
  <2>1. Len(h.parked) > 0 /\ h.parked # <<>>
    BY <1>3, <1>4
  <2>2. oldest = h.parked[1] /\ 1 \in DOMAIN h.parked
    BY <1>3, <2>1
  <2>3. oldest \in SetOf(h.parked)
    BY <2>2 DEF SetOf
  <2> HIDE DEF oldest
  <2>4. Judgeable(h, oldest, open \ {r}) /\ oldest \in Reports
    BY <1>1, <2>3, ParkedJudgeable
  <2>5. g = Refuse(h, oldest)
    BY <1>2, <1>4
  <2>6. /\ EngineSound(g, (open \ {r}) \ {oldest})
        /\ Len(g.parked) < Len(h.parked)
        /\ g.known = h.known /\ g.seen = h.seen /\ SameBatch(g, h)
    <3> DEFINE rest == open \ {r}
    <3>1. Judgeable(h, oldest, rest)
      BY <2>4
    <3> HIDE DEF rest
    <3>2. /\ EngineSound(g, rest \ {oldest})
          /\ oldest \in SetOf(h.parked) => Len(g.parked) < Len(h.parked)
          /\ g.known = h.known /\ g.seen = h.seen /\ SameBatch(g, h)
      BY <2>4, <2>5, <3>1, RefuseSound
    <3> QED BY <2>3, <3>2 DEF rest
  <2>7. EngineSound(g, open \ {r})
    BY <2>6 DEF EngineSound
  <2>8. Len(g.parked) <= MaxParked
    <3>1. g.parked \in Seq(Reports)
      BY <2>6 DEF EngineSound, Engine
    <3>2. Len(g.parked) \in Nat
      BY <3>1
    <3> QED BY <1>1, <1>3, <2>6, <3>2
  <2> QED BY <1>1, <2>6, <2>7, <2>8, SameBatchChain
<1>5. CASE ~(Len(h.parked) > MaxParked /\ oldest # r)
  <2>1. g = h
    BY <1>2, <1>5
  <2>2. Len(h.parked) <= MaxParked
    <3> SUFFICES ASSUME Len(h.parked) > MaxParked PROVE FALSE
      BY <1>3
    <3>1. r \notin SetOf(e.parked) /\ h.parked = Append(e.parked, r)
      BY <1>1, <1>3
    <3>2. Len(e.parked) >= 1
      BY <1>1, <1>3
    <3>3. oldest = e.parked[1] /\ 1 \in DOMAIN e.parked
      BY <1>3, <3>1, <3>2
    <3> QED BY <1>5, <3>1, <3>3 DEF SetOf
  <2> QED BY <1>1, <2>1, <2>2
<1> QED BY <1>4, <1>5

(* judgeReport puts the report where it belongs and leaves the rest.       *)
LEMMA JudgeSound ==
  ASSUME NEW e, NEW r \in Reports, NEW open, Judgeable(e, r, open),
         Len(e.parked) <= MaxParked, NEW g, g = Judge(e, r)
  PROVE  /\ EngineSound(g, open \ {r}) /\ Len(g.parked) <= MaxParked
         /\ g.known = e.known /\ g.seen = e.seen /\ SameBatch(g, e)
<1>1. CASE g = Refuse(e, r)
  <2>1. /\ EngineSound(g, open \ {r}) /\ Len(g.parked) <= Len(e.parked)
        /\ g.known = e.known /\ g.seen = e.seen /\ SameBatch(g, e)
    BY <1>1, RefuseSound
  <2>2. g.parked \in Seq(Reports) /\ e.parked \in Seq(Reports)
    BY <2>1 DEF EngineSound, Judgeable, Engine
  <2>3. Len(g.parked) \in Nat /\ Len(e.parked) \in Nat /\ MaxParked \in Nat
    BY <2>2, RecordsAssumption
  <2> QED BY <2>1, <2>3
<1>2. CASE Missing(e, r) # {} /\ g = Park(e, r)
  BY <1>2, ParkSound
<1>3. CASE Missing(e, r) = {} /\ g = Readied(e, r)
  <2>1. /\ EngineSound(g, open \ {r}) /\ Len(g.parked) <= Len(e.parked)
        /\ g.known = e.known /\ g.seen = e.seen /\ SameBatch(g, e)
    BY <1>3, ReadySound
  <2>2. g.parked \in Seq(Reports) /\ e.parked \in Seq(Reports)
    BY <2>1 DEF EngineSound, Judgeable, Engine
  <2>3. Len(g.parked) \in Nat /\ Len(e.parked) \in Nat /\ MaxParked \in Nat
    BY <2>2, RecordsAssumption
  <2> QED BY <2>1, <2>3
<1> QED BY <1>1, <1>2, <1>3 DEF Judge, Readied
-----------------------------------------------------------------------------
LEMMA MoreOpen ==
  ASSUME NEW e, NEW open, NEW more, EngineSound(e, open), open \subseteq more
  PROVE  EngineSound(e, more)
BY DEF EngineSound

(* An interaction that arrives opens the reports that waited for it.       *)
LEMMA WaitersTakenSound ==
  ASSUME NEW e, EngineSound(e, {}), Len(e.parked) <= MaxParked,
         NEW i \in Interactions, NEW f, f = WaitersTaken(e, i)
  PROVE  /\ EngineSound(f, SetOf(e.waiting[i])) /\ Len(f.parked) <= MaxParked
         /\ f.known = e.known \cup {i} /\ f.seen = e.seen /\ SameBatch(f, e)
<1> DEFINE waiting == [e.waiting EXCEPT ![i] = <<>>]
           known == e.known \cup {i}
<1>0. e \in Engine /\ e.waiting \in [Interactions -> Seq(Reports)]
      /\ e.known \subseteq Interactions
  BY DEF EngineSound, Engine
<1>1. f = [e EXCEPT !.waiting = waiting, !.known = known]
  BY DEF WaitersTaken
<1>2. /\ waiting \in [Interactions -> Seq(Reports)]
      /\ SetOf(waiting[i]) = {}
      /\ \A j \in Interactions : j # i => waiting[j] = e.waiting[j]
      /\ known \in SUBSET Interactions /\ known = e.known \cup {i}
  <2>1. <<>> \in Seq(Reports) /\ SetOf(<<>>) = {}
    BY DEF SetOf
  <2> QED BY <1>0, <2>1
<1> HIDE DEF waiting, known
<1>3. /\ f \in Engine /\ f.parked = e.parked /\ f.waiting = waiting
      /\ f.known = known /\ f.seen = e.seen /\ f.ready = e.ready
      /\ f.pending = e.pending /\ f.refused = e.refused
      /\ f.acknowledged = e.acknowledged /\ f.trained = e.trained
  BY <1>0, <1>1, <1>2 DEF Engine
<1>4. \A q : Missing(f, q) = Missing(e, q) \ {i}
  BY <1>2, <1>3 DEF Missing
<1>5. IndexExact(f)
  <2> SUFFICES ASSUME NEW q \in Reports, NEW j \in Interactions
               PROVE  q \in SetOf(f.waiting[j]) <=>
                        q \in SetOf(f.parked) /\ j \in Missing(f, q)
    BY DEF IndexExact
  <2>1. q \in SetOf(e.waiting[j]) <=>
          q \in SetOf(e.parked) /\ j \in Missing(e, q)
    BY DEF EngineSound, IndexExact
  <2>2. CASE j = i
    BY <1>2, <1>3, <1>4, <2>2
  <2>3. CASE j # i
    BY <1>2, <1>3, <1>4, <2>1, <2>3
  <2> QED BY <2>2, <2>3
<1>6. ASSUME NEW q \in SetOf(f.parked) \ SetOf(e.waiting[i])
      PROVE  Missing(f, q) # {}
  <2>1. q \in SetOf(e.parked) /\ q \in Reports /\ Missing(e, q) # {}
    <3>1. SetOf(e.parked) \subseteq Reports
      BY <1>0, SetOfTyped DEF Engine
    <3> QED BY <1>3, <3>1 DEF EngineSound
  <2>2. i \notin Missing(e, q)
    BY <1>6, <2>1 DEF EngineSound, IndexExact
  <2> QED BY <1>4, <2>1, <2>2
<1>7. Accounted(f) /\ SameBatch(f, e)
  BY <1>3 DEF EngineSound, Accounted, SameBatch
<1>8. \A q \in SetOf(f.ready) \cup SetOf(f.pending) : Missing(f, q) = {}
  BY <1>3, <1>4 DEF EngineSound
<1> QED BY <1>2, <1>3, <1>5, <1>6, <1>7, <1>8 DEF EngineSound

(* The reports it opens are re-judged one after the other; what an earlier *)
(* one of them did, or whether it is parked any more, does not matter.     *)
ReJudge(e, w) ==
  FoldLeft(LAMBDA f, r : IF r \in SetOf(f.parked) THEN Judge(f, r) ELSE f,
           e, w)

LEMMA ReJudged ==
  ASSUME NEW e, NEW w \in Seq(Reports), EngineSound(e, SetOf(w)),
         Len(e.parked) <= MaxParked, NEW g, g = ReJudge(e, w)
  PROVE  /\ EngineSound(g, {}) /\ Len(g.parked) <= MaxParked
         /\ g.known = e.known /\ g.seen = e.seen /\ SameBatch(g, e)
<1> DEFINE n == Len(w)
           Op(f, r) == IF r \in SetOf(f.parked) THEN Judge(f, r) ELSE f
           Open(k) == {w[j] : j \in (k + 1)..n}
           Same(f) == f.known = e.known /\ f.seen = e.seen /\ SameBatch(f, e)
           Good(f, open) == /\ EngineSound(f, open)
                            /\ Len(f.parked) <= MaxParked
                            /\ Same(f)
           E == {f \in Engine : Good(f, SetOf(w))}
           step == [i \in 1..n |-> [f \in E |-> Op(f, w[i])]]
           Folds(h) == h = [P \in SUBSET (1..n) |->
                              IF P = {} THEN e
                              ELSE Op(h[P \ {Max(P)}], w[Max(P)])]
           iter == CHOOSE h : Folds(h)
<1>1. /\ n \in Nat /\ DOMAIN w = 1..n
      /\ \A i \in 1..n : w[i] \in Reports /\ w[i] \in SetOf(w)
  BY DEF SetOf
<1>2. g = iter[1..n]
  BY <1>1 DEF ReJudge, FoldLeft, MapThenFoldSet
<1>3. ASSUME NEW f, NEW open, Good(f, open), NEW r \in Reports
      PROVE  Good(Op(f, r), open \ {r})
  <2>1. CASE r \in SetOf(f.parked)
    <3> DEFINE h == Judge(f, r)
    <3>1. Judgeable(f, r, open)
      BY <1>3, <2>1, ParkedJudgeable
    <3>2. /\ EngineSound(h, open \ {r}) /\ Len(h.parked) <= MaxParked
          /\ h.known = f.known /\ h.seen = f.seen /\ SameBatch(h, f)
      <4>1. Len(f.parked) <= MaxParked
        BY <1>3
      <4> QED BY <3>1, <4>1, JudgeSound
    <3>3. Op(f, r) = h
      BY <2>1
    <3> HIDE DEF h
    <3>4. Same(h)
      BY <1>3, <3>2, SameBatchChain
    <3> QED BY <3>2, <3>3, <3>4
  <2>2. CASE r \notin SetOf(f.parked)
    <3>1. EngineSound(f, open \ {r})
      BY <1>3, <2>2 DEF EngineSound
    <3> QED BY <1>3, <2>2, <3>1
  <2> QED BY <2>1, <2>2
<1>4. Good(e, SetOf(w)) /\ e \in Engine
  BY DEF EngineSound, SameBatch
<1>5. \A f \in E, i \in 1..n : Op(f, w[i]) \in E
  <2> SUFFICES ASSUME NEW f \in E, NEW i \in 1..n
               PROVE  Op(f, w[i]) \in E
    OBVIOUS
  <2> DEFINE h == Op(f, w[i])
             S == SetOf(w)
  <2>1. Good(f, S) /\ w[i] \in Reports
    BY <1>1
  <2>2. Good(h, S \ {w[i]})
    <3> HIDE DEF Good, Op, S
    <3> QED BY <1>3, <2>1
  <2> HIDE DEF Op, h
  <2>3. Good(h, S) /\ h \in Engine
    <3> HIDE DEF S
    <3>1. EngineSound(h, S)
      BY <2>2, MoreOpen
    <3> QED BY <2>2, <3>1 DEF EngineSound
  <2>4. h \in E
    BY <2>3
  <2> QED BY <2>4 DEF h
<1>6. /\ e \in E /\ step \in [1..n -> [E -> E]]
      /\ \A f \in E, i \in 1..n : step[i][f] = Op(f, w[i])
  <2>1. e \in E
    BY <1>4
  <2> HIDE DEF E, Op
  <2> QED BY <1>5, <2>1
<1> HIDE DEF step, Op, n, E, Good
<1>7. Folds(iter)
  <2>1. PICK f \in [SUBSET (1..n) -> E] : Iterates(f, e, step, n)
    BY <1>1, <1>6, IteratesExist
  <2>2. \A P \in SUBSET (1..n) :
          f[P] = IF P = {} THEN e ELSE Op(f[P \ {Max(P)}], w[Max(P)])
    <3> SUFFICES ASSUME NEW P \in SUBSET (1..n), P # {}
                 PROVE  f[P] = Op(f[P \ {Max(P)}], w[Max(P)])
      BY <2>1 DEF Iterates
    <3>1. f[P] = step[Max(P)][f[P \ {Max(P)}]]
      BY <2>1 DEF Iterates
    <3>2. Max(P) \in 1..n
      BY <1>1, MaxInPrefix
    <3>3. f[P \ {Max(P)}] \in E
      OBVIOUS
    <3> QED BY <1>6, <3>1, <3>2, <3>3
  <2>3. Folds(f)
    BY <2>2
  <2> HIDE DEF Folds
  <2> QED BY <2>3
<1>8. /\ iter[1..0] = e
      /\ \A k \in 1..n : iter[1..k] = Op(iter[1..(k - 1)], w[k])
  <2>1. 1..0 = {}
    OBVIOUS
  <2>2. ASSUME NEW k \in 1..n
        PROVE  iter[1..k] = Op(iter[1..(k - 1)], w[k])
    <3>1. 1..k \in SUBSET (1..n) /\ k \in Nat /\ k # 0
      BY <1>1
    <3>2. /\ 1..k # {} /\ Max(1..k) = k
          /\ (1..k) \ {k} = 1..(k - 1)
      BY <3>1, PrefixWithoutMax
    <3> HIDE DEF iter
    <3> QED BY <1>7, <3>1, <3>2
  <2> HIDE DEF iter
  <2> QED BY <1>7, <2>1, <2>2
<1> HIDE DEF iter, Folds
<1>9. PICK c \in [0..n -> E] : Course(c, e, step, n) /\ c[n] = iter[1..n]
  <2>1. Stepwise(iter, e, step, n, E)
    BY <1>6, <1>8 DEF Stepwise
  <2> QED BY <1>1, <1>6, <2>1, IteratesAlong
<1> DEFINE G == {k \in 0..n : Good(c[k], Open(k))}
<1>10. 0 \in G
  <2>1. c[0] = e /\ Open(0) = SetOf(w) /\ 0 \in 0..n
    BY <1>1, <1>9 DEF Course, SetOf
  <2> QED BY <1>4, <2>1
<1>11. ASSUME NEW j \in 0..(n - 1), j \in G
       PROVE  j + 1 \in G
  <2> DEFINE k == j + 1
  <2>1. k \in 1..n /\ k - 1 = j /\ j \in 0..n /\ k \in 0..n
    BY <1>1
  <2>2. c[k] = Op(c[j], w[k])
    BY <1>6, <1>9, <2>1 DEF Course
  <2>3. Good(c[j], Open(j)) /\ w[k] \in Reports
    BY <1>1, <1>11, <2>1
  <2>4. Good(c[k], Open(j) \ {w[k]})
    <3> HIDE DEF Open, k
    <3> QED BY <1>3, <2>2, <2>3
  <2>5. Open(j) \ {w[k]} \subseteq Open(k)
    <3>1. \A i \in (j + 1)..n : i = k \/ i \in (k + 1)..n
      BY <1>1
    <3> QED BY <3>1
  <2>6. Good(c[k], Open(k))
    <3> HIDE DEF Open, k
    <3> QED BY <2>4, <2>5, MoreOpen DEF Good
  <2> QED BY <2>1, <2>6
<1>12. n \in G
  <2> HIDE DEF G
  <2> QED BY <1>1, <1>10, <1>11, PrefixInduction
<1>13. Open(n) = {}
  BY <1>1
<1>14. Good(g, {})
  BY <1>2, <1>9, <1>12, <1>13
<1> QED BY <1>14 DEF Good

(* Folding a record in keeps the engine sound and the batch that is out.   *)
LEMMA IngestedSound ==
  ASSUME NEW e, EngineSound(e, {}), Len(e.parked) <= MaxParked,
         NEW id \in Records, NEW g, g = Ingested(e, id)
  PROVE  /\ EngineSound(g, {}) /\ Len(g.parked) <= MaxParked
         /\ e.known \cup e.seen \subseteq g.known \cup g.seen
         /\ id \in g.known \cup g.seen
         /\ SameBatch(g, e)
<1>0. e \in Engine /\ SameBatch(e, e)
  BY DEF EngineSound, SameBatch
<1>1. CASE id \in Interactions
  <2>1. CASE id \in e.known
    <3>1. g = e
      BY <1>1, <2>1 DEF Ingested, IngestInteraction
    <3> QED BY <1>0, <2>1, <3>1
  <2>2. CASE id \notin e.known
    <3> DEFINE f == WaitersTaken(e, id)
               w == e.waiting[id]
    <3>1. w \in Seq(Reports)
      BY <1>0, <1>1 DEF Engine
    <3>2. /\ EngineSound(f, SetOf(w)) /\ Len(f.parked) <= MaxParked
          /\ f.known = e.known \cup {id} /\ f.seen = e.seen /\ SameBatch(f, e)
      BY <1>1, WaitersTakenSound
    <3>3. g = ReJudge(f, w)
      BY <1>1, <2>2 DEF Ingested, IngestInteraction, ReJudge
    <3> HIDE DEF f, w
    <3>4. /\ EngineSound(g, {}) /\ Len(g.parked) <= MaxParked
          /\ g.known = f.known /\ g.seen = f.seen /\ SameBatch(g, f)
      BY <3>1, <3>2, <3>3, ReJudged
    <3> QED BY <3>2, <3>4, SameBatchChain
  <2> QED BY <2>1, <2>2
<1>2. CASE id \notin Interactions
  <2>0. id \in Reports
    BY <1>2 DEF Records
  <2>1. CASE id \in e.seen
    <3>1. g = e
      BY <1>2, <2>1 DEF Ingested, IngestReport
    <3> QED BY <1>0, <2>1, <3>1
  <2>2. CASE id \notin e.seen
    <3> DEFINE seen == e.seen \cup {id}
               f == [e EXCEPT !.seen = seen]
    <3>1. g = Judge(f, id)
      BY <1>2, <2>2 DEF Ingested, IngestReport
    <3>2. seen \in SUBSET Reports /\ seen = e.seen \cup {id}
      BY <1>0, <2>0 DEF Engine
    <3> HIDE DEF seen
    <3>3. /\ f \in Engine /\ f.parked = e.parked /\ f.waiting = e.waiting
          /\ f.known = e.known /\ f.seen = seen /\ f.ready = e.ready
          /\ f.pending = e.pending /\ f.refused = e.refused
          /\ f.acknowledged = e.acknowledged /\ f.trained = e.trained
      BY <1>0, <3>2 DEF Engine
    <3> HIDE DEF f
    <3>4. IndexExact(f)
      BY <3>3 DEF EngineSound, IndexExact, Missing
    <3>5. Judgeable(f, id, {})
      <4>1. id \notin SetOf(e.parked) \cup SetOf(e.ready) \cup SetOf(e.pending)
                       \cup e.acknowledged \cup e.refused
        BY <2>2 DEF EngineSound, Accounted
      <4> QED BY <3>2, <3>3, <3>4, <4>1
              DEF Judgeable, EngineSound, Accounted, Missing
    <3>6. /\ EngineSound(g, {} \ {id}) /\ Len(g.parked) <= MaxParked
          /\ g.known = f.known /\ g.seen = f.seen /\ SameBatch(g, f)
      <4>1. Len(f.parked) <= MaxParked
        BY <3>3
      <4> QED BY <2>0, <3>1, <3>5, <4>1, JudgeSound
    <3>7. EngineSound(g, {})
      BY <3>6 DEF EngineSound
    <3>8. SameBatch(g, e)
      BY <3>3, <3>6 DEF SameBatch
    <3> QED BY <3>2, <3>3, <3>6, <3>7, <3>8
  <2> QED BY <2>1, <2>2
<1> QED BY <1>1, <1>2
-----------------------------------------------------------------------------
(* Building a batch.  C are the places of the ready queue that the batch   *)
(* has paid for: those it took, and those of the groups it took a member   *)
(* of.                                                                     *)
Chosen == [selected : Seq(Reports), remaining : Seq(Reports), reserved : Nat,
           discarded : SUBSET Reports]

PaidFor(f, q, k, C) ==
  /\ C \in SUBSET (1..Len(q)) /\ Cardinality(C) <= f.reserved
  /\ \A i \in 1..k : q[i] \in SetOf(f.selected) => i \in C
  /\ \A i \in (k + 1)..Len(q) : Taken(f.selected, q[i]) => i \in C

Selects(f, q, k) ==
  /\ f \in Chosen /\ f.reserved <= BatchSize
  /\ SetOf(f.selected) \cup SetOf(f.remaining) \cup f.discarded
       = {q[i] : i \in 1..k}
  /\ SetOf(f.selected) \cap SetOf(f.remaining) = {}
  /\ (SetOf(f.selected) \cup SetOf(f.remaining)) \cap f.discarded = {}
  /\ IsInjective(f.selected) /\ IsInjective(f.remaining)
  /\ \E C : PaidFor(f, q, k, C)

LEMMA GroupSizeTyped ==
  ASSUME NEW e \in Engine, NEW r
  PROVE  /\ GroupSize(e, r) \in Nat
         /\ Group[r] # NoKey =>
              GroupSize(e, r)
                = Cardinality({i \in 1..Len(e.ready) :
                                 Group[e.ready[i]] = Group[r]})
<1> DEFINE q == e.ready
           S == {i \in 1..Len(q) : Group[q[i]] = Group[r]}
<1>1. q \in Seq(Reports) /\ Len(q) \in Nat /\ DOMAIN q = 1..Len(q)
  BY DEF Engine
<1>2. IsFiniteSet(S) /\ Cardinality(S) \in Nat
  <2>1. IsFiniteSet(1..Len(q)) /\ S \in SUBSET (1..Len(q))
    BY <1>1, FS_Interval
  <2> HIDE DEF S
  <2> QED BY <2>1, FS_Subset, FS_CardinalityType
<1> QED BY <1>1, <1>2 DEF GroupSize

(* What the queue has seen of r, and where r came from, stays true with    *)
(* one unit more.                                                          *)
LEMMA TakenMore ==
  ASSUME NEW s \in Seq(Reports), NEW r \in Reports, NEW x \in Reports
  PROVE  /\ Taken(s, x) => Taken(Append(s, r), x)
         /\ Taken(Append(s, r), x) =>
              Taken(s, x) \/ (Group[x] # NoKey /\ Group[r] = Group[x])
<1>1. SetOf(Append(s, r)) = SetOf(s) \cup {r}
  BY SetOfTyped
<1> QED BY <1>1 DEF Taken

LEMMA ChoosesSound ==
  ASSUME NEW e \in Engine, NEW q, q = e.ready, IsInjective(q),
         NEW k \in 1..Len(q), NEW f, Selects(f, q, k - 1),
         NEW g, g = Chooses(e, f, q[k])
  PROVE  Selects(g, q, k)
<1> DEFINE n == Len(q)
           r == q[k]
           size == GroupSize(e, r)
<1>1. /\ q \in Seq(Reports) /\ n \in Nat /\ DOMAIN q = 1..n /\ r \in Reports
      /\ \A i \in 1..n : q[i] \in Reports
      /\ \A i, j \in 1..n : q[i] = q[j] => i = j
      /\ k \in 1..n /\ k \in Nat
  <2>1. q \in Seq(Reports)
    BY DEF Engine
  <2> QED BY <2>1 DEF IsInjective
<1>2. /\ f \in Chosen /\ f.selected \in Seq(Reports)
      /\ f.remaining \in Seq(Reports) /\ f.reserved \in Nat
      /\ f.discarded \in SUBSET Reports /\ f.reserved <= BatchSize
  BY DEF Selects, Chosen
<1>3. /\ SetOf(f.selected) \cup SetOf(f.remaining) \cup f.discarded
           = {q[i] : i \in 1..(k - 1)}
      /\ SetOf(f.selected) \cap SetOf(f.remaining) = {}
      /\ (SetOf(f.selected) \cup SetOf(f.remaining)) \cap f.discarded = {}
      /\ IsInjective(f.selected) /\ IsInjective(f.remaining)
  BY DEF Selects
<1>4. PICK C : PaidFor(f, q, k - 1, C)
  BY DEF Selects
<1>5. /\ {q[i] : i \in 1..k} = {q[i] : i \in 1..(k - 1)} \cup {r}
      /\ \A i \in 1..k : i \in 1..(k - 1) \/ i = k
      /\ \A i \in (k + 1)..n : i \in ((k - 1) + 1)..n /\ i \in 1..n /\ i # k
      /\ k \in ((k - 1) + 1)..n
  <2>1. 1..k = (1..(k - 1)) \cup {k}
    BY <1>1
  <2> QED BY <1>1, <2>1
<1>6. r \notin SetOf(f.selected) \cup SetOf(f.remaining) \cup f.discarded
  <2>1. \A i \in 1..(k - 1) : i \in 1..n /\ i # k
    BY <1>1
  <2> QED BY <1>1, <1>3, <2>1
<1>7. /\ size \in Nat
      /\ Group[r] # NoKey =>
           size = Cardinality({i \in 1..n : Group[q[i]] = Group[r]})
      /\ Group[r] = NoKey => size = 1
  BY GroupSizeTyped DEF GroupSize
<1>8. /\ C \in SUBSET (1..n) /\ Cardinality(C) <= f.reserved
      /\ IsFiniteSet(C) /\ Cardinality(C) \in Nat
      /\ \A i \in 1..(k - 1) : q[i] \in SetOf(f.selected) => i \in C
      /\ \A i \in ((k - 1) + 1)..n : Taken(f.selected, q[i]) => i \in C
  <2>1. C \in SUBSET (1..n) /\ IsFiniteSet(1..n)
    BY <1>1, <1>4, FS_Interval DEF PaidFor
  <2> QED BY <1>4, <2>1, FS_Subset, FS_CardinalityType DEF PaidFor
<1>9. /\ Append(f.selected, r) \in Seq(Reports)
      /\ SetOf(Append(f.selected, r)) = SetOf(f.selected) \cup {r}
      /\ IsInjective(Append(f.selected, r))
      /\ Append(f.remaining, r) \in Seq(Reports)
      /\ SetOf(Append(f.remaining, r)) = SetOf(f.remaining) \cup {r}
      /\ IsInjective(Append(f.remaining, r))
  <2>1. \A s \in Seq(Reports) : Append(s, r) \in Seq(Reports)
    BY <1>1
  <2> QED BY <1>1, <1>2, <1>3, <1>6, <2>1, SetOfTyped
<1> HIDE DEF n, r, size
<1>10. CASE size > BatchSize
  <2>1. g = [f EXCEPT !.discarded = f.discarded \cup {r}]
    BY <1>10 DEF Chooses, Reserve, size, r
  <2>2. /\ g \in Chosen /\ g.selected = f.selected /\ g.reserved = f.reserved
        /\ g.remaining = f.remaining /\ g.discarded = f.discarded \cup {r}
    BY <1>1, <1>2, <2>1 DEF Chosen
  <2>3. PaidFor(g, q, k, C)
    BY <1>5, <1>6, <1>8, <2>2 DEF PaidFor, n, r
  <2>a. /\ SetOf(g.selected) \cup SetOf(g.remaining) \cup g.discarded
             = SetOf(f.selected) \cup SetOf(f.remaining) \cup f.discarded
                 \cup {r}
        /\ SetOf(g.selected) \cap SetOf(g.remaining) = {}
        /\ (SetOf(g.selected) \cup SetOf(g.remaining)) \cap g.discarded = {}
        /\ IsInjective(g.selected) /\ IsInjective(g.remaining)
    BY <1>3, <1>6, <1>9, <2>2
  <2>b. SetOf(g.selected) \cup SetOf(g.remaining) \cup g.discarded
          = {q[i] : i \in 1..k}
    BY <1>3, <1>5, <2>a
  <2>c. g.reserved <= BatchSize
    BY <1>2, <2>2
  <2> QED BY <2>2, <2>3, <2>a, <2>b, <2>c DEF Selects
<1>11. CASE ~(size > BatchSize) /\ Taken(f.selected, r)
  <2>1. g = [f EXCEPT !.selected = Append(f.selected, r)]
    BY <1>11 DEF Chooses, Reserve, size, r
  <2>2. /\ g \in Chosen /\ g.selected = Append(f.selected, r)
        /\ g.reserved = f.reserved /\ g.remaining = f.remaining
        /\ g.discarded = f.discarded
    BY <1>2, <1>9, <2>1 DEF Chosen
  <2>3. k \in C
    BY <1>5, <1>8, <1>11 DEF r
  <2>4. \A i \in 1..k : q[i] \in SetOf(g.selected) => i \in C
    <3>1. \A i \in 1..(k - 1) : i \in 1..n
      BY <1>1
    <3> QED BY <1>1, <1>5, <1>8, <1>9, <2>2, <2>3, <3>1 DEF r
  <2>5. \A i \in (k + 1)..n : Taken(g.selected, q[i]) => i \in C
    <3> SUFFICES ASSUME NEW i \in (k + 1)..n, Taken(g.selected, q[i])
                 PROVE  Taken(f.selected, q[i])
      BY <1>5, <1>8
    <3>1. Taken(f.selected, q[i]) \/ (Group[q[i]] # NoKey /\ Group[r] = Group[q[i]])
      BY <1>1, <1>2, <1>5, <2>2, TakenMore
    <3> QED BY <1>11, <3>1 DEF Taken
  <2>6. PaidFor(g, q, k, C)
    BY <1>8, <2>2, <2>4, <2>5 DEF PaidFor, n
  <2>a. /\ SetOf(g.selected) \cup SetOf(g.remaining) \cup g.discarded
             = SetOf(f.selected) \cup SetOf(f.remaining) \cup f.discarded
                 \cup {r}
        /\ SetOf(g.selected) \cap SetOf(g.remaining) = {}
        /\ (SetOf(g.selected) \cup SetOf(g.remaining)) \cap g.discarded = {}
        /\ IsInjective(g.selected) /\ IsInjective(g.remaining)
    BY <1>3, <1>6, <1>9, <2>2
  <2>b. SetOf(g.selected) \cup SetOf(g.remaining) \cup g.discarded
          = {q[i] : i \in 1..k}
    BY <1>3, <1>5, <2>a
  <2>c. g.reserved <= BatchSize
    BY <1>2, <2>2
  <2> QED BY <2>2, <2>6, <2>a, <2>b, <2>c DEF Selects
<1>12. CASE /\ ~(size > BatchSize) /\ ~Taken(f.selected, r)
            /\ f.reserved + size <= BatchSize
  <2>1. g = [f EXCEPT !.selected = Append(f.selected, r),
                      !.reserved = f.reserved + size]
    BY <1>12 DEF Chooses, Reserve, size, r
  <2>2. /\ g \in Chosen /\ g.selected = Append(f.selected, r)
        /\ g.reserved = f.reserved + size /\ g.remaining = f.remaining
        /\ g.discarded = f.discarded
    <3>1. f.reserved + size \in Nat
      BY <1>2, <1>7
    <3> QED BY <1>2, <1>9, <2>1, <3>1 DEF Chosen
  <2>3. ASSUME NEW D \in SUBSET (1..n), k \in D,
               Group[r] # NoKey =>
                 \A i \in 1..n : Group[q[i]] = Group[r] => i \in D,
               Cardinality(C \cup D) <= f.reserved + size
        PROVE  PaidFor(g, q, k, C \cup D)
    <3>1. \A i \in 1..k : q[i] \in SetOf(g.selected) => i \in C \cup D
      <4>1. \A i \in 1..(k - 1) : i \in 1..n
        BY <1>1
      <4> QED BY <1>1, <1>5, <1>8, <1>9, <2>2, <2>3, <4>1 DEF r
    <3>2. \A i \in (k + 1)..n : Taken(g.selected, q[i]) => i \in C \cup D
      <4> SUFFICES ASSUME NEW i \in (k + 1)..n, Taken(g.selected, q[i])
                   PROVE  i \in C \cup D
        OBVIOUS
      <4>1. Taken(f.selected, q[i]) \/ (Group[q[i]] # NoKey /\ Group[r] = Group[q[i]])
        BY <1>1, <1>2, <1>5, <2>2, TakenMore
      <4> QED BY <1>5, <1>8, <2>3, <4>1
    <3>3. C \cup D \in SUBSET (1..n)
      BY <1>8
    <3> QED BY <2>2, <2>3, <3>1, <3>2, <3>3 DEF PaidFor, n
  <2>4. \E D : PaidFor(g, q, k, D)
    <3>1. CASE Group[r] = NoKey
      <4>1. Cardinality(C \cup {k}) <= f.reserved + size
        <5>1. IsFiniteSet(C) /\ Cardinality(C) \in Nat
          BY <1>8
        <5>2. \/ Cardinality(C \cup {k}) = Cardinality(C)
              \/ Cardinality(C \cup {k}) = Cardinality(C) + 1
          BY <5>1, FS_AddElement
        <5> QED BY <1>2, <1>7, <1>8, <3>1, <5>2
      <4>2. {k} \in SUBSET (1..n) /\ k \in {k}
        BY <1>1
      <4> HIDE DEF PaidFor
      <4> QED BY <2>3, <3>1, <4>1, <4>2
    <3>2. CASE Group[r] # NoKey
      <4> DEFINE D == {i \in 1..n : Group[q[i]] = Group[r]}
      <4>1. /\ D \in SUBSET (1..n) /\ k \in D
            /\ \A i \in 1..n : Group[q[i]] = Group[r] => i \in D
        BY <1>1 DEF r
      <4>2. size = Cardinality(D)
        BY <1>7, <3>2
      <4> HIDE DEF D
      <4>3. IsFiniteSet(D)
        <5>1. IsFiniteSet(1..n)
          BY <1>1, FS_Interval
        <5> QED BY <4>1, <5>1, FS_Subset
      <4>4. /\ Cardinality(C \cup D)
                 = Cardinality(C) + Cardinality(D) - Cardinality(C \cap D)
            /\ IsFiniteSet(C \cap D)
        BY <1>8, <4>3, FS_Union, FS_Intersection
      <4>5. Cardinality(C \cap D) \in Nat /\ Cardinality(D) \in Nat
        BY <4>3, <4>4, FS_CardinalityType
      <4>6. Cardinality(C \cup D) <= f.reserved + size
        BY <1>2, <1>8, <4>2, <4>4, <4>5
      <4> HIDE DEF PaidFor
      <4> QED BY <2>3, <4>1, <4>6
    <3> QED BY <3>1, <3>2
  <2>a. /\ SetOf(g.selected) \cup SetOf(g.remaining) \cup g.discarded
             = SetOf(f.selected) \cup SetOf(f.remaining) \cup f.discarded
                 \cup {r}
        /\ SetOf(g.selected) \cap SetOf(g.remaining) = {}
        /\ (SetOf(g.selected) \cup SetOf(g.remaining)) \cap g.discarded = {}
        /\ IsInjective(g.selected) /\ IsInjective(g.remaining)
    BY <1>3, <1>6, <1>9, <2>2
  <2>b. SetOf(g.selected) \cup SetOf(g.remaining) \cup g.discarded
          = {q[i] : i \in 1..k}
    BY <1>3, <1>5, <2>a
  <2>c. g.reserved <= BatchSize
    BY <1>2, <1>12, <2>2
  <2> QED BY <2>2, <2>4, <2>a, <2>b, <2>c DEF Selects
<1>13. CASE /\ ~(size > BatchSize) /\ ~Taken(f.selected, r)
            /\ ~(f.reserved + size <= BatchSize)
  <2>1. g = [f EXCEPT !.remaining = Append(f.remaining, r)]
    BY <1>13 DEF Chooses, Reserve, size, r
  <2>2. /\ g \in Chosen /\ g.selected = f.selected /\ g.reserved = f.reserved
        /\ g.remaining = Append(f.remaining, r) /\ g.discarded = f.discarded
    BY <1>2, <1>9, <2>1 DEF Chosen
  <2>3. PaidFor(g, q, k, C)
    BY <1>5, <1>6, <1>8, <2>2 DEF PaidFor, n, r
  <2>a. /\ SetOf(g.selected) \cup SetOf(g.remaining) \cup g.discarded
             = SetOf(f.selected) \cup SetOf(f.remaining) \cup f.discarded
                 \cup {r}
        /\ SetOf(g.selected) \cap SetOf(g.remaining) = {}
        /\ (SetOf(g.selected) \cup SetOf(g.remaining)) \cap g.discarded = {}
        /\ IsInjective(g.selected) /\ IsInjective(g.remaining)
    BY <1>3, <1>6, <1>9, <2>2
  <2>b. SetOf(g.selected) \cup SetOf(g.remaining) \cup g.discarded
          = {q[i] : i \in 1..k}
    BY <1>3, <1>5, <2>a
  <2>c. g.reserved <= BatchSize
    BY <1>2, <2>2
  <2> QED BY <2>2, <2>3, <2>a, <2>b, <2>c DEF Selects
<1> QED BY <1>10, <1>11, <1>12, <1>13

LEMMA ChoosesTyped ==
  ASSUME NEW e \in Engine, NEW f \in Chosen, NEW r \in Reports
  PROVE  Chooses(e, f, r) \in Chosen
<1> DEFINE size == GroupSize(e, r)
           g == Chooses(e, f, r)
<1>1. /\ Append(f.selected, r) \in Seq(Reports) /\ f.reserved + size \in Nat
      /\ Append(f.remaining, r) \in Seq(Reports)
      /\ f.discarded \cup {r} \in SUBSET Reports
  <2>1. /\ f.selected \in Seq(Reports) /\ f.remaining \in Seq(Reports)
        /\ f.reserved \in Nat /\ f.discarded \in SUBSET Reports
    BY DEF Chosen
  <2>2. size \in Nat
    BY GroupSizeTyped
  <2> HIDE DEF size
  <2> QED BY <2>1, <2>2
<1>2. \/ g = [f EXCEPT !.discarded = f.discarded \cup {r}]
      \/ g = [f EXCEPT !.selected = Append(f.selected, r)]
      \/ g = [f EXCEPT !.selected = Append(f.selected, r),
                       !.reserved = f.reserved + size]
      \/ g = [f EXCEPT !.remaining = Append(f.remaining, r)]
  BY DEF Chooses, Reserve
<1> HIDE DEF size, g
<1>3. g \in Chosen
  BY <1>1, <1>2 DEF Chosen
<1> QED BY <1>3 DEF g

(* The choice is sound: every unit of the queue is taken, left or          *)
(* discarded, and what is taken fits the batch.                            *)
LEMMA SelectSound ==
  ASSUME NEW e \in Engine, IsInjective(e.ready), NEW g, g = Select(e)
  PROVE  Selects(g, e.ready, Len(e.ready))
<1> DEFINE w == e.ready
           D == DOMAIN w
           n == Len(w)
           Op(f, r) == Chooses(e, f, r)
           step == [i \in 1..n |-> [f \in Chosen |-> Op(f, w[i])]]
           base == NoneChosen
           Folds(h) == h = [P \in SUBSET D |->
                              IF P = {} THEN base
                              ELSE Op(h[P \ {Max(P)}], w[Max(P)])]
           iter == CHOOSE h : Folds(h)
<1>1. /\ w \in Seq(Reports) /\ n \in Nat /\ D = 1..n
      /\ \A i \in 1..n : w[i] \in Reports
  <2>1. w \in Seq(Reports)
    BY DEF Engine
  <2> QED BY <2>1
<1>2. g = iter[D]
  BY DEF Select, FoldLeft, MapThenFoldSet
<1>3. Selects(base, w, 0) /\ base \in Chosen
  <2>1. /\ base \in Chosen /\ base.selected = <<>> /\ base.remaining = <<>>
        /\ base.reserved = 0 /\ base.discarded = {}
    BY DEF NoneChosen, Chosen
  <2> HIDE DEF base
  <2>2. /\ SetOf(<<>>) = {} /\ IsInjective(<<>>) /\ {w[i] : i \in 1..0} = {}
        /\ \A x : ~Taken(<<>>, x)
    BY DEF SetOf, IsInjective, Taken
  <2>3. PaidFor(base, w, 0, {})
    <3>1. Cardinality({}) <= base.reserved /\ 1..0 = {}
      BY <2>1, FS_EmptySet
    <3>2. \A x : ~Taken(base.selected, x)
      BY <2>1, <2>2
    <3> HIDE DEF w
    <3> QED BY <3>1, <3>2 DEF PaidFor
  <2>4. base.reserved <= BatchSize
    BY <2>1, RecordsAssumption
  <2> QED BY <2>1, <2>2, <2>3, <2>4 DEF Selects
<1>4. /\ step \in [1..n -> [Chosen -> Chosen]]
      /\ \A f \in Chosen, i \in 1..n : step[i][f] = Op(f, w[i])
  <2>1. \A f \in Chosen, i \in 1..n : Op(f, w[i]) \in Chosen
    BY <1>1, ChoosesTyped
  <2> HIDE DEF Op
  <2> QED BY <2>1
<1>5. ASSUME NEW k \in 1..n, NEW f, Selects(f, w, k - 1)
      PROVE  Selects(Op(f, w[k]), w, k)
  BY <1>5, ChoosesSound
<1> HIDE DEF step, Op, n, D, base
<1>6. Folds(iter)
  <2>1. PICK f \in [SUBSET (1..n) -> Chosen] : Iterates(f, base, step, n)
    BY <1>1, <1>3, <1>4, IteratesExist
  <2>2. \A P \in SUBSET D :
          f[P] = IF P = {} THEN base ELSE Op(f[P \ {Max(P)}], w[Max(P)])
    <3> SUFFICES ASSUME NEW P \in SUBSET (1..n), P # {}
                 PROVE  f[P] = Op(f[P \ {Max(P)}], w[Max(P)])
      BY <1>1, <2>1 DEF Iterates
    <3>1. f[P] = step[Max(P)][f[P \ {Max(P)}]]
      BY <2>1 DEF Iterates
    <3>2. Max(P) \in 1..n
      BY <1>1, MaxInPrefix
    <3>3. f[P \ {Max(P)}] \in Chosen
      OBVIOUS
    <3> QED BY <1>4, <3>1, <3>2, <3>3
  <2>3. Folds(f)
    BY <1>1, <2>2
  <2> HIDE DEF Folds
  <2> QED BY <2>3
<1>7. /\ iter[1..0] = base
      /\ \A k \in 1..n : iter[1..k] = Op(iter[1..(k - 1)], w[k])
  <2>1. 1..0 = {}
    OBVIOUS
  <2>2. ASSUME NEW k \in 1..n
        PROVE  iter[1..k] = Op(iter[1..(k - 1)], w[k])
    <3>1. 1..k \in SUBSET D /\ k \in Nat /\ k # 0
      BY <1>1
    <3>2. /\ 1..k # {} /\ Max(1..k) = k
          /\ (1..k) \ {k} = 1..(k - 1)
      BY <3>1, PrefixWithoutMax
    <3> HIDE DEF iter
    <3> QED BY <1>6, <3>1, <3>2
  <2> HIDE DEF iter
  <2> QED BY <1>6, <2>1, <2>2
<1> HIDE DEF iter, Folds
<1>8. PICK c \in [0..n -> Chosen] : Course(c, base, step, n) /\ c[n] = iter[1..n]
  <2>1. Stepwise(iter, base, step, n, Chosen)
    BY <1>4, <1>7 DEF Stepwise
  <2> QED BY <1>1, <1>3, <1>4, <2>1, IteratesAlong
<1> DEFINE G == {k \in 0..n : Selects(c[k], w, k)}
<1>9. 0 \in G
  BY <1>1, <1>3, <1>8 DEF Course
<1>10. ASSUME NEW j \in 0..(n - 1), j \in G
       PROVE  j + 1 \in G
  <2> DEFINE k == j + 1
  <2>1. k \in 1..n /\ k - 1 = j /\ j \in 0..n /\ k \in 0..n
    BY <1>1
  <2>2. c[k] = Op(c[k - 1], w[k])
    BY <1>4, <1>8, <2>1 DEF Course
  <2>3. Selects(c[k - 1], w, k - 1)
    BY <1>10, <2>1
  <2>4. Selects(c[k], w, k)
    <3> HIDE DEF k
    <3> QED BY <1>5, <2>1, <2>2, <2>3
  <2> QED BY <2>1, <2>4
<1>11. n \in G
  <2> HIDE DEF G
  <2> QED BY <1>1, <1>9, <1>10, PrefixInduction
<1>12. Selects(g, w, n)
  BY <1>1, <1>2, <1>8, <1>11
<1> QED BY <1>12 DEF n

(* A batch has no more units than it paid for.                             *)
LEMMA SelectedFit ==
  ASSUME NEW q \in Seq(Reports), IsInjective(q), NEW f, Selects(f, q, Len(q))
  PROVE  Len(f.selected) <= BatchSize
<1> DEFINE n == Len(q)
           s == f.selected
           m == Len(s)
<1>1. /\ n \in Nat /\ s \in Seq(Reports) /\ m \in Nat /\ DOMAIN s = 1..m
      /\ IsInjective(s) /\ f.reserved \in Nat /\ f.reserved <= BatchSize
      /\ BatchSize \in Nat
  BY RecordsAssumption DEF Selects, Chosen
<1>2. \A j \in 1..m : \E i \in 1..n : q[i] = s[j]
  <2>1. \A j \in 1..m : s[j] \in SetOf(s)
    BY <1>1 DEF SetOf
  <2>2. SetOf(s) \subseteq {q[i] : i \in 1..n}
    BY DEF Selects
  <2> HIDE DEF s, m, n
  <2> QED BY <2>1, <2>2
<1>3. PICK C : PaidFor(f, q, n, C)
  BY DEF Selects
<1>4. /\ C \in SUBSET (1..n) /\ Cardinality(C) <= f.reserved
      /\ \A i \in 1..n : q[i] \in SetOf(s) => i \in C
  BY <1>3 DEF PaidFor
<1> DEFINE h == [j \in 1..m |-> CHOOSE i \in 1..n : q[i] = s[j]]
<1>5. \A j \in 1..m : h[j] \in 1..n /\ q[h[j]] = s[j]
  <2> HIDE DEF s, m, n
  <2> QED BY <1>2
<1>6. h \in [1..m -> C]
  <2>1. \A j \in 1..m : s[j] \in SetOf(s)
    BY <1>1 DEF SetOf
  <2>2. \A j \in 1..m : h[j] \in C
    <3> HIDE DEF h, s, m, n
    <3> QED BY <1>4, <1>5, <2>1
  <2> HIDE DEF s, m, n
  <2> QED BY <2>2
<1>7. \A i, j \in 1..m : h[i] = h[j] => i = j
  <2>1. \A i, j \in 1..m : s[i] = s[j] => i = j
    BY <1>1 DEF IsInjective
  <2> HIDE DEF h, s, m, n
  <2> QED BY <1>5, <2>1
<1>8. h \in Injection(1..m, C)
  <2> HIDE DEF h, s, m, n
  <2> QED BY <1>6, <1>7 DEF Injection, IsInjective
<1>9. IsFiniteSet(C) /\ Cardinality(1..m) = m /\ IsFiniteSet(1..m)
  <2>1. IsFiniteSet(1..n)
    BY <1>1, FS_Interval
  <2>2. Cardinality(1..m) = m /\ IsFiniteSet(1..m)
    <3> HIDE DEF m
    <3> QED BY <1>1, FS_Interval
  <2> QED BY <1>4, <2>1, <2>2, FS_Subset
<1>10. Cardinality(1..m) <= Cardinality(C)
  <2> HIDE DEF h, s, m, n
  <2> QED BY <1>8, <1>9, FS_Injection
<1>11. Cardinality(C) \in Nat
  BY <1>9, FS_CardinalityType
<1> HIDE DEF s, m
<1>12. m <= BatchSize
  BY <1>1, <1>4, <1>9, <1>10, <1>11
<1> QED BY <1>12 DEF m, s

(* s is u followed by v.                                                   *)
Follows(u, v, s, n, m) ==
  /\ DOMAIN u = 1..n /\ DOMAIN v = 1..m /\ DOMAIN s = 1..(n + m)
  /\ \A i \in 1..n : s[i] = u[i]
  /\ \A i \in 1..m : s[n + i] = v[i]

LEMMA Joined ==
  ASSUME NEW n \in Nat, NEW m \in Nat, NEW u, NEW v, NEW s,
         Follows(u, v, s, n, m)
  PROVE  /\ SetOf(s) = SetOf(u) \cup SetOf(v)
         /\ IsInjective(s) <=> /\ IsInjective(u) /\ IsInjective(v)
                               /\ SetOf(u) \cap SetOf(v) = {}
<1>0. /\ DOMAIN u = 1..n /\ DOMAIN v = 1..m /\ DOMAIN s = 1..(n + m)
      /\ \A i \in 1..n : s[i] = u[i]
      /\ \A i \in 1..m : s[n + i] = v[i]
  BY DEF Follows
<1>1. /\ \A i \in 1..n : i \in 1..(n + m)
      /\ \A i \in 1..m : n + i \in 1..(n + m)
      /\ \A i \in 1..n, j \in 1..m : i # n + j
      /\ \A i, j \in 1..m : n + i = n + j => i = j
      /\ \A i \in 1..(n + m) : i \in 1..n \/ \E j \in 1..m : i = n + j
  <2>1. ASSUME NEW i \in 1..(n + m), i \notin 1..n
        PROVE  \E j \in 1..m : i = n + j
    <3>1. i - n \in 1..m /\ i = n + (i - n)
      BY <2>1
    <3> QED BY <3>1
  <2> QED BY <2>1
<1>2. \A x : x \in SetOf(s) <=> \E i \in 1..(n + m) : x = s[i]
  BY <1>0 DEF SetOf
<1>3. \A x : x \in SetOf(u) <=> \E i \in 1..n : x = u[i]
  BY <1>0 DEF SetOf
<1>4. \A x : x \in SetOf(v) <=> \E i \in 1..m : x = v[i]
  BY <1>0 DEF SetOf
<1>5. ASSUME NEW x PROVE x \in SetOf(s) <=> x \in SetOf(u) \/ x \in SetOf(v)
  <2>1. ASSUME x \in SetOf(s) PROVE x \in SetOf(u) \/ x \in SetOf(v)
    <3>1. PICK i \in 1..(n + m) : x = s[i]
      BY <1>2, <2>1
    <3>2. CASE i \in 1..n
      BY <1>0, <1>3, <3>1, <3>2
    <3>3. CASE \E j \in 1..m : i = n + j
      BY <1>0, <1>4, <3>1, <3>3
    <3> QED BY <1>1, <3>2, <3>3
  <2>2. ASSUME x \in SetOf(u) PROVE x \in SetOf(s)
    BY <1>0, <1>1, <1>2, <1>3, <2>2
  <2>3. ASSUME x \in SetOf(v) PROVE x \in SetOf(s)
    BY <1>0, <1>1, <1>2, <1>4, <2>3
  <2> QED BY <2>1, <2>2, <2>3
<1>6. ASSUME IsInjective(s)
      PROVE  IsInjective(u) /\ IsInjective(v) /\ SetOf(u) \cap SetOf(v) = {}
  <2>1. \A i, j \in 1..(n + m) : s[i] = s[j] => i = j
    BY <1>0, <1>6 DEF IsInjective
  <2>2. ASSUME NEW i \in 1..n, NEW j \in 1..n, u[i] = u[j] PROVE i = j
    BY <1>0, <1>1, <2>1, <2>2
  <2>3. ASSUME NEW i \in 1..m, NEW j \in 1..m, v[i] = v[j] PROVE i = j
    <3>1. n + i = n + j
      BY <1>0, <1>1, <2>1, <2>3
    <3> QED BY <3>1
  <2>4. ASSUME NEW i \in 1..n, NEW j \in 1..m PROVE u[i] # v[j]
    BY <1>0, <1>1, <2>1
  <2>5. SetOf(u) \cap SetOf(v) = {}
    BY <1>3, <1>4, <2>4
  <2> QED BY <1>0, <2>2, <2>3, <2>5 DEF IsInjective
<1>7. ASSUME IsInjective(u), IsInjective(v), SetOf(u) \cap SetOf(v) = {}
      PROVE  IsInjective(s)
  <2>1. \A i, j \in 1..n : u[i] = u[j] => i = j
    BY <1>0, <1>7 DEF IsInjective
  <2>2. \A i, j \in 1..m : v[i] = v[j] => i = j
    BY <1>0, <1>7 DEF IsInjective
  <2>3. \A i \in 1..n, j \in 1..m : u[i] # v[j]
    BY <1>3, <1>4, <1>7
  <2>4. ASSUME NEW i \in 1..(n + m), NEW j \in 1..(n + m), s[i] = s[j]
        PROVE  i = j
    <3>1. i \in 1..n \/ \E k \in 1..m : i = n + k
      BY <1>1
    <3>2. j \in 1..n \/ \E k \in 1..m : j = n + k
      BY <1>1
    <3>3. CASE i \in 1..n /\ j \in 1..n
      BY <1>0, <2>1, <2>4, <3>3
    <3>4. ASSUME i \in 1..n, NEW k \in 1..m, j = n + k PROVE FALSE
      BY <1>0, <2>3, <2>4, <3>4
    <3>5. ASSUME NEW k \in 1..m, i = n + k, j \in 1..n PROVE FALSE
      <4>1. s[i] = v[k] /\ s[j] = u[j]
        BY <1>0, <3>5
      <4> QED BY <2>3, <2>4, <3>5, <4>1
    <3>6. ASSUME NEW k \in 1..m, i = n + k, NEW l \in 1..m, j = n + l
          PROVE  i = j
      <4>1. s[i] = v[k] /\ s[j] = v[l]
        BY <1>0, <3>6
      <4>2. k = l
        BY <2>2, <2>4, <4>1
      <4> QED BY <3>6, <4>2
    <3> QED BY <3>1, <3>2, <3>3, <3>4, <3>5, <3>6
  <2> QED BY <1>0, <2>4 DEF IsInjective
<1> HIDE DEF SetOf
<1>8. SetOf(s) = SetOf(u) \cup SetOf(v)
  BY <1>5
<1> QED BY <1>6, <1>7, <1>8

LEMMA SplitSound ==
  ASSUME NEW T, NEW s \in Seq(T), IsInjective(s), NEW n \in 0..Len(s),
         NEW u, u = SubSeq(s, 1, n), NEW v, v = SubSeq(s, n + 1, Len(s))
  PROVE  /\ u \in Seq(T) /\ v \in Seq(T) /\ Len(v) <= Len(s)
         /\ SetOf(u) \cup SetOf(v) = SetOf(s) /\ SetOf(u) \cap SetOf(v) = {}
         /\ IsInjective(u) /\ IsInjective(v)
<1> DEFINE m == Len(s) - n
<1>1. /\ Len(s) \in Nat /\ n \in Nat /\ m \in Nat /\ Len(s) = n + m
      /\ DOMAIN s = 1..(n + m)
  OBVIOUS
<1>2. /\ u \in Seq(T) /\ Len(u) = n /\ DOMAIN u = 1..n
      /\ \A i \in 1..n : u[i] = s[i]
  <2>1. 1 \in 1..(Len(s) + 1) /\ n \in (1 - 1)..Len(s)
    BY <1>1
  <2> QED BY <1>1, <2>1, SubSeqProperties
<1>3. /\ v \in Seq(T) /\ Len(v) = m /\ DOMAIN v = 1..m
      /\ \A i \in 1..m : v[i] = s[n + i]
  <2> DEFINE a == n + 1
             b == Len(s)
  <2>2. \A i \in a..b : s[i] \in T
    BY <1>1
  <2>3. /\ a \in Int /\ b \in Int /\ v = SubSeq(s, a, b)
        /\ b - a + 1 = m /\ (a <= b => m = b - a + 1) /\ (~(a <= b) => m = 0)
        /\ \A i \in 1..m : a + i - 1 = n + i
    <3>1. v = SubSeq(s, a, b)
      OBVIOUS
    <3>2. n \in Nat /\ m \in Nat /\ a = n + 1 /\ b = n + m
      BY <1>1
    <3> HIDE DEF a, b, m
    <3>3. a \in Int /\ b \in Int
      BY <3>2
    <3>4. b - a + 1 = m /\ (a <= b => m = b - a + 1) /\ (~(a <= b) => m = 0)
      BY <3>2
    <3> QED BY <3>1, <3>2, <3>3, <3>4
  <2> HIDE DEF a, b, m
  <2>4. /\ SubSeq(s, a, b) \in Seq(T)
        /\ Len(SubSeq(s, a, b)) = IF a <= b THEN b - a + 1 ELSE 0
        /\ \A i \in 1..(b - a + 1) : SubSeq(s, a, b)[i] = s[a + i - 1]
    BY <2>2, <2>3, SubSeqProperties
  <2>5. v \in Seq(T) /\ Len(v) = m /\ \A i \in 1..m : v[i] = s[n + i]
    BY <2>3, <2>4
  <2> QED BY <2>5
<1> HIDE DEF m
<1>4. /\ SetOf(s) = SetOf(u) \cup SetOf(v)
      /\ IsInjective(s) <=> /\ IsInjective(u) /\ IsInjective(v)
                            /\ SetOf(u) \cap SetOf(v) = {}
  <2>1. Follows(u, v, s, n, m)
    BY <1>1, <1>2, <1>3 DEF Follows
  <2> QED BY <1>1, <2>1, Joined
<1> QED BY <1>1, <1>2, <1>3, <1>4

LEMMA JoinSound ==
  ASSUME NEW T, NEW u \in Seq(T), NEW v \in Seq(T),
         IsInjective(u), IsInjective(v), SetOf(u) \cap SetOf(v) = {}
  PROVE  /\ u \o v \in Seq(T)
         /\ SetOf(u \o v) = SetOf(u) \cup SetOf(v)
         /\ IsInjective(u \o v)
<1> DEFINE n == Len(u)
           m == Len(v)
           s == u \o v
<1>1. /\ n \in Nat /\ m \in Nat /\ DOMAIN u = 1..n /\ DOMAIN v = 1..m
      /\ s \in Seq(T) /\ DOMAIN s = 1..(n + m)
      /\ \A i \in 1..(n + m) : s[i] = IF i <= n THEN u[i] ELSE v[i - n]
  OBVIOUS
<1> HIDE DEF n, m, s
<1>2. /\ \A i \in 1..n : s[i] = u[i]
      /\ \A i \in 1..m : s[n + i] = v[i]
  <2>1. \A i \in 1..m : n + i \in 1..(n + m) /\ ~(n + i <= n) /\ (n + i) - n = i
    BY <1>1
  <2>2. \A i \in 1..n : i \in 1..(n + m) /\ i <= n
    BY <1>1
  <2> QED BY <1>1, <2>1, <2>2
<1>3. /\ SetOf(s) = SetOf(u) \cup SetOf(v)
      /\ IsInjective(s) <=> /\ IsInjective(u) /\ IsInjective(v)
                            /\ SetOf(u) \cap SetOf(v) = {}
  <2>1. Follows(u, v, s, n, m)
    BY <1>1, <1>2 DEF Follows
  <2> QED BY <1>1, <2>1, Joined
<1>4. s \in Seq(T) /\ SetOf(s) = SetOf(u) \cup SetOf(v) /\ IsInjective(s)
  BY <1>1, <1>3
<1> QED BY <1>4 DEF s

(* The byte cap has an answer: the newest unit alone is always kept.       *)
LEMMA DeferredTyped ==
  ASSUME NEW units \in Seq(Reports)
  PROVE  Deferred(units) \in 0..Len(units)
<1> DEFINE m == Len(units)
           Fits(k) == \/ k + 1 >= Len(units)
                      \/ BatchBytes(SubSeq(units, k + 1, Len(units)))
                           <= MaxSampleBytes
           Least(n) == Fits(n) /\ \A k \in 0..(n - 1) : ~Fits(k)
           S == {k \in 0..m : Fits(k)}
<1>1. Deferred(units) = CHOOSE n \in 0..m : Least(n)
  BY DEF Deferred
<1>2. m \in Nat
  OBVIOUS
<1>3. m \in S
  <2>1. m + 1 >= Len(units)
    BY <1>2
  <2>2. m \in 0..m
    BY <1>2
  <2> QED BY <2>1, <2>2
<1> HIDE DEF Fits, m
<1>4. PICK n \in S : \A k \in S : n <= k
  <2>1. S \in SUBSET Nat /\ S # {}
    BY <1>2, <1>3
  <2> HIDE DEF S
  <2> QED BY <2>1, NatHasMinimum
<1>5. n \in 0..m /\ Least(n)
  <2>1. n \in 0..m /\ Fits(n)
    BY <1>4
  <2>2. ASSUME NEW k \in 0..(n - 1) PROVE ~Fits(k)
    <3>1. k \in 0..m /\ ~(n <= k)
      BY <1>2, <2>1
    <3> QED BY <1>4, <3>1
  <2> QED BY <2>1, <2>2
<1> HIDE DEF Least
<1>6. Deferred(units) \in 0..m
  BY <1>1, <1>5
<1> QED BY <1>6 DEF m

(* Building a batch moves units and loses none.                            *)
LEMMA BuiltSound ==
  ASSUME NEW e, EngineSound(e, {}), Len(e.parked) <= MaxParked,
         NEW g, g = BuiltBatch(e)
  PROVE  /\ EngineSound(g, {}) /\ Len(g.parked) <= MaxParked
         /\ g.known = e.known /\ g.seen = e.seen
<1>1. CASE e.pending # <<>>
  <2>1. g = e
    BY <1>1 DEF BuiltBatch
  <2> QED BY <2>1
<1>2. CASE e.pending = <<>>
  <2> DEFINE q == e.ready
             batch == Select(e)
             s == batch.selected
             n == Deferred(s)
             u == SubSeq(s, 1, n)
             v == SubSeq(s, n + 1, Len(s))
             w == batch.remaining
             left == u \o w
             gone == e.refused \cup batch.discarded
  <2>1. /\ e \in Engine /\ q \in Seq(Reports) /\ IsInjective(q)
        /\ Accounted(e) /\ IndexExact(e)
        /\ \A r \in SetOf(e.parked) : Missing(e, r) # {}
        /\ \A r \in SetOf(q) \cup SetOf(e.pending) : Missing(e, r) = {}
    BY DEF EngineSound, Accounted, Engine
  <2>2. g = [e EXCEPT !.pending = v, !.ready = left, !.refused = gone]
    BY <1>2 DEF BuiltBatch
  <2>3. Selects(batch, q, Len(q))
    BY <2>1, SelectSound
  <2>4. /\ batch.selected \in Seq(Reports) /\ batch.remaining \in Seq(Reports)
        /\ batch.discarded \in SUBSET Reports
        /\ IsInjective(batch.selected) /\ IsInjective(batch.remaining)
        /\ SetOf(batch.selected) \cap SetOf(batch.remaining) = {}
        /\ (SetOf(batch.selected) \cup SetOf(batch.remaining))
             \cap batch.discarded = {}
        /\ SetOf(batch.selected) \cup SetOf(batch.remaining)
             \cup batch.discarded = SetOf(q)
    <3>1. SetOf(q) = {q[i] : i \in 1..Len(q)}
      BY <2>1 DEF SetOf
    <3> HIDE DEF q, batch
    <3> QED BY <2>3, <3>1 DEF Selects, Chosen
  <2>5. Len(s) <= BatchSize
    BY <2>1, <2>3, SelectedFit
  <2> HIDE DEF batch
  <2>6. n \in 0..Len(s)
    BY <2>4, DeferredTyped
  <2> HIDE DEF n
  <2>7. /\ u \in Seq(Reports) /\ v \in Seq(Reports) /\ Len(v) <= Len(s)
        /\ SetOf(u) \cup SetOf(v) = SetOf(s) /\ SetOf(u) \cap SetOf(v) = {}
        /\ IsInjective(u) /\ IsInjective(v)
    <3> HIDE DEF s
    <3>1. s \in Seq(Reports) /\ IsInjective(s)
      BY <2>4 DEF s
    <3> QED BY <2>6, <3>1, SplitSound
  <2> HIDE DEF u, v
  <2>8. /\ left \in Seq(Reports) /\ SetOf(left) = SetOf(u) \cup SetOf(w)
        /\ IsInjective(left)
    <3>1. /\ w \in Seq(Reports) /\ IsInjective(w) /\ u \in Seq(Reports)
          /\ IsInjective(u) /\ SetOf(u) \cap SetOf(w) = {}
      BY <2>4, <2>7
    <3> HIDE DEF w
    <3> QED BY <3>1, JoinSound
  <2> HIDE DEF left
  <2>9. /\ SetOf(left) \cup SetOf(v) \cup batch.discarded = SetOf(q)
        /\ SetOf(left) \cap SetOf(v) = {}
        /\ (SetOf(left) \cup SetOf(v)) \cap batch.discarded = {}
    <3>1. SetOf(u) \subseteq SetOf(s) /\ SetOf(v) \subseteq SetOf(s)
      BY <2>7
    <3> QED BY <2>4, <2>7, <2>8, <3>1
  <2>10. Len(v) <= BatchSize
    <3>1. Len(v) \in Nat /\ Len(s) \in Nat /\ BatchSize \in Nat
      BY <2>4, <2>7, RecordsAssumption
    <3> HIDE DEF s
    <3> QED BY <2>5, <2>7, <3>1
  <2> HIDE DEF s
  <2>11. gone \in SUBSET Reports /\ gone = e.refused \cup batch.discarded
    BY <2>1, <2>4 DEF Engine
  <2> HIDE DEF gone
  <2>12. /\ g \in Engine /\ g.parked = e.parked /\ g.waiting = e.waiting
         /\ g.known = e.known /\ g.seen = e.seen /\ g.ready = left
         /\ g.pending = v /\ g.refused = gone
         /\ g.acknowledged = e.acknowledged /\ g.trained = e.trained
    BY <2>1, <2>2, <2>7, <2>8, <2>11 DEF Engine
  <2> HIDE DEF q
  <2>13. SetOf(e.pending) = {}
    BY <1>2 DEF SetOf
  <2>14. /\ e.seen = SetOf(e.parked) \cup SetOf(q)
                       \cup e.acknowledged \cup e.refused
         /\ SetOf(e.parked) \cap SetOf(q) = {}
         /\ (SetOf(e.parked) \cup SetOf(q))
              \cap (e.acknowledged \cup e.refused) = {}
         /\ e.acknowledged \cap e.refused = {}
         /\ IsInjective(e.parked)
    BY <2>1, <2>13 DEF Accounted, q
  <2>15. Accounted(g)
    <3>1. /\ SetOf(left) \subseteq SetOf(q) /\ SetOf(v) \subseteq SetOf(q)
          /\ batch.discarded \subseteq SetOf(q)
      BY <2>9
    <3>2. g.seen = SetOf(g.parked) \cup SetOf(g.ready) \cup SetOf(g.pending)
                     \cup g.acknowledged \cup g.refused
      BY <2>9, <2>11, <2>12, <2>14
    <3>3. /\ SetOf(g.parked) \cap SetOf(g.ready) = {}
          /\ SetOf(g.parked) \cap SetOf(g.pending) = {}
          /\ SetOf(g.ready) \cap SetOf(g.pending) = {}
      BY <2>9, <2>12, <2>14, <3>1
    <3>4. /\ SetOf(g.parked) \cap (g.acknowledged \cup g.refused) = {}
          /\ SetOf(g.ready) \cap (g.acknowledged \cup g.refused) = {}
          /\ SetOf(g.pending) \cap (g.acknowledged \cup g.refused) = {}
          /\ g.acknowledged \cap g.refused = {}
      BY <2>9, <2>11, <2>12, <2>14, <3>1
    <3>5. (SetOf(g.parked) \cup SetOf(g.ready) \cup SetOf(g.pending))
            \cap (g.acknowledged \cup g.refused) = {}
      BY <3>4
    <3>6. IsInjective(g.parked) /\ IsInjective(g.ready) /\ IsInjective(g.pending)
      BY <2>7, <2>8, <2>12, <2>14
    <3> QED BY <3>2, <3>3, <3>4, <3>5, <3>6 DEF Accounted
  <2>16. /\ IndexExact(g)
         /\ \A r \in SetOf(g.parked) : Missing(g, r) # {}
         /\ \A r \in SetOf(q) : Missing(g, r) = {}
    BY <2>1, <2>12 DEF IndexExact, Missing, q
  <2>17. \A r \in SetOf(g.ready) \cup SetOf(g.pending) : Missing(g, r) = {}
    BY <2>9, <2>12, <2>16
  <2> QED BY <2>10, <2>12, <2>15, <2>16, <2>17 DEF EngineSound
<1> QED BY <1>1, <1>2

(* An acknowledged batch is accounted for, and nothing else moves.         *)
LEMMA AcknowledgedSound ==
  ASSUME NEW e, EngineSound(e, {}), Len(e.parked) <= MaxParked,
         NEW g, g = Acknowledged(e)
  PROVE  /\ EngineSound(g, {}) /\ Len(g.parked) <= MaxParked
         /\ g.known = e.known /\ g.seen = e.seen
<1> DEFINE done == SetOf(e.pending)
           trained == e.trained \cup Sources(done)
           acknowledged == e.acknowledged \cup done
           none == <<>>
<1>1. /\ e \in Engine /\ e.pending \in Seq(Reports)
      /\ Accounted(e) /\ IndexExact(e)
      /\ \A r \in SetOf(e.parked) : Missing(e, r) # {}
      /\ \A r \in SetOf(e.ready) \cup done : Missing(e, r) = {}
  BY DEF EngineSound, Engine
<1>2. done \subseteq Reports
  BY <1>1, SetOfTyped
<1>3. g = [e EXCEPT !.pending = none, !.trained = trained,
                    !.acknowledged = acknowledged]
  BY DEF Acknowledged
<1>4. /\ none \in Seq(Reports) /\ SetOf(none) = {} /\ Len(none) = 0
      /\ IsInjective(none)
  BY DEF SetOf, IsInjective
<1> HIDE DEF none, done
<1>5. trained \in SUBSET Interactions /\ acknowledged \in SUBSET Reports
  <2>1. Sources(done) \subseteq Interactions
    BY <1>2, RecordsAssumption DEF Sources
  <2>2. e.trained \subseteq Interactions /\ e.acknowledged \subseteq Reports
    BY <1>1 DEF Engine
  <2> QED BY <1>2, <2>1, <2>2
<1>6. acknowledged = e.acknowledged \cup done
  OBVIOUS
<1> HIDE DEF trained, acknowledged
<1>7. /\ g \in Engine /\ g.parked = e.parked /\ g.waiting = e.waiting
      /\ g.known = e.known /\ g.seen = e.seen /\ g.ready = e.ready
      /\ g.pending = none /\ g.refused = e.refused
      /\ g.acknowledged = acknowledged
  BY <1>1, <1>3, <1>4, <1>5 DEF Engine
<1>8. Accounted(g)
  BY <1>1, <1>4, <1>6, <1>7 DEF Accounted, done
<1>9. IndexExact(g) /\ \A r \in SetOf(g.parked) : Missing(g, r) # {}
  BY <1>1, <1>7 DEF IndexExact, Missing
<1>10. \A r \in SetOf(g.ready) \cup SetOf(g.pending) : Missing(g, r) = {}
  BY <1>1, <1>4, <1>7 DEF Missing
<1>11. Len(g.pending) <= BatchSize
  BY <1>4, <1>7, RecordsAssumption
<1> QED BY <1>7, <1>8, <1>9, <1>10, <1>11 DEF EngineSound

LEMMA NewEngineSound ==
  EngineSound(NewEngine, {}) /\ Len(NewEngine.parked) <= MaxParked
<1> DEFINE none == <<>>
           g == NewEngine
           empty == [i \in Interactions |-> none]
<1>1. /\ none \in Seq(Reports) /\ SetOf(none) = {} /\ Len(none) = 0
      /\ IsInjective(none)
  BY DEF SetOf, IsInjective
<1>2. g = [known |-> {}, waiting |-> empty, parked |-> none, seen |-> {},
           trained |-> {}, ready |-> none, pending |-> none,
           refused |-> {}, acknowledged |-> {}]
  BY DEF NewEngine
<1> HIDE DEF none, g
<1>3. empty \in [Interactions -> Seq(Reports)]
      /\ \A i \in Interactions : empty[i] = none
  BY <1>1
<1> HIDE DEF empty
<1>4. g \in Engine
  BY <1>1, <1>2, <1>3 DEF Engine
<1>5. IndexExact(g) /\ Accounted(g)
  BY <1>1, <1>2, <1>3 DEF IndexExact, Accounted
<1>6. Len(g.pending) <= BatchSize /\ Len(g.parked) <= MaxParked
  BY <1>1, <1>2, RecordsAssumption
<1>7. \A r \in SetOf(g.parked) \cup SetOf(g.ready) \cup SetOf(g.pending) : FALSE
  BY <1>1, <1>2
<1>8. EngineSound(g, {}) /\ Len(g.parked) <= MaxParked
  BY <1>4, <1>5, <1>6, <1>7 DEF EngineSound
<1> QED BY <1>8 DEF g
-----------------------------------------------------------------------------
(* The store and the page at hand.                                         *)
StoreSound ==
  /\ log \in Seq(Records) /\ inbox \in Seq(Records)
  /\ sequenceOf \in [Records -> 0..MaxSequence]
  /\ sequence \in 0..MaxSequence /\ cursor \in 0..sequence
  /\ consumed \subseteq Records
  /\ LogOrdered /\ NothingSkipped

RecordsSound ==
  StoreSound /\ EngineSound(engine, {}) /\ Len(engine.parked) <= MaxParked

Ordered(s, number) ==
  \A i, j \in 1..Len(s) : i < j => number[s[i]] < number[s[j]]

LEMMA KeptOrdered ==
  ASSUME NEW T, NEW s \in Seq(T), NEW S, NEW number, Ordered(s, number)
  PROVE  Ordered(Kept(s, S), number)
<1> DEFINE t == Kept(s, S)
           n == Len(s)
<1>1. PICK f : Picks(t, f, s, n, S)
  BY KeptSound
<1> HIDE DEF t, n
<1>2. /\ f \in [1..Len(t) -> 1..n]
      /\ \A i, j \in 1..Len(t) : i < j => f[i] < f[j]
      /\ \A j \in 1..Len(t) : t[j] = s[f[j]]
  BY <1>1 DEF Picks
<1>3. ASSUME NEW i \in 1..Len(t), NEW j \in 1..Len(t), i < j
      PROVE  number[t[i]] < number[t[j]]
  <2>1. f[i] \in 1..n /\ f[j] \in 1..n /\ f[i] < f[j]
    BY <1>2, <1>3
  <2>2. number[s[f[i]]] < number[s[f[j]]]
    BY <2>1 DEF Ordered, n
  <2> QED BY <1>2, <2>2
<1>4. Ordered(t, number)
  BY <1>3 DEF Ordered
<1> QED BY <1>4 DEF t

LEMMA LogIsOrdered ==
  ASSUME log \in Seq(Records), LogOrdered
  PROVE  Ordered(log, sequenceOf)
<1>1. DOMAIN log = 1..Len(log)
  OBVIOUS
<1> QED BY <1>1 DEF LogOrdered, Ordered

(* A record that is appended is ahead of the reader.                       *)
LEMMA AppendKeeps ==
  ASSUME RecordsSound, NEW id \in Records, AppendRecord(id)
  PROVE  RecordsSound'
<1>1. /\ log \in Seq(Records) /\ inbox \in Seq(Records)
      /\ sequenceOf \in [Records -> 0..MaxSequence]
      /\ sequence \in 0..MaxSequence /\ cursor \in 0..sequence
      /\ consumed \subseteq Records
      /\ LogOrdered /\ NothingSkipped /\ MaxSequence \in Nat
  BY RecordsAssumption DEF RecordsSound, StoreSound
<1>2. /\ engine' = engine /\ inbox' = inbox /\ cursor' = cursor
      /\ sequenceOf[id] = 0
  BY DEF AppendRecord
<1>3. EngineSound(engine', {}) /\ Len(engine'.parked) <= MaxParked
  BY <1>2 DEF RecordsSound
<1>4. CASE id \in Reports /\ References[id] \subseteq consumed
  <2>1. /\ log' = log /\ sequenceOf' = sequenceOf /\ sequence' = sequence
        /\ consumed' \subseteq Records
    BY <1>1, <1>4 DEF AppendRecord
  <2>2. LogOrdered' /\ NothingSkipped'
    BY <1>1, <1>2, <2>1 DEF LogOrdered, NothingSkipped
  <2> QED BY <1>1, <1>2, <1>3, <2>1, <2>2 DEF RecordsSound, StoreSound
<1>5. CASE ~(id \in Reports /\ References[id] \subseteq consumed)
  <2> DEFINE all == Append(log, id)
             gone == Evicted(all)
             S == Records \ gone
             now == sequence + 1
             number == [x \in Records |-> IF x = id THEN now ELSE sequenceOf[x]]
  <2>1. /\ sequence < MaxSequence /\ sequence' = now /\ consumed' = consumed
        /\ log' = Kept(all, S)
        /\ sequenceOf' = [x \in Records |-> IF x \in gone THEN 0
                            ELSE IF x = id THEN now ELSE sequenceOf[x]]
    BY <1>5 DEF AppendRecord
  <2>2. /\ now \in 1..MaxSequence /\ cursor < now /\ cursor \in 0..now
        /\ now = sequence + 1 /\ sequence \in Nat
    BY <1>1, <2>1
  <2>3. /\ all \in Seq(Records) /\ SetOf(all) = SetOf(log) \cup {id}
        /\ Len(all) = Len(log) + 1 /\ Len(log) \in Nat
        /\ all[Len(log) + 1] = id
        /\ \A i \in 1..Len(log) : all[i] = log[i] /\ log[i] \in SetOf(log)
    <3>1. \A i \in 1..Len(log) : all[i] = log[i] /\ log[i] \in SetOf(log)
      BY <1>1 DEF SetOf
    <3>2. SetOf(all) = SetOf(log) \cup {id}
      BY <1>1, SetOfTyped
    <3> QED BY <1>1, <3>1, <3>2
  <2> HIDE DEF now, gone, all
  <2>4. /\ SetOf(log) = {x \in Records : sequenceOf[x] # 0}
        /\ \A x \in Records : sequenceOf[x] <= sequence
        /\ \A x \in Records : sequenceOf[x] \in Nat
        /\ id \notin SetOf(log)
    BY <1>1, <1>2 DEF LogOrdered
  <2>5. /\ \A x \in SetOf(log) : number[x] = sequenceOf[x]
                                /\ number[x] < now
        /\ number[id] = now
        /\ \A x \in Records : number[x] \in 0..MaxSequence /\ number[x] <= now
        /\ \A x \in Records : number[x] # 0 <=> x = id \/ sequenceOf[x] # 0
        /\ \A x \in Records :
             sequenceOf'[x] = IF x \in gone THEN 0 ELSE number[x]
    <3>1. /\ \A x \in Records : number[x] = IF x = id THEN now ELSE sequenceOf[x]
          /\ \A x \in Records :
               sequenceOf'[x] = IF x \in gone THEN 0 ELSE number[x]
      BY <2>1
    <3> HIDE DEF number
    <3>2. \A x \in Records : sequenceOf[x] <= now /\ sequenceOf[x] \in 0..MaxSequence
      BY <1>1, <2>2, <2>4
    <3>3. \A x \in SetOf(log) : x \in Records /\ x # id /\ sequenceOf[x] < now
      BY <2>2, <2>4
    <3> QED BY <2>2, <3>1, <3>2, <3>3
  <2>a. sequenceOf' \in [Records -> 0..MaxSequence]
    <3>1. \A x \in Records : sequenceOf[x] \in 0..MaxSequence
      BY <1>1
    <3>2. 0 \in 0..MaxSequence /\ now \in 0..MaxSequence
      BY <1>1, <2>2
    <3> QED BY <2>1, <3>1, <3>2
  <2> HIDE DEF number
  <2>6. Ordered(all, number)
    <3> SUFFICES ASSUME NEW i \in 1..Len(all), NEW j \in 1..Len(all), i < j
                 PROVE  number[all[i]] < number[all[j]]
      BY DEF Ordered
    <3>1. i \in 1..Len(log) /\ (j \in 1..Len(log) \/ j = Len(log) + 1)
      BY <2>3
    <3>2. CASE j = Len(log) + 1
      BY <2>3, <2>5, <3>1, <3>2
    <3>3. CASE j \in 1..Len(log)
      <4>1. sequenceOf[log[i]] < sequenceOf[log[j]]
        BY <1>1, <3>1, <3>3, LogIsOrdered DEF Ordered
      <4> QED BY <2>3, <2>5, <3>1, <3>3, <4>1
    <3> QED BY <3>1, <3>2, <3>3
  <2>7. /\ log' \in Seq(Records) /\ SetOf(log') = SetOf(all) \cap S
        /\ Ordered(log', number) /\ DOMAIN log' = 1..Len(log')
    <3> HIDE DEF S
    <3>1. /\ Kept(all, S) \in Seq(Records)
          /\ SetOf(Kept(all, S)) = SetOf(all) \cap S
      BY <2>3, KeptElements
    <3>2. Ordered(Kept(all, S), number)
      BY <2>3, <2>6, KeptOrdered
    <3> QED BY <2>1, <3>1, <3>2
  <2>8. /\ sequenceOf' \in [Records -> 0..MaxSequence]
        /\ \A x \in SetOf(log') : sequenceOf'[x] = number[x] /\ x \in Records
        /\ \A x \in Records : sequenceOf'[x] <= now
    <3>1. \A x \in SetOf(log') : x \in Records /\ x \notin gone
      BY <2>3, <2>4, <2>7
    <3>2. 0 <= now
      BY <2>2
    <3> QED BY <2>5, <2>a, <3>1, <3>2
  <2>9. LogOrdered'
    <3>1. SetOf(log') = {x \in Records : sequenceOf'[x] # 0}
      BY <2>2, <2>3, <2>4, <2>5, <2>7
    <3>2. \A i \in DOMAIN log' : log'[i] \in SetOf(log')
      BY DEF SetOf
    <3>3. \A i, j \in DOMAIN log' :
            i < j => sequenceOf'[log'[i]] < sequenceOf'[log'[j]]
      BY <2>7, <2>8, <3>2 DEF Ordered
    <3> QED BY <2>1, <2>8, <3>1, <3>3 DEF LogOrdered
  <2>10. NothingSkipped'
    <3> SUFFICES ASSUME NEW x \in SetOf(log'), sequenceOf'[x] <= cursor
                 PROVE  x \in SetOf(inbox) \cup engine.known \cup engine.seen
      BY <1>2 DEF NothingSkipped
    <3>1. x # id
      <4>1. \A k \in Nat : k < now => ~(now <= k)
        BY <2>2
      <4> QED BY <1>1, <2>2, <2>5, <2>8, <4>1
    <3>2. x \in SetOf(log) /\ sequenceOf[x] <= cursor
      BY <2>3, <2>5, <2>7, <2>8, <3>1
    <3> QED BY <1>1, <3>2 DEF NothingSkipped
  <2>11. sequence' \in 0..MaxSequence /\ cursor' \in 0..sequence'
    BY <1>2, <2>1, <2>2
  <2>12. consumed' \subseteq Records
    BY <1>1, <2>1
  <2> QED BY <1>1, <1>2, <1>3, <2>7, <2>8, <2>9, <2>10, <2>11, <2>12
          DEF RecordsSound, StoreSound
<1> QED BY <1>4, <1>5

(* A page holds everything up to the reader's new cursor.                  *)
LEMMA PageKeeps ==
  ASSUME RecordsSound, Page
  PROVE  RecordsSound'
<1> DEFINE new == {id \in Records : sequenceOf[id] > cursor}
           available == Kept(log, new)
           n == Len(available)
           last == IF n < PageLimit THEN n ELSE PageLimit
<1>1. /\ log \in Seq(Records)
      /\ sequenceOf \in [Records -> 0..MaxSequence]
      /\ sequence \in 0..MaxSequence /\ cursor \in 0..sequence
      /\ consumed \subseteq Records
      /\ LogOrdered /\ NothingSkipped
      /\ MaxSequence \in Nat /\ PageLimit \in Nat /\ PageLimit # 0
  BY RecordsAssumption DEF RecordsSound, StoreSound
<1>2. /\ inbox = <<>> /\ available # <<>>
      /\ inbox' = SubSeq(available, 1, last)
      /\ cursor' = sequenceOf[available[last]]
      /\ log' = log /\ sequenceOf' = sequenceOf /\ sequence' = sequence
      /\ consumed' = consumed /\ engine' = engine
  BY DEF Page
<1>3. /\ available \in Seq(Records) /\ SetOf(available) = SetOf(log) \cap new
      /\ Ordered(available, sequenceOf)
  <2> HIDE DEF new
  <2> QED BY <1>1, KeptElements, KeptOrdered, LogIsOrdered
<1> HIDE DEF available
<1>4. /\ n \in Nat /\ n # 0 /\ DOMAIN available = 1..n
      /\ last \in 1..n /\ last \in Nat
      /\ \A j \in 1..n : available[j] \in Records
  <2>1. n \in Nat /\ n # 0 /\ DOMAIN available = 1..n
    BY <1>2, <1>3
  <2>2. last \in 1..n /\ last \in Nat
    BY <1>1, <2>1
  <2> QED BY <1>3, <2>1, <2>2
<1> HIDE DEF last
<1>5. /\ inbox' \in Seq(Records) /\ DOMAIN inbox' = 1..last
      /\ \A i \in 1..last : inbox'[i] = available[i]
  <2>1. \A i \in 1..last : i \in 1..n
    BY <1>4
  <2> HIDE DEF n
  <2>2. \A i \in 1..last : available[i] \in Records
    BY <1>4, <2>1
  <2> QED BY <1>2, <1>3, <1>4, <2>2, SubSeqProperties
<1>6. sequenceOf[available[last]] \in 0..sequence
  BY <1>1, <1>4 DEF LogOrdered
<1>7. NothingSkipped'
  <2> SUFFICES ASSUME NEW x \in SetOf(log),
                      sequenceOf[x] <= sequenceOf[available[last]]
               PROVE  x \in SetOf(inbox') \cup engine.known \cup engine.seen
    BY <1>2 DEF NothingSkipped
  <2>0. x \in Records /\ sequenceOf[x] \in Nat /\ cursor \in Nat
    BY <1>1 DEF LogOrdered
  <2>1. CASE sequenceOf[x] <= cursor
    <3>1. SetOf(inbox) = {}
      BY <1>2 DEF SetOf
    <3> QED BY <1>1, <2>1, <3>1 DEF NothingSkipped
  <2>2. CASE ~(sequenceOf[x] <= cursor)
    <3>1. x \in SetOf(available)
      BY <1>3, <2>0, <2>2
    <3>2. PICK j \in 1..n : x = available[j]
      BY <1>4, <3>1 DEF SetOf
    <3>3. j \in 1..last
      <4>1. ASSUME last < j
            PROVE  sequenceOf[available[last]] < sequenceOf[available[j]]
        BY <1>3, <1>4, <4>1 DEF Ordered
      <4>2. sequenceOf[available[last]] \in Nat
        BY <1>6, <1>1
      <4>3. ~(last < j)
        BY <2>0, <3>2, <4>1, <4>2
      <4> QED BY <1>4, <4>3
    <3> QED BY <1>5, <3>2, <3>3 DEF SetOf
  <2> QED BY <2>1, <2>2
<1>8. LogOrdered'
  BY <1>1, <1>2 DEF LogOrdered
<1> QED BY <1>1, <1>2, <1>5, <1>6, <1>7, <1>8
        DEF RecordsSound, StoreSound

LEMMA IngestKeeps ==
  ASSUME RecordsSound, Ingest
  PROVE  RecordsSound' /\ engine'.pending = engine.pending
<1> DEFINE id == Head(inbox)
           rest == Tail(inbox)
           g == Ingested(engine, id)
<1>1. /\ inbox \in Seq(Records) /\ inbox # <<>>
      /\ log' = log /\ sequenceOf' = sequenceOf /\ sequence' = sequence
      /\ consumed' = consumed /\ cursor' = cursor
      /\ inbox' = rest /\ engine' = g
  BY DEF RecordsSound, StoreSound, Ingest
<1>2. /\ id \in Records /\ rest \in Seq(Records)
      /\ SetOf(inbox) = {id} \cup SetOf(rest)
  <2> DEFINE n == Len(inbox)
  <2>1. /\ n \in Nat /\ n # 0 /\ DOMAIN inbox = 1..n /\ rest \in Seq(Records)
        /\ id = inbox[1] /\ id \in Records /\ DOMAIN rest = 1..(n - 1)
        /\ \A i \in 1..(n - 1) : rest[i] = inbox[i + 1]
    BY <1>1
  <2> HIDE DEF n, id, rest
  <2>2. /\ \A i \in 1..n : i = 1 \/ (i - 1 \in 1..(n - 1) /\ (i - 1) + 1 = i)
        /\ \A i \in 1..(n - 1) : i + 1 \in 1..n
        /\ 1 \in 1..n
    BY <2>1
  <2>3. /\ \A x : x \in SetOf(inbox) <=> \E i \in 1..n : x = inbox[i]
        /\ \A x : x \in SetOf(rest) <=> \E i \in 1..(n - 1) : x = rest[i]
    BY <2>1 DEF SetOf
  <2>4. ASSUME NEW x \in SetOf(inbox), x # id PROVE x \in SetOf(rest)
    <3>1. PICK i \in 1..n : x = inbox[i]
      BY <2>3, <2>4
    <3>2. i - 1 \in 1..(n - 1) /\ (i - 1) + 1 = i
      BY <2>1, <2>2, <2>4, <3>1
    <3> QED BY <2>1, <2>3, <3>1, <3>2
  <2>5. SetOf(rest) \subseteq SetOf(inbox) /\ id \in SetOf(inbox)
    BY <2>1, <2>2, <2>3
  <2> QED BY <2>1, <2>4, <2>5
<1>3. EngineSound(engine, {}) /\ Len(engine.parked) <= MaxParked
  BY DEF RecordsSound
<1> HIDE DEF id, rest, g
<1>4. /\ EngineSound(g, {}) /\ Len(g.parked) <= MaxParked
      /\ engine.known \cup engine.seen \subseteq g.known \cup g.seen
      /\ id \in g.known \cup g.seen
      /\ SameBatch(g, engine)
  BY <1>2, <1>3, IngestedSound DEF g
<1>5. NothingSkipped'
  <2>1. NothingSkipped
    BY DEF RecordsSound, StoreSound
  <2> SUFFICES ASSUME NEW x \in SetOf(log), sequenceOf[x] <= cursor
               PROVE  x \in SetOf(rest) \cup g.known \cup g.seen
    BY <1>1 DEF NothingSkipped
  <2>2. x \in SetOf(inbox) \cup engine.known \cup engine.seen
    BY <2>1 DEF NothingSkipped
  <2> QED BY <1>2, <1>4, <2>2
<1>6. LogOrdered'
  BY <1>1 DEF RecordsSound, StoreSound, LogOrdered
<1>7. StoreSound'
  BY <1>1, <1>2, <1>5, <1>6 DEF RecordsSound, StoreSound
<1> QED BY <1>1, <1>4, <1>7 DEF RecordsSound, SameBatch

(* The engine may be exchanged for one that knows as much.                 *)
LEMMA EngineMoves ==
  ASSUME RecordsSound, EngineSound(engine', {}), Len(engine'.parked) <= MaxParked,
         engine'.known = engine.known, engine'.seen = engine.seen,
         log' = log, sequenceOf' = sequenceOf, sequence' = sequence,
         consumed' \subseteq Records, inbox' = inbox, cursor' = cursor
  PROVE  RecordsSound'
<1>1. LogOrdered' /\ NothingSkipped'
  BY DEF RecordsSound, StoreSound, LogOrdered, NothingSkipped
<1>2. StoreSound'
  BY <1>1 DEF RecordsSound, StoreSound
<1> QED BY <1>2 DEF RecordsSound

LEMMA RestartKeeps ==
  ASSUME RecordsSound, Restart, log' = log, sequenceOf' = sequenceOf,
         sequence' = sequence, consumed' = consumed
  PROVE  RecordsSound'
<1>1. /\ log \in Seq(Records) /\ sequence \in 0..MaxSequence
      /\ sequenceOf \in [Records -> 0..MaxSequence] /\ consumed \subseteq Records
      /\ LogOrdered /\ MaxSequence \in Nat
  BY RecordsAssumption DEF RecordsSound, StoreSound
<1>2. engine' = NewEngine /\ inbox' = <<>> /\ cursor' = 0
  BY DEF Restart
<1>3. EngineSound(engine', {}) /\ Len(engine'.parked) <= MaxParked
  BY <1>2, NewEngineSound
<1>4. NothingSkipped'
  <2>1. \A x \in SetOf(log) : ~(sequenceOf[x] <= 0)
    BY <1>1 DEF LogOrdered
  <2> QED BY <1>2, <2>1 DEF NothingSkipped
<1>5. LogOrdered'
  BY <1>1 DEF LogOrdered
<1>6. inbox' \in Seq(Records) /\ cursor' \in 0..sequence'
  BY <1>1, <1>2
<1>7. StoreSound'
  BY <1>1, <1>4, <1>5, <1>6 DEF StoreSound
<1> QED BY <1>3, <1>7 DEF RecordsSound

LEMMA RecordsStart == RecordsInit => RecordsSound
<1> SUFFICES ASSUME RecordsInit PROVE RecordsSound
  OBVIOUS
<1>1. /\ log = <<>> /\ sequenceOf = [id \in Records |-> 0] /\ sequence = 0
      /\ consumed = {} /\ engine = NewEngine /\ inbox = <<>> /\ cursor = 0
      /\ MaxSequence \in Nat
  BY RecordsAssumption DEF RecordsInit
<1>2. EngineSound(engine, {}) /\ Len(engine.parked) <= MaxParked
  BY <1>1, NewEngineSound
<1>3. SetOf(log) = {} /\ DOMAIN log = {}
  BY <1>1 DEF SetOf
<1>4. NothingSkipped
  BY <1>3 DEF NothingSkipped
<1>5. LogOrdered
  BY <1>1, <1>3 DEF LogOrdered
<1>6. /\ log \in Seq(Records) /\ inbox \in Seq(Records)
      /\ sequenceOf \in [Records -> 0..MaxSequence]
      /\ sequence \in 0..MaxSequence /\ cursor \in 0..sequence
      /\ consumed \subseteq Records
  BY <1>1
<1> QED BY <1>2, <1>4, <1>5, <1>6 DEF RecordsSound, StoreSound

(* What is sound is what the runs check.                                   *)
LEMMA RecordsChecked ==
  RecordsSound => RecordsInvariant /\ FeedbackAccounted /\ BatchesSound
<1> SUFFICES ASSUME RecordsSound
             PROVE  RecordsInvariant /\ FeedbackAccounted /\ BatchesSound
  OBVIOUS
<1>1. /\ StoreSound /\ engine \in Engine /\ IndexExact(engine)
      /\ \A r \in SetOf(engine.parked) : Missing(engine, r) # {}
      /\ Accounted(engine) /\ Len(engine.parked) <= MaxParked
      /\ \A r \in SetOf(engine.ready) \cup SetOf(engine.pending) :
           Missing(engine, r) = {}
      /\ Len(engine.pending) <= BatchSize
  BY DEF RecordsSound, EngineSound
<1>2. RecordsInvariant
  BY <1>1 DEF StoreSound, RecordsInvariant, RecordsTypeOK, WaitingExact,
              IndexExact
<1>3. BatchesSound
  <2>1. \A r \in SetOf(engine.ready) \cup SetOf(engine.pending) :
          References[r] \subseteq engine.known
    BY <1>1 DEF Missing
  <2> QED BY <1>1, <2>1 DEF BatchesSound, Sources
<1>4. FeedbackAccounted
  <2> DEFINE a == SetOf(engine.parked)
             b == SetOf(engine.ready)
             c == SetOf(engine.pending)
             d == engine.acknowledged
             f == engine.refused
             places == <<a, b, c, d, f>>
  <2>1. /\ engine.seen = a \cup b \cup c \cup d \cup f
        /\ a \cap b = {} /\ a \cap c = {} /\ a \cap d = {} /\ a \cap f = {}
        /\ b \cap c = {} /\ b \cap d = {} /\ b \cap f = {}
        /\ c \cap d = {} /\ c \cap f = {} /\ d \cap f = {}
    BY <1>1 DEF Accounted
  <2>2. /\ IsInjective(engine.parked) /\ IsInjective(engine.ready)
        /\ IsInjective(engine.pending)
    BY <1>1 DEF Accounted
  <2> HIDE DEF a, b, c, d, f
  <2>3. /\ DOMAIN places = 1..5
        /\ places[1] = a /\ places[2] = b /\ places[3] = c /\ places[4] = d
        /\ places[5] = f
    OBVIOUS
  <2>4. \A i \in 1..5 : i = 1 \/ i = 2 \/ i = 3 \/ i = 4 \/ i = 5
    OBVIOUS
  <2> HIDE DEF places
  <2>5. UNION {places[i] : i \in DOMAIN places} = a \cup b \cup c \cup d \cup f
    <3>1. 1 \in 1..5 /\ 2 \in 1..5 /\ 3 \in 1..5 /\ 4 \in 1..5 /\ 5 \in 1..5
      OBVIOUS
    <3>2. {places[i] : i \in DOMAIN places} = {a, b, c, d, f}
      BY <2>3, <2>4, <3>1
    <3> QED BY <3>2
  <2>6. \A i, j \in DOMAIN places : i # j => places[i] \cap places[j] = {}
    <3> SUFFICES ASSUME NEW i \in 1..5, NEW j \in 1..5, i # j
                 PROVE  places[i] \cap places[j] = {}
      BY <2>3
    <3>1. ASSUME NEW x, x \in places[i], x \in places[j] PROVE FALSE
      BY <2>1, <2>3, <2>4, <3>1
    <3> QED BY <3>1
  <2>7. \A s \in {engine.parked, engine.ready, engine.pending} : IsInjective(s)
    BY <2>2
  <2> QED BY <2>1, <2>5, <2>6, <2>7
          DEF FeedbackAccounted, places, a, b, c, d, f
<1> QED BY <1>2, <1>3, <1>4
-----------------------------------------------------------------------------
(* The trainer: what it consumes is nominated.                             *)
LoopSound ==
  /\ RecordsSound
  /\ nominated \subseteq Reports
  /\ trainer = "nominated" => SetOf(engine.pending) \subseteq nominated
  /\ ConsumedNominated

LEMMA ConsumedTyped ==
  ASSUME nominated \subseteq Reports
  PROVE  Sources(nominated) \subseteq Interactions
BY RecordsAssumption DEF Sources

LEMMA PendingTyped ==
  ASSUME RecordsSound
  PROVE  SetOf(engine.pending) \subseteq Reports
<1>1. engine.pending \in Seq(Reports)
  BY DEF RecordsSound, EngineSound, Engine
<1> QED BY <1>1, SetOfTyped

LEMMA LoopStart == LoopInit => LoopSound
<1> SUFFICES ASSUME LoopInit PROVE LoopSound
  OBVIOUS
<1>1. /\ RecordsInit /\ trainer = "idle" /\ toConsume = {} /\ nominated = {}
      /\ consumed = {}
  BY DEF LoopInit, RecordsInit
<1>2. ConsumedNominated
  BY <1>1 DEF ConsumedNominated
<1> QED BY <1>1, <1>2, RecordsStart DEF LoopSound

LEMMA LoopStep ==
  ASSUME LoopSound, [LoopNext]_vars
  PROVE  LoopSound'
<1>1. /\ RecordsSound /\ nominated \subseteq Reports
      /\ trainer = "nominated" => SetOf(engine.pending) \subseteq nominated
      /\ ConsumedNominated /\ Reports \subseteq Records
  BY DEF LoopSound, Records
<1>2. ASSUME trainer' = trainer, nominated' = nominated,
             toConsume' = toConsume, consumed' = consumed,
             engine'.pending = engine.pending, RecordsSound'
      PROVE  LoopSound'
  BY <1>1, <1>2 DEF LoopSound, ConsumedNominated
<1>3. ASSUME RecordsSound', nominated' \subseteq Reports,
             trainer' # "nominated" \/ SetOf(engine'.pending) \subseteq nominated',
             nominated \subseteq nominated', consumed' = consumed,
             toConsume' \subseteq nominated' \cup Sources(nominated')
      PROVE  LoopSound'
  <2>1. Sources(nominated) \subseteq Sources(nominated')
    BY <1>3 DEF Sources
  <2> QED BY <1>1, <1>3, <2>1 DEF LoopSound, ConsumedNominated
<1>4. /\ toConsume \subseteq nominated \cup Sources(nominated)
      /\ toConsume \subseteq Records
  <2>1. toConsume \subseteq nominated \cup Sources(nominated)
    BY <1>1 DEF ConsumedNominated
  <2> QED BY <1>1, <2>1, ConsumedTyped DEF Records
<1>5. CASE Agents
  <2>1. PICK id \in Records : AppendRecord(id)
    BY <1>5 DEF Agents
  <2>2. /\ trainer' = trainer /\ nominated' = nominated
        /\ toConsume' = toConsume /\ engine' = engine
    BY <1>5, <2>1 DEF Agents, loopVars, AppendRecord
  <2>3. RecordsSound'
    BY <1>1, <2>1, AppendKeeps
  <2>4. \/ consumed' = consumed
        \/ /\ consumed' = consumed \cup {id} /\ id \in Reports
           /\ References[id] \subseteq consumed
    BY <2>1 DEF AppendRecord
  <2>5. ConsumedNominated'
    <3>1. CASE consumed' = consumed
      BY <1>1, <2>2, <3>1 DEF ConsumedNominated
    <3>2. CASE /\ consumed' = consumed \cup {id} /\ id \in Reports
               /\ References[id] \subseteq consumed
      <4>1. id \notin Interactions
        BY <3>2, RecordsAssumption
      <4> QED BY <1>1, <2>2, <3>2, <4>1 DEF ConsumedNominated
    <3> QED BY <2>4, <3>1, <3>2
  <2> QED BY <1>1, <2>2, <2>3, <2>5 DEF LoopSound
<1>6. CASE Reads
  <2>1. /\ trainer' = trainer /\ nominated' = nominated
        /\ toConsume' = toConsume /\ (Page \/ Ingest)
    BY <1>6 DEF Reads, loopVars
  <2>2. CASE Page
    <3>1. engine' = engine /\ consumed' = consumed
      BY <2>2 DEF Page
    <3> QED BY <1>1, <1>2, <2>1, <2>2, <3>1, PageKeeps
  <2>3. CASE Ingest
    <3>1. consumed' = consumed
      BY <2>3 DEF Ingest
    <3> QED BY <1>1, <1>2, <2>1, <2>3, <3>1, IngestKeeps
  <2> QED BY <2>1, <2>2, <2>3
<1>7. CASE Build
  <2> DEFINE g == BuiltBatch(engine)
  <2>1. /\ engine' = g /\ trainer' # "nominated" /\ nominated' = nominated
        /\ toConsume' = toConsume /\ consumed' = consumed
        /\ log' = log /\ sequenceOf' = sequenceOf /\ sequence' = sequence
        /\ inbox' = inbox /\ cursor' = cursor
    BY <1>7 DEF Build
  <2>2. /\ EngineSound(g, {}) /\ Len(g.parked) <= MaxParked
        /\ g.known = engine.known /\ g.seen = engine.seen
    BY <1>1, BuiltSound DEF RecordsSound
  <2> HIDE DEF g
  <2>3. RecordsSound'
    <3>1. consumed' \subseteq Records
      BY <1>1, <2>1 DEF RecordsSound, StoreSound
    <3> QED BY <1>1, <2>1, <2>2, <3>1, EngineMoves
  <2> QED BY <1>1, <1>3, <1>4, <2>1, <2>3
<1>8. CASE Evolve \/ EvolveRejects \/ NominateAborted
  <2>1. /\ trainer' # "nominated" /\ UNCHANGED recordVars
        /\ toConsume' = toConsume /\ nominated' = nominated
    BY <1>8 DEF Evolve, EvolveRejects, NominateAborted
  <2>2. RecordsSound' /\ consumed' = consumed
    BY <1>1, <2>1 DEF recordVars, RecordsSound, StoreSound, LogOrdered,
                      NothingSkipped
  <2> QED BY <1>1, <1>3, <1>4, <2>1, <2>2
<1>9. CASE Nominate
  <2>1. /\ UNCHANGED recordVars /\ toConsume' = toConsume
        /\ \/ trainer' = "nominated"
              /\ nominated' = nominated \cup SetOf(engine.pending)
           \/ trainer' = "idle" /\ nominated' = nominated
    BY <1>9 DEF Nominate
  <2>2. RecordsSound' /\ consumed' = consumed /\ engine' = engine
    BY <1>1, <2>1 DEF recordVars, RecordsSound, StoreSound, LogOrdered,
                      NothingSkipped
  <2>3. /\ nominated \subseteq nominated' /\ nominated' \subseteq Reports
        /\ trainer' # "nominated" \/ SetOf(engine'.pending) \subseteq nominated'
    BY <1>1, <2>1, <2>2, PendingTyped
  <2>4. toConsume' \subseteq nominated' \cup Sources(nominated')
    BY <1>4, <2>1, <2>3 DEF Sources
  <2> QED BY <1>3, <2>2, <2>3, <2>4
<1>10. CASE Acknowledge
  <2> DEFINE g == Acknowledged(engine)
             batch == SetOf(engine.pending)
  <2>1. /\ engine' = g /\ trainer = "nominated" /\ trainer' # "nominated"
        /\ nominated' = nominated /\ toConsume' = Sources(batch) \cup batch
        /\ consumed' = consumed
        /\ log' = log /\ sequenceOf' = sequenceOf /\ sequence' = sequence
        /\ inbox' = inbox /\ cursor' = cursor
    BY <1>10 DEF Acknowledge
  <2>2. /\ EngineSound(g, {}) /\ Len(g.parked) <= MaxParked
        /\ g.known = engine.known /\ g.seen = engine.seen
    BY <1>1, AcknowledgedSound DEF RecordsSound
  <2> HIDE DEF g
  <2>3. RecordsSound'
    <3>1. consumed' \subseteq Records
      BY <1>1, <2>1 DEF RecordsSound, StoreSound
    <3> QED BY <1>1, <2>1, <2>2, <3>1, EngineMoves
  <2>4. toConsume' \subseteq nominated' \cup Sources(nominated')
    <3>1. batch \subseteq nominated
      BY <1>1, <2>1
    <3> QED BY <2>1, <3>1 DEF Sources
  <2> QED BY <1>1, <1>3, <2>1, <2>3, <2>4
<1>11. CASE MarkConsumed
  <2>1. /\ trainer' # "nominated" /\ consumed' = consumed \cup toConsume
        /\ toConsume' = {} /\ nominated' = nominated /\ engine' = engine
        /\ log' = log /\ sequenceOf' = sequenceOf /\ sequence' = sequence
        /\ inbox' = inbox /\ cursor' = cursor
    BY <1>11 DEF MarkConsumed
  <2>2. RecordsSound'
    <3>1. consumed' \subseteq Records
      BY <1>1, <1>4, <2>1 DEF RecordsSound, StoreSound
    <3>2. EngineSound(engine', {}) /\ Len(engine'.parked) <= MaxParked
      BY <1>1, <2>1 DEF RecordsSound
    <3> QED BY <1>1, <2>1, <3>1, <3>2, EngineMoves
  <2>3. ConsumedNominated'
    <3>1. /\ Sources(nominated) \subseteq Interactions
          /\ Interactions \cap Reports = {}
      BY <1>1, ConsumedTyped, RecordsAssumption
    <3> QED BY <1>1, <1>4, <2>1, <3>1 DEF ConsumedNominated
  <2> QED BY <1>1, <2>1, <2>2, <2>3 DEF LoopSound
<1>12. CASE TrainerCrash
  <2>1. /\ Restart /\ trainer' # "nominated" /\ toConsume' = {}
        /\ log' = log /\ sequenceOf' = sequenceOf /\ sequence' = sequence
        /\ consumed' = consumed /\ nominated' = nominated
    BY <1>12 DEF TrainerCrash
  <2>2. RecordsSound'
    BY <1>1, <2>1, RestartKeeps
  <2> QED BY <1>1, <1>3, <2>1, <2>2
<1>13. CASE Hosts \/ UNCHANGED vars
  <2>1. UNCHANGED recordVars /\ UNCHANGED loopVars
    BY <1>13 DEF Hosts, vars
  <2>2. RecordsSound' /\ consumed' = consumed /\ engine' = engine
    BY <1>1, <2>1 DEF recordVars, RecordsSound, StoreSound, LogOrdered,
                      NothingSkipped
  <2> QED BY <1>2, <2>1, <2>2 DEF loopVars
<1> QED BY <1>5, <1>6, <1>7, <1>8, <1>9, <1>10, <1>11, <1>12, <1>13
        DEF LoopNext

LEMMA LoopAlways == LoopSpec => []LoopSound
<1>1. LoopSound /\ [LoopNext]_vars => LoopSound'
  BY LoopStep
<1> QED BY <1>1, LoopStart, PTL DEF LoopSpec

(* The store's log, the reader's cursor and the engine's index agree, for  *)
(* any records, however reports and interactions arrive, are evicted or    *)
(* are consumed, and wherever the trainer's process ends.                  *)
THEOREM LoopRecords == LoopSpec => []RecordsInvariant
<1>1. LoopSound => RecordsInvariant
  BY RecordsChecked DEF LoopSound
<1> QED BY <1>1, LoopAlways, PTL

(* No feedback is lost by the engine, and none is in two places.           *)
THEOREM LoopFeedback == LoopSpec => []FeedbackAccounted
<1>1. LoopSound => FeedbackAccounted
  BY RecordsChecked DEF LoopSound
<1> QED BY <1>1, LoopAlways, PTL

(* No batch is larger than it may be, whatever groups it admitted, and     *)
(* none lacks a sample.                                                    *)
THEOREM LoopBatches == LoopSpec => []BatchesSound
<1>1. LoopSound => BatchesSound
  BY RecordsChecked DEF LoopSound
<1> QED BY <1>1, LoopAlways, PTL

(* Nothing is consumed that is not the evidence of a nomination.           *)
THEOREM LoopConsumes == LoopSpec => []ConsumedNominated
<1>1. LoopSound => ConsumedNominated
  BY DEF LoopSound
<1> QED BY <1>1, LoopAlways, PTL
=============================================================================
