---------------------- MODULE EventContinuations_proofs ----------------------
(***************************************************************************)
(* Theorems about EventContinuations, for any workers, deliveries, limits  *)
(* and faults: the key index agrees with the open continuations, the       *)
(* admissions with the delivery records, a continuation is consumed by one *)
(* delivery only, and what ends well leaves none open.  Where dead letters *)
(* that are redriven are removed, a verifier chain is one line of work.    *)
(*                                                                         *)
(* Inv is the inductive invariant.  Its core is that the id of a           *)
(* continuation is never reused: a task's id carries the token of a claim, *)
(* which one worker holds and which only grows (TasksOld, OneHolder), and  *)
(* a verifier's id names a delivery that exists (VerifiersExist).  So what *)
(* was closed stays closed, and whoever was admitted to it keeps it alone. *)
(* WorkInv adds the shape of the chains, and what pays for the tokens.     *)
(***************************************************************************)
EXTENDS EventContinuations, FiniteSetTheorems, TLAPS

-----------------------------------------------------------------------------
(* The invariant. *)

Statuses == Live \cup Ended \cup {"absent"}
Possible == [kind : {"task", "verifier"}, by : Links, run : Nat]
Record == [status : Statuses, token : Nat, attempt : Nat, lease : BOOLEAN,
           recovered : BOOLEAN, admitted : Possible \cup {None},
           run : RunStatus]
LinkOrNone == Links \cup {<<>>}
Place == [pc : Steps, delivery : LinkOrNone, token : Nat, tries : Nat]

(* Types, without the bounds that faults and attempts put on the tokens.   *)
StoreShape ==
  /\ deliveries \in [Links -> Record]
  /\ open \subseteq Possible
  /\ keys \in [Keys -> Possible \cup {None}]
  /\ admissions \subseteq Possible \X Links
  /\ consumers \subseteq Possible \X Links

(* Only a link that is not the last of its chain commits to a next one.    *)
WorkerShape ==
  /\ workers \in [Workers -> Place]
  /\ \A w \in Workers :
       workers[w].pc # "idle" =>
         /\ Mine(w) \in Links
         /\ workers[w].pc \in {"committing", "confirming"}
              => Child(Mine(w)) \in Links
         /\ workers[w].token <= deliveries[Mine(w)].token

(* The steps of a run up to its registration.                              *)
Early == {"claimed", "invoking", "target", "registering"}

(* A continuation that is open, or was when a delivery was admitted to it. *)
Seen(c) == c \in open \/ \E d \in Links : deliveries[d].admitted = c

OneHolder ==
  \A v, w \in Workers :
    /\ workers[v].pc # "idle" /\ workers[w].pc # "idle"
    /\ Mine(v) = Mine(w) /\ workers[v].token = workers[w].token
    => v = w

TasksOld ==
  \A d \in Links, token \in Nat :
    Seen(Task(d, token)) =>
      /\ token <= deliveries[d].token
      /\ \A w \in Workers :
           workers[w].pc \in Early /\ Mine(w) = d => workers[w].token # token

VerifiersExist ==
  \A d \in Links : Seen(Verifier(d)) => deliveries[d].status # "absent"

AbsentFresh ==
  \A d \in Links :
    deliveries[d].status = "absent"
      => deliveries[d].admitted = None /\ deliveries[d].token = 0

AdmittedAlone ==
  \A d, e \in Links :
    deliveries[d].admitted # None /\ deliveries[d].admitted = deliveries[e].admitted
      => d = e

ConsumersAdmitted ==
  \A a \in consumers : deliveries[a[2]].admitted = a[1]

Inv ==
  /\ StoreShape /\ WorkerShape
  /\ KeysAgree /\ AdmissionsAgree
  /\ OneHolder /\ TasksOld /\ VerifiersExist
  /\ AbsentFresh /\ AdmittedAlone /\ ConsumersAdmitted

-----------------------------------------------------------------------------
(* Continuations and links. *)

LEMMA NoneIsNot == None \notin Possible
BY DEF None, Possible

LEMMA TaskIs ==
  ASSUME NEW d \in Links, NEW token \in Nat
  PROVE  /\ Task(d, token) \in Possible /\ KeyOf(Task(d, token)) = TaskKey
         /\ \A e \in Links : Task(d, token) # Verifier(e)
         /\ \A e \in Links, t \in Nat :
              Task(d, token) = Task(e, t) => d = e /\ token = t
BY DEF Task, Verifier, Possible, KeyOf

LEMMA VerifierIs ==
  ASSUME NEW d \in Links
  PROVE  /\ Verifier(d) \in Possible /\ KeyOf(Verifier(d)) = d
         /\ \A e \in Links : Verifier(d) = Verifier(e) => d = e
BY DEF Verifier, Possible, KeyOf

LEMMA KeyIs == \A c \in Possible : KeyOf(c) \in Keys
BY DEF Possible, KeyOf, Keys

LEMMA ChildIs == \A d \in Links : Child(d) # d
BY BoundsAssumption DEF Links, Child

LEMMA CorrelationIs == \A d \in Links : CorrelationOf(d) \in Keys
BY DEF CorrelationOf, Keys

LEMMA FreshIs ==
  /\ Fresh("queued") \in Record /\ Fresh("absent") \in Record
  /\ Fresh("queued").admitted = None /\ Fresh("absent").admitted = None
  /\ Fresh("queued").token = 0 /\ Fresh("absent").token = 0
  /\ Fresh("queued").status = "queued" /\ Fresh("absent").status = "absent"
BY DEF Fresh, Record, Statuses, Live, RunStatus

-----------------------------------------------------------------------------
(* Steps that open nothing and admit nothing. *)

(* Every delivery keeps what it was admitted to; tokens only grow.         *)
SameDeliveries ==
  /\ deliveries' \in [Links -> Record]
  /\ \A d \in Links :
       /\ deliveries'[d].admitted = deliveries[d].admitted
       /\ deliveries[d].token <= deliveries'[d].token
       /\ deliveries'[d].status = "absent" => deliveries'[d] = deliveries[d]

(* No worker takes a claim or goes back to before its registration.        *)
WorkersStay ==
  \A w \in Workers :
    workers'[w].pc # "idle" =>
      /\ workers[w].pc # "idle"
      /\ Mine(w)' = Mine(w) /\ workers'[w].token = workers[w].token
      /\ workers'[w].pc \in Early => workers[w].pc \in Early

LEMMA OwnStep ==
  ASSUME Inv, SameDeliveries, WorkersStay
  PROVE  OneHolder' /\ AbsentFresh' /\ AdmittedAlone'
<1>1. OneHolder'
  BY DEF OneHolder, WorkersStay, Inv
<1>2. AbsentFresh'
  BY DEF AbsentFresh, SameDeliveries, Inv
<1>3. AdmittedAlone'
  BY DEF AdmittedAlone, SameDeliveries, Inv
<1> QED
  BY <1>1, <1>2, <1>3

(* What was registered before is still older than every early run.         *)
LEMMA OldTask ==
  ASSUME Inv, SameDeliveries, WorkersStay,
         NEW d \in Links, NEW token \in Nat, Seen(Task(d, token))
  PROVE  /\ token <= deliveries'[d].token
         /\ \A w \in Workers :
              workers'[w].pc \in Early /\ Mine(w)' = d => workers'[w].token # token
<1>1. /\ token <= deliveries[d].token
      /\ \A w \in Workers :
           workers[w].pc \in Early /\ Mine(w) = d => workers[w].token # token
  BY DEF TasksOld, Inv
<1>2. deliveries[d].token \in Nat /\ deliveries'[d].token \in Nat
  BY DEF SameDeliveries, Inv, StoreShape, Record
<1>3. token <= deliveries'[d].token
  BY <1>1, <1>2 DEF SameDeliveries
<1> QED
  BY <1>1, <1>3 DEF WorkersStay, Early

LEMMA RestStep ==
  ASSUME Inv, SameDeliveries, WorkersStay, open' \subseteq open
  PROVE  /\ OneHolder' /\ TasksOld' /\ VerifiersExist'
         /\ AbsentFresh' /\ AdmittedAlone'
<1>1. ASSUME NEW c, Seen(c)' PROVE Seen(c)
  BY <1>1 DEF Seen, SameDeliveries
<1>2. TasksOld'
  BY <1>1, OldTask DEF TasksOld, Task
<1>3. VerifiersExist'
  BY <1>1 DEF VerifiersExist, SameDeliveries, Inv, Verifier
<1> QED
  BY <1>2, <1>3, OwnStep

LEMMA QuietStep ==
  ASSUME Inv, SameDeliveries, WorkersStay, WorkerShape',
         UNCHANGED <<open, keys, admissions, consumers>>
  PROVE  Inv'
<1>1. StoreShape'
  BY DEF Inv, StoreShape, SameDeliveries
<1>2. KeysAgree' /\ AdmissionsAgree' /\ ConsumersAdmitted'
  <2>1. KeysAgree'
    BY DEF Inv, KeysAgree, KeyOf
  <2>2. AdmissionsAgree'
    BY DEF Inv, AdmissionsAgree, SameDeliveries
  <2>3. ConsumersAdmitted'
    BY DEF Inv, ConsumersAdmitted, SameDeliveries, StoreShape
  <2> QED
    BY <2>1, <2>2, <2>3
<1> QED
  BY <1>1, <1>2, RestStep DEF Inv

(* Closing a continuation, perhaps with a delivery that was admitted to it. *)
LEMMA CloseStep ==
  ASSUME Inv, SameDeliveries, WorkersStay, WorkerShape',
         NEW c \in Possible,
         open' = open \ {c},
         keys' = [k \in Keys |-> IF keys[k] = c THEN None ELSE keys[k]],
         admissions' = {a \in admissions : a[1] # c},
         NEW d \in Links,
         \/ consumers' = consumers
         \/ /\ deliveries[d].admitted = c
            /\ consumers' = consumers \cup {<<c, d>>}
  PROVE  Inv'
<1>1. StoreShape'
  BY DEF Inv, StoreShape, SameDeliveries
<1>2. KeysAgree'
  BY NoneIsNot, KeyIs DEF Inv, StoreShape, KeysAgree
<1>3. AdmissionsAgree'
  BY DEF Inv, StoreShape, AdmissionsAgree, SameDeliveries
<1>4. ConsumersAdmitted'
  BY DEF Inv, ConsumersAdmitted, SameDeliveries, StoreShape
<1> QED
  BY <1>1, <1>2, <1>3, <1>4, RestStep DEF Inv

-----------------------------------------------------------------------------
(* How workers move. *)

TokensGrow ==
  \A d \in Links :
    /\ deliveries'[d].token \in Nat
    /\ deliveries[d].token <= deliveries'[d].token

LEMMA SameTokensGrow == SameDeliveries => TokensGrow
BY DEF SameDeliveries, TokensGrow, Record

LEMMA SamePlaces ==
  ASSUME Inv, TokensGrow, UNCHANGED workers
  PROVE  WorkersStay /\ WorkerShape'
<1>1. WorkersStay
  BY DEF WorkersStay, Mine
<1>2. WorkerShape'
  BY DEF Inv, WorkerShape, StoreShape, Record, Place, TokensGrow, Mine, Child
<1> QED
  BY <1>1, <1>2

LEMMA MovedStays ==
  ASSUME Inv, TokensGrow, NEW w \in Workers, workers[w].pc # "idle",
         NEW place \in Place, workers' = [workers EXCEPT ![w] = place],
         place.pc # "idle" =>
           /\ place.delivery = Mine(w) /\ place.token = workers[w].token
           /\ place.pc \in Early => workers[w].pc \in Early
           /\ place.pc \in {"committing", "confirming"} => Child(Mine(w)) \in Links
  PROVE  WorkersStay /\ WorkerShape'
<1>1. workers' \in [Workers -> Place]
  BY DEF Inv, WorkerShape
<1>2. /\ workers'[w] = place
      /\ \A v \in Workers \ {w} : workers'[v] = workers[v]
  BY DEF Inv, WorkerShape
<1>3. WorkersStay
  BY <1>2 DEF WorkersStay, Mine
<1>4. ASSUME NEW v \in Workers, workers'[v].pc # "idle"
      PROVE  /\ workers'[v].delivery \in Links
             /\ workers'[v].pc \in {"committing", "confirming"}
                  => Child(workers'[v].delivery) \in Links
             /\ workers'[v].token <= deliveries'[workers'[v].delivery].token
  <2>1. /\ workers'[v].delivery = workers[v].delivery
        /\ workers'[v].token = workers[v].token /\ workers[v].pc # "idle"
    BY <1>3, <1>4 DEF WorkersStay, Mine
  <2>2. /\ workers[v].delivery \in Links /\ workers[v].token \in Nat
        /\ workers[v].token <= deliveries[workers[v].delivery].token
        /\ workers[v].pc \in {"committing", "confirming"}
             => Child(workers[v].delivery) \in Links
    BY <2>1 DEF Inv, WorkerShape, Mine, Place
  <2>3. deliveries[workers[v].delivery].token \in Nat
    BY <2>2 DEF Inv, StoreShape, Record
  <2>4. workers'[v].token <= deliveries'[workers'[v].delivery].token
    BY <2>1, <2>2, <2>3 DEF TokensGrow
  <2>5. workers'[v].pc \in {"committing", "confirming"}
          => Child(workers'[v].delivery) \in Links
    BY <1>2, <2>1, <2>2 DEF Mine
  <2> QED
    BY <2>1, <2>2, <2>4, <2>5
<1>5. WorkerShape'
  BY <1>1, <1>4 DEF WorkerShape, Mine, Child
<1> QED
  BY <1>3, <1>5

LEMMA IdleIs == Idle \in Place /\ Idle.pc = "idle"
BY DEF Idle, Place, Steps, LinkOrNone

LEMMA LeaveStays ==
  ASSUME Inv, TokensGrow, NEW w \in Workers, workers[w].pc # "idle", Leave(w)
  PROVE  WorkersStay /\ WorkerShape'
BY MovedStays, IdleIs DEF Leave

LEMMA GotoStays ==
  ASSUME Inv, TokensGrow, NEW w \in Workers, workers[w].pc # "idle",
         NEW step \in Steps \ {"idle"}, Goto(w, step),
         step \in Early => workers[w].pc \in Early,
         step \in {"committing", "confirming"} => Child(Mine(w)) \in Links
  PROVE  WorkersStay /\ WorkerShape'
<1> DEFINE place == [workers[w] EXCEPT !.pc = step]
<1>1. place \in Place /\ place.pc = step
      /\ place.delivery = Mine(w) /\ place.token = workers[w].token
  BY DEF Inv, WorkerShape, Place, Mine
<1>2. workers' = [workers EXCEPT ![w] = place]
  BY DEF Goto
<1> HIDE DEF place
<1> QED
  BY <1>1, <1>2, MovedStays

LEMMA TriedIs ==
  ASSUME NEW place \in Place
  PROVE  LET tried == [place EXCEPT !.pc = "confirming", !.tries = @ + 1]
         IN  /\ tried \in Place /\ tried.pc = "confirming"
             /\ tried.delivery = place.delivery /\ tried.token = place.token
<1>1. "confirming" \in Steps
  BY DEF Steps
<1>2. place.tries + 1 \in Nat
  BY DEF Place
<1>3. \A tries \in Nat :
        LET tried == [place EXCEPT !.pc = "confirming", !.tries = tries]
        IN  /\ tried \in Place /\ tried.pc = "confirming"
            /\ tried.delivery = place.delivery /\ tried.token = place.token
  BY <1>1 DEF Place
<1> QED
  BY <1>2, <1>3

LEMMA TriedStays ==
  ASSUME Inv, TokensGrow, NEW w \in Workers, workers[w].pc = "committing", Tried(w)
  PROVE  WorkersStay /\ WorkerShape'
<1> DEFINE place == [workers[w] EXCEPT !.pc = "confirming", !.tries = @ + 1]
<1>1. /\ place \in Place /\ place.pc = "confirming"
      /\ place.delivery = Mine(w) /\ place.token = workers[w].token
  <2>1. workers[w] \in Place
    BY DEF Inv, WorkerShape
  <2> QED
    BY <2>1, TriedIs DEF Mine
<1>2. workers' = [workers EXCEPT ![w] = place]
  BY DEF Tried
<1>3. Child(Mine(w)) \in Links
  BY DEF Inv, WorkerShape
<1>4. "confirming" \notin Early
  BY DEF Early
<1> HIDE DEF place
<1> QED
  BY <1>1, <1>2, <1>3, <1>4, MovedStays

-----------------------------------------------------------------------------
(* Steps that open a continuation. *)

(* A new continuation n takes a free key, while c, if there is one, closes. *)
LEMMA OpenStep ==
  ASSUME Inv, SameDeliveries, WorkersStay, WorkerShape',
         NEW n \in Possible, ~Seen(n), keys[KeyOf(n)] = None,
         NEW c \in open \cup {None}, NEW d \in Links,
         open' = (open \ {c}) \cup {n},
         keys' = [k \in Keys |->
           IF k = KeyOf(n) THEN n
           ELSE IF c # None /\ k = KeyOf(c) THEN None ELSE keys[k]],
         admissions' = {a \in admissions : a[1] # c},
         \/ consumers' = consumers
         \/ /\ c # None /\ deliveries[d].admitted = c
            /\ consumers' = consumers \cup {<<c, d>>}
  PROVE  /\ StoreShape' /\ KeysAgree' /\ AdmissionsAgree' /\ ConsumersAdmitted'
         /\ OneHolder' /\ AbsentFresh' /\ AdmittedAlone'
         /\ \A x : Seen(x)' => Seen(x) \/ x = n
<1>1. n \notin open /\ \A e \in Links : deliveries[e].admitted # n
  BY DEF Seen
<1>2. StoreShape'
  BY NoneIsNot DEF Inv, StoreShape, SameDeliveries
<1>3. KeysAgree'
  <2>1. ASSUME NEW o \in open' PROVE keys'[KeyOf(o)] = o
    <3>1. KeyOf(o) \in Keys /\ o \in Possible
      BY <1>2, KeyIs DEF StoreShape
    <3>2. CASE o = n
      BY <3>1, <3>2
    <3>3. CASE o # n
      <4>1. o \in open /\ o # c /\ keys[KeyOf(o)] = o /\ o # None
        BY <3>1, <3>3, NoneIsNot DEF Inv, KeysAgree
      <4>2. KeyOf(o) # KeyOf(n)
        BY <4>1
      <4>3. c # None => KeyOf(o) # KeyOf(c)
        BY <4>1 DEF Inv, KeysAgree
      <4> QED
        BY <3>1, <4>1, <4>2, <4>3
    <3> QED
      BY <3>2, <3>3
  <2>2. ASSUME NEW k \in Keys, keys'[k] # None
        PROVE  keys'[k] \in open' /\ KeyOf(keys'[k]) = k
    <3>1. CASE k = KeyOf(n)
      BY <3>1
    <3>2. CASE k # KeyOf(n)
      <4>1. keys'[k] = keys[k] /\ keys[k] # None /\ (c # None => k # KeyOf(c))
        BY <2>2, <3>2
      <4>2. keys[k] \in open /\ KeyOf(keys[k]) = k
        BY <4>1 DEF Inv, KeysAgree
      <4> QED
        BY <4>1, <4>2
    <3> QED
      BY <3>1, <3>2
  <2> QED
    BY <2>1, <2>2 DEF KeysAgree, KeyOf
<1>4. AdmissionsAgree'
  BY <1>1 DEF Inv, StoreShape, AdmissionsAgree, SameDeliveries
<1>5. ConsumersAdmitted'
  BY NoneIsNot DEF Inv, ConsumersAdmitted, SameDeliveries, StoreShape
<1>6. \A x : Seen(x)' => Seen(x) \/ x = n
  BY DEF Seen, SameDeliveries
<1> QED
  BY <1>2, <1>3, <1>4, <1>5, <1>6, OwnStep

-----------------------------------------------------------------------------
(* How deliveries change. *)

LEMMA UnchangedSame == ASSUME Inv, UNCHANGED deliveries PROVE SameDeliveries
BY DEF Inv, StoreShape, Record, SameDeliveries

LEMMA UpdatedSame ==
  ASSUME Inv, NEW d \in Links, NEW r \in Record,
         deliveries' = [deliveries EXCEPT ![d] = r],
         r.admitted = deliveries[d].admitted,
         deliveries[d].token <= r.token, r.status # "absent"
  PROVE  SameDeliveries
BY DEF Inv, StoreShape, Record, SameDeliveries

LEMMA SavedIs ==
  ASSUME NEW r \in Record, NEW status \in Statuses, NEW run \in RunStatus
  PROVE  LET saved == [r EXCEPT !.status = status, !.run = run]
         IN  /\ saved \in Record /\ saved.status = status
             /\ saved.admitted = r.admitted /\ saved.token = r.token
BY DEF Record

(* A queued, active or ended delivery whose status and run are saved.      *)
LEMMA SavedSame ==
  ASSUME Inv, NEW d \in Links, NEW status \in Statuses, status # "absent",
         NEW run \in RunStatus,
         deliveries' = [deliveries EXCEPT ![d].status = status, ![d].run = run]
  PROVE  SameDeliveries
<1>1. PICK old \in Record : old = deliveries[d]
  BY DEF Inv, StoreShape
<1> DEFINE r == [old EXCEPT !.status = status, !.run = run]
<1>2. /\ r \in Record /\ r.status = status
      /\ r.admitted = old.admitted /\ r.token = old.token
  BY SavedIs
<1>3. deliveries' = [deliveries EXCEPT ![d] = r]
  BY <1>1 DEF Inv, StoreShape
<1>4. old.token \in Nat
  BY DEF Record
<1> HIDE DEF r
<1>5. deliveries[d].token <= r.token /\ r.admitted = deliveries[d].admitted
  BY <1>1, <1>2, <1>4
<1> QED
  BY <1>2, <1>3, <1>5, UpdatedSame

LEMMA SaveStatusSame ==
  ASSUME Inv, NEW w \in Workers, workers[w].pc # "idle",
         NEW status \in Statuses, status # "absent", NEW run \in RunStatus,
         SaveStatus(w, status, run)
  PROVE  SameDeliveries
BY SavedSame DEF SaveStatus, Inv, WorkerShape

LEMMA DeadLetterSame ==
  ASSUME Inv, NEW w \in Workers, workers[w].pc # "idle", DeadLetter(w)
  PROVE  SameDeliveries
<1>1. Mine(w) \in Links
  BY DEF Inv, WorkerShape
<1> DEFINE r == [deliveries[Mine(w)] EXCEPT !.status = "dead_lettered"]
<1>2. deliveries[Mine(w)] \in Record /\ "dead_lettered" \in Statuses
  BY <1>1 DEF Inv, StoreShape, Statuses, Ended
<1>3. /\ r \in Record /\ r.admitted = deliveries[Mine(w)].admitted
      /\ deliveries[Mine(w)].token <= r.token /\ r.status # "absent"
  BY <1>2 DEF Record
<1>4. deliveries' = [deliveries EXCEPT ![Mine(w)] = r]
  BY DEF DeadLetter
<1> HIDE DEF r
<1> QED
  BY <1>1, <1>3, <1>4, UpdatedSame

LEMMA RecordNumbers ==
  ASSUME NEW r \in Record
  PROVE  /\ r.token \in Nat /\ r.token + 1 \in Nat /\ r.token <= r.token + 1
         /\ r.attempt + 1 \in Nat
BY DEF Record

LEMMA NamedStatuses ==
  /\ Live \subseteq Statuses /\ Active \subseteq Live /\ Ended \subseteq Statuses
  /\ "queued" \in Live /\ "claimed" \in Active /\ "running" \in Active
  /\ "absent" \notin Live /\ "absent" \notin Ended
  /\ {"none", "running", "waiting_event", "finalizing", "failed"} = RunStatus
  /\ {"succeeded", "waiting_event", "verification_failed", "cancelled",
      "dead_lettered"} = Ended
BY DEF Statuses, Live, Active, Ended, RunStatus

LEMMA ReleasedSame ==
  ASSUME Inv, NEW d \in Links, deliveries[d].status # "absent",
         deliveries' = [deliveries EXCEPT ![d].lease = FALSE]
  PROVE  SameDeliveries
<1>1. PICK old \in Record : old = deliveries[d]
  BY DEF Inv, StoreShape
<1> DEFINE r == [old EXCEPT !.lease = FALSE]
<1>2. /\ r \in Record /\ r.status = old.status
      /\ r.admitted = old.admitted /\ r.token = old.token
  BY DEF Record
<1>3. deliveries' = [deliveries EXCEPT ![d] = r]
  BY <1>1
<1> HIDE DEF r
<1>4. deliveries[d].token <= r.token /\ r.admitted = deliveries[d].admitted
      /\ r.status # "absent"
  BY <1>1, <1>2, RecordNumbers
<1> QED
  BY <1>2, <1>3, <1>4, UpdatedSame

LEMMA RedrivenSame ==
  ASSUME Inv, NEW d \in Links,
         deliveries' = [deliveries EXCEPT
           ![d].status = "queued", ![d].token = @ + 1, ![d].attempt = 0,
           ![d].lease = FALSE, ![d].run = "none"]
  PROVE  SameDeliveries
<1>1. PICK old \in Record : old = deliveries[d]
  BY DEF Inv, StoreShape
<1>2. PICK token \in Nat : token = old.token + 1
  BY RecordNumbers
<1> DEFINE r == [old EXCEPT !.status = "queued", !.token = token, !.attempt = 0,
                            !.lease = FALSE, !.run = "none"]
<1>3. /\ r \in Record /\ r.status = "queued"
      /\ r.admitted = old.admitted /\ r.token = token
  BY NamedStatuses DEF Record
<1>4. deliveries' = [deliveries EXCEPT ![d] = r]
  BY <1>1, <1>2 DEF Inv, StoreShape, Record
<1> HIDE DEF r
<1>5. deliveries[d].token <= r.token /\ r.admitted = deliveries[d].admitted
      /\ r.status # "absent"
  BY <1>1, <1>2, <1>3, RecordNumbers
<1> QED
  BY <1>3, <1>4, <1>5, UpdatedSame

LEMMA InvokedSame ==
  ASSUME Inv, NEW d \in Links,
         deliveries' = [deliveries EXCEPT
           ![d].status = "running", ![d].attempt = @ + 1, ![d].run = "running"]
  PROVE  SameDeliveries
<1>1. PICK old \in Record : old = deliveries[d]
  BY DEF Inv, StoreShape
<1>2. PICK attempt \in Nat : attempt = old.attempt + 1
  BY RecordNumbers
<1> DEFINE r == [old EXCEPT !.status = "running", !.attempt = attempt,
                            !.run = "running"]
<1>3. /\ r \in Record /\ r.status = "running"
      /\ r.admitted = old.admitted /\ r.token = old.token
  BY NamedStatuses DEF Record
<1>4. deliveries' = [deliveries EXCEPT ![d] = r]
  BY <1>1, <1>2 DEF Inv, StoreShape, Record
<1> HIDE DEF r
<1>5. deliveries[d].token <= r.token /\ r.admitted = deliveries[d].admitted
      /\ r.status # "absent"
  BY <1>1, <1>3, RecordNumbers
<1> QED
  BY <1>3, <1>4, <1>5, UpdatedSame

LEMMA FinalizingSame ==
  ASSUME Inv, NEW d \in Links, deliveries[d].status # "absent",
         deliveries' = [deliveries EXCEPT ![d].run = "finalizing"]
  PROVE  SameDeliveries
<1>1. PICK old \in Record : old = deliveries[d]
  BY DEF Inv, StoreShape
<1> DEFINE r == [old EXCEPT !.run = "finalizing"]
<1>2. /\ r \in Record /\ r.status = old.status
      /\ r.admitted = old.admitted /\ r.token = old.token
  BY NamedStatuses DEF Record
<1>3. deliveries' = [deliveries EXCEPT ![d] = r]
  BY <1>1
<1> HIDE DEF r
<1>4. deliveries[d].token <= r.token /\ r.admitted = deliveries[d].admitted
      /\ r.status # "absent"
  BY <1>1, <1>2, RecordNumbers
<1> QED
  BY <1>2, <1>3, <1>4, UpdatedSame

LEMMA PublishedSame ==
  ASSUME Inv, NEW d \in Links, deliveries[d].status = "absent",
         deliveries' = [deliveries EXCEPT ![d] = Fresh("queued")]
  PROVE  SameDeliveries
<1>1. deliveries[d].admitted = None /\ deliveries[d].token = 0
  BY DEF Inv, AbsentFresh
<1> DEFINE r == Fresh("queued")
<1>2. r \in Record /\ r.admitted = None /\ r.token = 0 /\ r.status # "absent"
  BY FreshIs
<1>3. deliveries' = [deliveries EXCEPT ![d] = r]
  OBVIOUS
<1> HIDE DEF r
<1>4. deliveries[d].token <= r.token /\ r.admitted = deliveries[d].admitted
  BY <1>1, <1>2
<1> QED
  BY <1>2, <1>3, <1>4, UpdatedSame

-----------------------------------------------------------------------------
(* The deliveries' own actions. *)

LEMMA KeepPublish == ASSUME Inv, Publish PROVE Inv'
<1>1. PICK r \in Resumes :
        /\ deliveries[<<r, 0>>].status = "absent"
        /\ deliveries' = [deliveries EXCEPT ![<<r, 0>>] = Fresh("queued")]
  BY DEF Publish
<1>2. <<r, 0>> \in Links
  BY BoundsAssumption DEF Links, Roots
<1>3. SameDeliveries
  BY <1>1, <1>2, PublishedSame
<1>4. UNCHANGED <<open, keys, admissions, consumers, workers>>
  BY DEF Publish
<1> QED
  BY <1>3, <1>4, SameTokensGrow, SamePlaces, QuietStep

LEMMA KeepExpire == ASSUME Inv, Expire PROVE Inv'
<1>1. UNCHANGED <<deliveries, open, keys, admissions, consumers, workers>>
  BY DEF Expire
<1>2. SameDeliveries
  BY <1>1, UnchangedSame
<1> QED
  BY <1>1, <1>2, SameTokensGrow, SamePlaces, QuietStep

LEMMA KeepLeaseExpires ==
  ASSUME Inv, NEW d \in Links, LeaseExpires(d) PROVE Inv'
<1>1. /\ deliveries[d].status # "absent"
      /\ deliveries' = [deliveries EXCEPT ![d].lease = FALSE]
      /\ UNCHANGED <<open, keys, admissions, consumers, workers>>
  BY DEF LeaseExpires, Active
<1> QED
  BY <1>1, ReleasedSame, SameTokensGrow, SamePlaces, QuietStep

LEMMA KeepRedrive ==
  ASSUME Inv, NEW d \in Links, Redrive(d) PROVE Inv'
<1>1. SameDeliveries
  BY RedrivenSame DEF Redrive
<1>2. UNCHANGED <<open, keys, admissions, consumers, workers>>
  BY DEF Redrive
<1> QED
  BY <1>1, <1>2, SameTokensGrow, SamePlaces, QuietStep

-----------------------------------------------------------------------------
(* The workers' actions that open and close nothing. *)

Untouched == UNCHANGED <<open, keys, admissions, consumers>>

LEMMA QuietGoto ==
  ASSUME Inv, SameDeliveries, Untouched,
         NEW w \in Workers, workers[w].pc # "idle",
         NEW step \in Steps \ {"idle"}, Goto(w, step),
         step \in Early => workers[w].pc \in Early,
         step \in {"committing", "confirming"} => Child(Mine(w)) \in Links
  PROVE  Inv'
<1>1. WorkersStay /\ WorkerShape'
  BY SameTokensGrow, GotoStays
<1> QED
  BY <1>1, QuietStep DEF Untouched

LEMMA QuietLeave ==
  ASSUME Inv, SameDeliveries, Untouched,
         NEW w \in Workers, workers[w].pc # "idle", Leave(w)
  PROVE  Inv'
<1>1. WorkersStay /\ WorkerShape'
  BY SameTokensGrow, LeaveStays
<1> QED
  BY <1>1, QuietStep DEF Untouched

LEMMA KeepProceed == ASSUME Inv, NEW w \in Workers, Proceed(w) PROVE Inv'
<1>1. workers[w].pc = "claimed" /\ Untouched /\ UNCHANGED deliveries
  BY DEF Proceed, At, Untouched, store
<1>2. SameDeliveries
  BY <1>1, UnchangedSame
<1>3. PICK step \in {"recovering", "invoking"} : Goto(w, step)
  BY DEF Proceed, Admitted
<1>4. step \in Steps \ {"idle"} /\ step \notin {"committing", "confirming"}
      /\ "claimed" \in Early
  BY DEF Steps, Early
<1> QED
  BY <1>1, <1>2, <1>3, <1>4, QuietGoto

LEMMA KeepInvoke == ASSUME Inv, NEW w \in Workers, Invoke(w) PROVE Inv'
<1>1. workers[w].pc = "invoking" /\ Goto(w, "target") /\ Untouched
  BY DEF Invoke, At, Untouched
<1>2. Mine(w) \in Links
  BY <1>1 DEF Inv, WorkerShape
<1>3. SameDeliveries
  BY <1>2, InvokedSame DEF Invoke
<1>4. "target" \in Steps \ {"idle"} /\ "invoking" \in Early
  BY DEF Steps, Early
<1> QED
  BY <1>1, <1>3, <1>4, QuietGoto

LEMMA KeepTargetEnds == ASSUME Inv, NEW w \in Workers, TargetEnds(w) PROVE Inv'
<1>1. workers[w].pc = "target" /\ Untouched /\ UNCHANGED deliveries
  BY DEF TargetEnds, At, Untouched, store
<1>2. SameDeliveries
  BY <1>1, UnchangedSame
<1>3. Mine(w) \in Links /\ "target" \in Early
  BY <1>1 DEF Inv, WorkerShape, Early
<1>4. ASSUME NEW step \in {"registering", "failing", "finalizing", "exhausted"},
             Goto(w, step)
      PROVE  Inv'
  <2>1. step \in Steps \ {"idle"} /\ step \notin {"committing", "confirming"}
    BY DEF Steps
  <2> QED
    BY <1>1, <1>2, <1>3, <1>4, <2>1, QuietGoto
<1>5. ASSUME Mine(w)[2] + 1 < MaxRuns, Goto(w, "committing") PROVE Inv'
  <2>1. Child(Mine(w)) \in Links
    BY <1>3, <1>5, BoundsAssumption DEF Links, Child
  <2>2. "committing" \in Steps \ {"idle"}
    BY DEF Steps
  <2> QED
    BY <1>1, <1>2, <1>3, <1>5, <2>1, <2>2, QuietGoto
<1> QED
  BY <1>4, <1>5 DEF TargetEnds

LEMMA KeepSaveFinalizing ==
  ASSUME Inv, NEW w \in Workers, SaveFinalizing(w) PROVE Inv'
<1>1. /\ workers[w].pc = "finalizing" /\ Goto(w, "completing") /\ Untouched
      /\ deliveries' = [deliveries EXCEPT ![Mine(w)].run = "finalizing"]
  BY DEF SaveFinalizing, At, Untouched
<1>2. Mine(w) \in Links
  BY <1>1 DEF Inv, WorkerShape
<1>3. deliveries[Mine(w)].status # "absent"
  BY DEF SaveFinalizing, ActiveClaim, Active, Mine
<1>4. SameDeliveries
  BY <1>1, <1>2, <1>3, FinalizingSame
<1>5. "completing" \in Steps \ {"idle"} /\ "completing" \notin Early
  BY DEF Steps, Early
<1> QED
  BY <1>1, <1>4, <1>5, QuietGoto

LEMMA KeepCompleteFails ==
  ASSUME Inv, NEW w \in Workers, CompleteFails(w) PROVE Inv'
<1>1. workers[w].pc # "idle" /\ Untouched /\ UNCHANGED deliveries
  BY DEF CompleteFails, Untouched, store
<1>2. SameDeliveries
  BY <1>1, UnchangedSame
<1>3. CASE Leave(w)
  BY <1>1, <1>2, <1>3, QuietLeave
<1>4. CASE \E step \in {"refused", "failing"} : Goto(w, step)
  <2>1. PICK step \in {"refused", "failing"} : Goto(w, step)
    BY <1>4
  <2>2. step \in Steps \ {"idle"} /\ step \notin Early
        /\ step \notin {"committing", "confirming"}
    BY DEF Steps, Early
  <2> QED
    BY <1>1, <1>2, <2>1, <2>2, QuietGoto
<1> QED
  BY <1>3, <1>4 DEF CompleteFails

LEMMA KeepExhaust == ASSUME Inv, NEW w \in Workers, Exhaust(w) PROVE Inv'
<1>1. /\ workers[w].pc # "idle" /\ Untouched /\ Leave(w)
      /\ SaveStatus(w, "verification_failed", "failed")
  BY DEF Exhaust, At, Untouched
<1>2. SameDeliveries
  BY <1>1, NamedStatuses, SaveStatusSame
<1> QED
  BY <1>1, <1>2, QuietLeave

LEMMA KeepConfirm == ASSUME Inv, NEW w \in Workers, Confirm(w) PROVE Inv'
<1>1. workers[w].pc = "confirming" /\ Untouched /\ UNCHANGED deliveries
  BY DEF Confirm, At, Untouched, store
<1>2. SameDeliveries /\ Child(Mine(w)) \in Links
  BY <1>1, UnchangedSame DEF Inv, WorkerShape
<1>3. CASE Leave(w)
  BY <1>1, <1>2, <1>3, QuietLeave
<1>4. CASE \E step \in {"committing", "failing"} : Goto(w, step)
  <2>1. PICK step \in {"committing", "failing"} : Goto(w, step)
    BY <1>4
  <2>2. step \in Steps \ {"idle"} /\ step \notin Early
    BY DEF Steps, Early
  <2> QED
    BY <1>1, <1>2, <2>1, <2>2, QuietGoto
<1> QED
  BY <1>3, <1>4 DEF Confirm

LEMMA KeepCommitFails ==
  ASSUME Inv, NEW w \in Workers, CommitFails(w) PROVE Inv'
<1>1. /\ workers[w].pc = "committing" /\ Untouched /\ UNCHANGED deliveries
      /\ Tried(w)
  BY DEF CommitFails, At, Untouched, store
<1>2. SameDeliveries
  BY <1>1, UnchangedSame
<1>3. WorkersStay /\ WorkerShape'
  BY <1>1, <1>2, SameTokensGrow, TriedStays
<1> QED
  BY <1>1, <1>2, <1>3, QuietStep DEF Untouched

LEMMA KeepFail == ASSUME Inv, NEW w \in Workers, Fail(w) PROVE Inv'
<1>1. workers[w].pc # "idle" /\ Untouched /\ Leave(w)
  BY DEF Fail, At, Untouched
<1>2. SameDeliveries
  <2>1. CASE SaveStatus(w, "queued", "failed")
    BY <1>1, <2>1, NamedStatuses, SaveStatusSame
  <2>2. CASE DeadLetter(w)
    BY <1>1, <2>2, DeadLetterSame
  <2> QED
    BY <2>1, <2>2 DEF Fail
<1> QED
  BY <1>1, <1>2, QuietLeave

LEMMA KeepRefuse == ASSUME Inv, NEW w \in Workers, Refuse(w) PROVE Inv'
<1>1. workers[w].pc # "idle" /\ Untouched /\ Leave(w) /\ DeadLetter(w)
  BY DEF Refuse, At, Untouched
<1> QED
  BY <1>1, DeadLetterSame, QuietLeave

LEMMA KeepCancel == ASSUME Inv, NEW w \in Workers, Cancel(w) PROVE Inv'
<1>1. workers[w].pc # "idle" /\ Untouched /\ Leave(w)
  BY DEF Cancel, Untouched
<1>2. SameDeliveries
  <2>1. CASE SaveStatus(w, "cancelled", "failed")
    BY <1>1, <2>1, NamedStatuses, SaveStatusSame
  <2>2. CASE DeadLetter(w)
    BY <1>1, <2>2, DeadLetterSame
  <2> QED
    BY <2>1, <2>2 DEF Cancel
<1> QED
  BY <1>1, <1>2, QuietLeave

(* Lost and Crash, which leave the store alone.                            *)
LEMMA KeepLeave ==
  ASSUME Inv, NEW w \in Workers, workers[w].pc # "idle", Leave(w),
         UNCHANGED store
  PROVE  Inv'
<1>1. Untouched /\ UNCHANGED deliveries
  BY DEF Untouched, store
<1> QED
  BY <1>1, UnchangedSame, QuietLeave

-----------------------------------------------------------------------------
(* The actions that open or close continuations. *)

(* A claim has a token of its own, later than every registration.          *)
LEMMA KeepClaim == ASSUME Inv, NEW w \in Workers, Claim(w) PROVE Inv'
<1>1. PICK d \in Links :
        /\ Claimable(d)
        /\ deliveries' = [deliveries EXCEPT
             ![d].status = "claimed", ![d].token = @ + 1, ![d].lease = TRUE,
             ![d].recovered = @ \/ deliveries[d].status \in Active]
        /\ workers' = [workers EXCEPT ![w] =
             [Idle EXCEPT !.pc = "claimed", !.delivery = d,
                          !.token = deliveries[d].token + 1]]
  BY DEF Claim
<1>2. workers[w].pc = "idle" /\ UNCHANGED <<open, keys, admissions, consumers>>
  BY DEF Claim, At
<1>3. PICK old \in Record : old = deliveries[d]
  BY DEF Inv, StoreShape
<1>4. PICK token \in Nat : token = old.token + 1
  BY RecordNumbers
<1>5. PICK recovered \in BOOLEAN :
        recovered <=> (old.recovered \/ deliveries[d].status \in Active)
  OBVIOUS
<1> DEFINE r == [old EXCEPT !.status = "claimed", !.token = token,
                            !.lease = TRUE, !.recovered = recovered]
           place == [Idle EXCEPT !.pc = "claimed", !.delivery = d, !.token = token]
<1>6. /\ r \in Record /\ r.status = "claimed"
      /\ r.admitted = old.admitted /\ r.token = token
  BY NamedStatuses DEF Record
<1>7. deliveries' = [deliveries EXCEPT ![d] = r]
  <2>1. old.recovered \in BOOLEAN
    BY DEF Record
  <2>2. recovered = (old.recovered \/ deliveries[d].status \in Active)
    BY <1>5, <2>1
  <2>3. deliveries' = [deliveries EXCEPT ![d] =
          [old EXCEPT !.status = "claimed", !.token = token, !.lease = TRUE,
             !.recovered = (old.recovered \/ deliveries[d].status \in Active)]]
    BY <1>1, <1>3, <1>4 DEF Inv, StoreShape, Record
  <2> QED
    BY <2>2, <2>3
<1>8. /\ place \in Place /\ place.pc = "claimed" /\ place.delivery = d
      /\ place.token = token
  BY DEF Place, Idle, Steps, LinkOrNone
<1>9. workers' = [workers EXCEPT ![w] = place]
  BY <1>1, <1>3, <1>4
<1> HIDE DEF r, place
<1>10. SameDeliveries
  <2>1. deliveries[d].token <= r.token /\ r.admitted = deliveries[d].admitted
        /\ r.status # "absent"
    BY <1>3, <1>4, <1>6, RecordNumbers
  <2> QED
    BY <1>6, <1>7, <2>1, UpdatedSame
<1>11. /\ workers' \in [Workers -> Place] /\ workers'[w] = place
       /\ \A v \in Workers \ {w} : workers'[v] = workers[v]
       /\ deliveries'[d].token = token
  BY <1>6, <1>7, <1>8, <1>9 DEF Inv, WorkerShape, StoreShape
<1>12. ASSUME NEW v \in Workers \ {w}, workers[v].pc # "idle"
       PROVE  /\ Mine(v) \in Links /\ workers[v].token \in Nat
              /\ workers[v].token <= deliveries[Mine(v)].token
              /\ workers[v].token <= deliveries'[Mine(v)].token
              /\ Mine(v) = d => workers[v].token < token
  <2>1. /\ Mine(v) \in Links /\ workers[v].token \in Nat
        /\ workers[v].token <= deliveries[Mine(v)].token
    BY <1>12 DEF Inv, WorkerShape, Place
  <2>2. deliveries[Mine(v)].token \in Nat /\ deliveries'[Mine(v)].token \in Nat
    BY <2>1, <1>10 DEF Inv, StoreShape, SameDeliveries, Record
  <2>3. deliveries[Mine(v)].token <= deliveries'[Mine(v)].token
    BY <1>10, <2>1 DEF SameDeliveries
  <2>4. old.token \in Nat
    BY RecordNumbers
  <2> QED
    BY <1>3, <1>4, <2>1, <2>2, <2>3, <2>4
<1>13. WorkerShape'
  <2>1. ASSUME NEW v \in Workers, workers'[v].pc # "idle"
        PROVE  /\ workers'[v].delivery \in Links
               /\ workers'[v].pc \in {"committing", "confirming"}
                    => Child(workers'[v].delivery) \in Links
               /\ workers'[v].token <= deliveries'[workers'[v].delivery].token
    <3>1. CASE v = w
      BY <1>8, <1>11, <3>1
    <3>2. CASE v # w
      BY <1>11, <1>12, <2>1, <3>2 DEF Inv, WorkerShape, Mine
    <3> QED
      BY <3>1, <3>2
  <2> QED
    BY <1>11, <2>1 DEF WorkerShape, Mine, Child
<1>14. OneHolder'
  BY <1>8, <1>11, <1>12 DEF OneHolder, Inv, Mine
<1>15. ASSUME NEW c PROVE Seen(c)' <=> Seen(c)
  BY <1>2, <1>10 DEF Seen, SameDeliveries
<1>16. TasksOld'
  <2>1. ASSUME NEW e \in Links, NEW t \in Nat, Seen(Task(e, t))'
        PROVE  /\ t <= deliveries'[e].token
               /\ \A v \in Workers :
                    workers'[v].pc \in Early /\ workers'[v].delivery = e
                      => workers'[v].token # t
    <3>1. /\ t <= deliveries[e].token
          /\ \A v \in Workers :
               workers[v].pc \in Early /\ workers[v].delivery = e
                 => workers[v].token # t
      BY <1>15, <2>1 DEF TasksOld, Inv, Mine
    <3>2. deliveries[e].token \in Nat /\ deliveries'[e].token \in Nat
          /\ deliveries[e].token <= deliveries'[e].token
      BY <1>10 DEF Inv, StoreShape, SameDeliveries, Record
    <3>3. e = d => t < token
      BY <1>3, <1>4, <3>1, <3>2
    <3> QED
      BY <1>8, <1>11, <3>1, <3>2, <3>3
  <2> QED
    BY <2>1 DEF TasksOld, Task, Mine
<1>17. StoreShape' /\ KeysAgree' /\ AdmissionsAgree' /\ ConsumersAdmitted'
  <2>1. StoreShape'
    BY <1>2, <1>10 DEF Inv, StoreShape, SameDeliveries
  <2>2. KeysAgree'
    BY <1>2 DEF Inv, KeysAgree, KeyOf
  <2>3. AdmissionsAgree'
    BY <1>2, <1>10 DEF Inv, AdmissionsAgree, SameDeliveries
  <2>4. ConsumersAdmitted'
    BY <1>2, <1>10 DEF Inv, ConsumersAdmitted, SameDeliveries, StoreShape
  <2> QED
    BY <2>1, <2>2, <2>3, <2>4
<1>18. VerifiersExist' /\ AbsentFresh' /\ AdmittedAlone'
  BY <1>10, <1>15 DEF Inv, VerifiersExist, AbsentFresh, AdmittedAlone,
     SameDeliveries, Verifier
<1> QED
  BY <1>13, <1>14, <1>16, <1>17, <1>18 DEF Inv

(* Only one delivery is admitted to an open continuation.                  *)
LEMMA KeepAdmit == ASSUME Inv, NEW w \in Workers, Admit(w) PROVE Inv'
<1> DEFINE d == Mine(w)
           c == keys[CorrelationOf(d)]
           r == [deliveries[d] EXCEPT !.admitted = c]
<1>1. /\ workers[w].pc = "claimed"
      /\ deliveries[d].admitted = None
      /\ c \in open /\ BoundTo(c) \subseteq {d}
      /\ admissions' = admissions \cup {<<c, d>>}
      /\ deliveries' = [deliveries EXCEPT ![d].admitted = c]
      /\ Admitted(w)
      /\ UNCHANGED <<open, keys, consumers>>
  BY DEF Admit, At, Admissible
<1>2. d \in Links /\ c \in Possible /\ c # None
  BY <1>1, NoneIsNot DEF Inv, WorkerShape, StoreShape
<1>3. deliveries[d].status # "absent"
  BY DEF Admit, ActiveClaim, Active, Mine
<1> HIDE DEF c, d
<1>4. PICK old \in Record : old = deliveries[d]
  BY <1>2 DEF Inv, StoreShape
<1>5. r \in Record /\ r.admitted = c /\ r.token = old.token /\ r.status = old.status
  BY <1>2, <1>4 DEF Record
<1>6. deliveries' = [deliveries EXCEPT ![d] = r]
  BY <1>1
<1> HIDE DEF r
<1>7. /\ deliveries' \in [Links -> Record]
      /\ deliveries'[d].admitted = c
      /\ \A e \in Links : /\ deliveries'[e].token = deliveries[e].token
                          /\ deliveries'[e].status = deliveries[e].status
      /\ \A e \in Links \ {d} : deliveries'[e] = deliveries[e]
  BY <1>2, <1>4, <1>5, <1>6 DEF Inv, StoreShape
<1>8. TokensGrow
  BY <1>7 DEF TokensGrow, Record
<1>9. WorkersStay /\ WorkerShape'
  <2>1. PICK step \in {"recovering", "invoking"} : Goto(w, step)
    BY <1>1 DEF Admitted
  <2>2. step \in Steps \ {"idle"} /\ step \notin {"committing", "confirming"}
        /\ "claimed" \in Early
    BY DEF Steps, Early
  <2> QED
    BY <1>1, <1>8, <2>1, <2>2, GotoStays
<1>10. ASSUME NEW e \in Links, deliveries[e].admitted = c PROVE FALSE
  <2>1. <<c, e>> \in admissions
    BY <1>1, <1>10 DEF Inv, AdmissionsAgree
  <2>2. e \in BoundTo(c)
    BY <2>1 DEF BoundTo
  <2> QED
    BY <1>1, <1>2, <1>10, <2>2
<1>11. StoreShape' /\ KeysAgree'
  BY <1>1, <1>2, <1>7 DEF Inv, StoreShape, KeysAgree, KeyOf
<1>12. AdmissionsAgree'
  <2>1. \A a \in admissions' : a[1] \in open'
    BY <1>1 DEF Inv, AdmissionsAgree
  <2>2. ASSUME NEW x \in open', NEW e \in Links
        PROVE  <<x, e>> \in admissions' <=> deliveries'[e].admitted = x
    <3>1. <<x, e>> \in admissions <=> deliveries[e].admitted = x
      BY <1>1 DEF Inv, AdmissionsAgree
    <3>2. CASE e = d
      BY <1>1, <1>2, <1>7, <3>1, <3>2, NoneIsNot DEF Inv, StoreShape
    <3>3. CASE e # d
      BY <1>1, <1>7, <3>1, <3>3
    <3> QED
      BY <3>2, <3>3
  <2> QED
    BY <2>1, <2>2 DEF AdmissionsAgree
<1>13. ConsumersAdmitted'
  <2>1. ASSUME NEW a \in consumers PROVE deliveries'[a[2]].admitted = a[1]
    <3>1. a[1] \in Possible /\ a[2] \in Links /\ deliveries[a[2]].admitted = a[1]
      BY DEF Inv, StoreShape, ConsumersAdmitted
    <3>2. a[2] # d
      BY <1>1, <3>1, NoneIsNot
    <3> QED
      BY <1>7, <3>1, <3>2
  <2> QED
    BY <1>1, <2>1 DEF ConsumersAdmitted
<1>14. ASSUME NEW x, Seen(x)' PROVE Seen(x)
  BY <1>1, <1>7, <1>14 DEF Seen
<1>15. TasksOld'
  <2>1. ASSUME NEW e \in Links, NEW t \in Nat, Seen(Task(e, t))'
        PROVE  /\ t <= deliveries'[e].token
               /\ \A v \in Workers :
                    workers'[v].pc \in Early /\ Mine(v)' = e
                      => workers'[v].token # t
    <3>1. /\ t <= deliveries[e].token
          /\ \A v \in Workers :
               workers[v].pc \in Early /\ Mine(v) = e => workers[v].token # t
      BY <1>14, <2>1 DEF TasksOld, Inv
    <3> QED
      BY <1>7, <1>9, <3>1 DEF WorkersStay, Early
  <2> QED
    BY <2>1 DEF TasksOld, Task
<1>16. OneHolder' /\ VerifiersExist'
  BY <1>7, <1>9, <1>14 DEF Inv, OneHolder, WorkersStay, VerifiersExist, Verifier
<1>17. AbsentFresh' /\ AdmittedAlone'
  BY <1>2, <1>3, <1>7, <1>10 DEF Inv, AbsentFresh, AdmittedAlone
<1> QED
  BY <1>9, <1>11, <1>12, <1>13, <1>15, <1>16, <1>17 DEF Inv

(* An expired continuation is found under its own key, so it is closed.    *)
LEMMA KeepAdmissionRefused ==
  ASSUME Inv, NEW w \in Workers, AdmissionRefused(w) PROVE Inv'
<1> DEFINE c == keys[CorrelationOf(Mine(w))]
<1>1. /\ workers[w].pc = "claimed" /\ Goto(w, "refused")
      /\ UNCHANGED <<deliveries, consumers>>
  BY DEF AdmissionRefused, At
<1>2. SameDeliveries /\ Mine(w) \in Links
  BY <1>1, UnchangedSame DEF Inv, WorkerShape
<1>3. "refused" \in Steps \ {"idle"} /\ "refused" \notin Early
  BY DEF Steps, Early
<1>4. CASE UNCHANGED <<open, keys, admissions, expired>>
  <2>1. Untouched
    BY <1>1, <1>4 DEF Untouched
  <2> QED
    BY <1>1, <1>2, <1>3, <2>1, QuietGoto
<1>5. CASE c \in open /\ CompleteContinuation(c)
  <2>1. /\ open' = open \ {c}
        /\ keys' = [keys EXCEPT ![KeyOf(c)] = None]
        /\ admissions' = {a \in admissions : a[1] # c}
    BY <1>5 DEF CompleteContinuation
  <2>2. c \in Possible /\ c # None
    BY <1>5, NoneIsNot DEF Inv, StoreShape
  <2>3. \A k \in Keys : keys[k] = c <=> k = KeyOf(c)
    BY <1>5, <2>2, KeyIs DEF Inv, KeysAgree
  <2> HIDE DEF c
  <2>4. keys' = [k \in Keys |-> IF keys[k] = c THEN None ELSE keys[k]]
    BY <2>1, <2>3 DEF Inv, StoreShape
  <2>5. WorkersStay /\ WorkerShape'
    BY <1>1, <1>2, <1>3, SameTokensGrow, GotoStays
  <2> QED
    BY <1>1, <1>2, <2>1, <2>2, <2>4, <2>5, CloseStep
<1> QED
  BY <1>4, <1>5 DEF AdmissionRefused

(* The id of a registration is new: no earlier run had the worker's claim. *)
LEMMA KeepRegister == ASSUME Inv, NEW w \in Workers, Register(w) PROVE Inv'
<1> DEFINE d == Mine(w)
           token == workers[w].token
           n == Task(d, token)
<1>1. /\ workers[w].pc = "registering" /\ d \in Links /\ token \in Nat
      /\ token <= deliveries[d].token
      /\ UNCHANGED <<deliveries, admissions, consumers>>
  BY DEF Register, At, Inv, WorkerShape, Place
<1>2. SameDeliveries
  BY <1>1, UnchangedSame
<1>3. CASE UNCHANGED <<open, keys>> /\ Goto(w, "failing")
  <2>1. Untouched
    BY <1>1, <1>3 DEF Untouched
  <2>2. "failing" \in Steps \ {"idle"} /\ "failing" \notin Early
    BY DEF Steps, Early
  <2> QED
    BY <1>1, <1>2, <1>3, <2>1, <2>2, QuietGoto
<1>4. CASE /\ keys[TaskKey] \in {None, n}
           /\ RegisterContinuation(n) /\ Goto(w, "waiting")
  <2>1. ~Seen(n)
    BY <1>1 DEF Inv, TasksOld, Early
  <2>2. n \in Possible /\ KeyOf(n) = TaskKey /\ n # None /\ TaskKey \in Keys
    BY <1>1, TaskIs, NoneIsNot DEF Keys
  <2>3. keys[TaskKey] = None
    BY <1>4, <2>1, <2>2 DEF Seen, Inv, KeysAgree
  <2>4. "waiting" \in Steps \ {"idle"} /\ "waiting" \notin Early
    BY DEF Steps, Early
  <2>5. WorkersStay /\ WorkerShape'
    BY <1>1, <1>2, <1>4, <2>4, SameTokensGrow, GotoStays
  <2>6. workers'[w].pc = "waiting"
    BY <1>4 DEF Goto, Inv, WorkerShape, Place
  <2>7. open' = open \cup {n} /\ keys' = [keys EXCEPT ![KeyOf(n)] = n]
    BY <1>4 DEF RegisterContinuation
  <2>8. \A e \in Links, t \in Nat : n = Task(e, t) => e = d /\ t = token
    BY <1>1, TaskIs
  <2>9. \A e \in Links : n # Verifier(e)
    BY <1>1, TaskIs
  <2> HIDE DEF n
  <2>10. None \notin open /\ \A a \in admissions : a[1] # None
    BY NoneIsNot DEF Inv, StoreShape
  <2>11. /\ open' = (open \ {None}) \cup {n}
         /\ keys' = [k \in Keys |->
              IF k = KeyOf(n) THEN n
              ELSE IF None # None /\ k = KeyOf(None) THEN None ELSE keys[k]]
         /\ admissions' = {a \in admissions : a[1] # None}
    BY <1>1, <2>7, <2>10 DEF Inv, StoreShape
  <2>12. /\ StoreShape' /\ KeysAgree' /\ AdmissionsAgree' /\ ConsumersAdmitted'
         /\ OneHolder' /\ AbsentFresh' /\ AdmittedAlone'
         /\ \A x : Seen(x)' => Seen(x) \/ x = n
    BY <1>1, <1>2, <2>1, <2>2, <2>3, <2>5, <2>11, OpenStep
  <2>13. TasksOld'
    <3>1. ASSUME NEW e \in Links, NEW t \in Nat, Seen(Task(e, t))'
          PROVE  /\ t <= deliveries'[e].token
                 /\ \A v \in Workers :
                      workers'[v].pc \in Early /\ Mine(v)' = e
                        => workers'[v].token # t
      <4>1. CASE Seen(Task(e, t))
        BY <1>2, <2>5, <4>1, OldTask
      <4>2. CASE n = Task(e, t)
        <5>1. e = d /\ t = token
          BY <2>8, <4>2
        <5>2. ASSUME NEW v \in Workers, workers'[v].pc \in Early, Mine(v)' = e,
                     workers'[v].token = t
              PROVE  FALSE
          <6>1. /\ workers'[v].pc # "idle" /\ workers'[w].pc # "idle"
                /\ Mine(w)' = d /\ workers'[w].token = token
            BY <2>5, <2>6, <5>2 DEF WorkersStay, Early
          <6>2. v = w
            BY <2>12, <5>1, <5>2, <6>1 DEF OneHolder
          <6> QED
            BY <2>4, <2>6, <5>2, <6>2
        <5> QED
          BY <1>1, <5>1, <5>2
      <4> QED
        BY <2>12, <3>1, <4>1, <4>2 DEF Task
    <3> QED
      BY <3>1 DEF TasksOld, Task
  <2>14. VerifiersExist'
    BY <1>1, <2>9, <2>12 DEF VerifiersExist, Inv, Verifier
  <2> QED
    BY <2>5, <2>12, <2>13, <2>14 DEF Inv
<1> QED
  BY <1>3, <1>4 DEF Register

LEMMA KeepComplete == ASSUME Inv, NEW w \in Workers, Complete(w) PROVE Inv'
<1> DEFINE d == Mine(w)
           c == deliveries[d].admitted
<1>1. workers[w].pc # "idle" /\ Leave(w) /\ d \in Links
  BY DEF Complete, Inv, WorkerShape
<1>2. SameDeliveries
  <2>1. PICK status \in {"waiting_event", "succeeded"},
             run \in {"waiting_event", "finalizing"} : SaveStatus(w, status, run)
    BY DEF Complete
  <2>2. status \in Statuses /\ status # "absent" /\ run \in RunStatus
    BY NamedStatuses
  <2> QED
    BY <1>1, <2>1, <2>2, SaveStatusSame
<1>3. CASE c = None
  BY <1>1, <1>2, <1>3, QuietLeave DEF Complete, Untouched
<1>4. CASE c # None
  <2>1. c \in Possible
    BY <1>1, <1>4 DEF Inv, StoreShape, Record
  <2>2. /\ open' = open \ {c}
        /\ keys' = [k \in Keys |-> IF keys[k] = c THEN None ELSE keys[k]]
        /\ admissions' = {a \in admissions : a[1] # c}
        /\ consumers' = consumers \cup {<<c, d>>}
    BY <1>4 DEF Complete, ConsumeAdmitted
  <2>3. WorkersStay /\ WorkerShape'
    BY <1>1, <1>2, SameTokensGrow, LeaveStays
  <2> QED
    BY <1>1, <1>2, <2>1, <2>2, <2>3, CloseStep
<1> QED
  BY <1>3, <1>4

(* The child of a transition was absent, so its verifier's id is new.      *)
LEMMA KeepTransition ==
  ASSUME Inv, NEW w \in Workers, workers[w].pc = "committing",
         TransitionVerifier(w), Leave(w) \/ Tried(w)
  PROVE  Inv'
<1> DEFINE d == Mine(w)
           child == Child(d)
           c == deliveries[d].admitted
           n == Verifier(child)
<1>1. d \in Links /\ child \in Links /\ child # d
  BY ChildIs DEF Inv, WorkerShape
<1>2. /\ ActiveClaim(w)
      /\ c # None => <<c, d>> \in admissions /\ c \in open
      /\ deliveries[child].status = "absent"
      /\ keys[KeyOf(n)] \in {None, n}
  BY DEF TransitionVerifier, Transitable
<1>3. /\ deliveries' = [deliveries EXCEPT
           ![d].status = "waiting_event", ![d].run = "waiting_event",
           ![child] = Fresh("queued")]
      /\ open' = (open \ {c}) \cup {n}
      /\ keys' = [k \in Keys |->
           IF k = KeyOf(n) THEN n
           ELSE IF c # None /\ k = KeyOf(c) THEN None ELSE keys[k]]
      /\ admissions' = {a \in admissions : a[1] # c}
      /\ \/ consumers' = consumers
         \/ c # None /\ consumers' = consumers \cup {<<c, d>>}
  BY DEF TransitionVerifier
<1>4. ~Seen(n)
  BY <1>1, <1>2 DEF Inv, VerifiersExist
<1>5. n \in Possible /\ KeyOf(n) \in Keys
  BY <1>1, VerifierIs, KeyIs
<1>6. keys[KeyOf(n)] = None
  BY <1>2, <1>4, <1>5, NoneIsNot DEF Seen, Inv, KeysAgree
<1>7. c \in open \cup {None}
  BY <1>2
<1>8. \A e \in Links : n = Verifier(e) => e = child
  BY <1>1, VerifierIs
<1>9. \A e \in Links, t \in Nat : n # Task(e, t)
  BY <1>1, TaskIs
<1>10. deliveries[child].admitted = None /\ deliveries[child].token = 0
  BY <1>1, <1>2 DEF Inv, AbsentFresh
<1> HIDE DEF n, child
<1>11. PICK old \in Record : old = deliveries[d]
  BY <1>1 DEF Inv, StoreShape
<1>12. PICK new \in Record :
         /\ new = Fresh("queued") /\ new.admitted = None /\ new.token = 0
         /\ new.status = "queued"
  BY FreshIs
<1> DEFINE r == [old EXCEPT !.status = "waiting_event", !.run = "waiting_event"]
<1>13. /\ r \in Record /\ r.status = "waiting_event"
       /\ r.admitted = old.admitted /\ r.token = old.token
  <2>1. "waiting_event" \in Statuses /\ "waiting_event" \in RunStatus
    BY NamedStatuses
  <2> QED
    BY <2>1 DEF Record
<1>14. deliveries' = [deliveries EXCEPT ![d] = r, ![child] = new]
  BY <1>1, <1>3, <1>11, <1>12 DEF Inv, StoreShape
<1> HIDE DEF r
<1>15. /\ deliveries' \in [Links -> Record]
       /\ deliveries'[d] = r /\ deliveries'[child] = new
       /\ \A e \in Links \ {d, child} : deliveries'[e] = deliveries[e]
  BY <1>1, <1>13, <1>14 DEF Inv, StoreShape
<1>16. SameDeliveries
  <2>1. ASSUME NEW e \in Links
        PROVE  /\ deliveries'[e].admitted = deliveries[e].admitted
               /\ deliveries[e].token <= deliveries'[e].token
               /\ deliveries'[e].status = "absent" => deliveries'[e] = deliveries[e]
    <3>1. CASE e = d
      <4>1. old.token \in Nat
        BY RecordNumbers
      <4> QED
        BY <1>11, <1>13, <1>15, <3>1, <4>1
    <3>2. CASE e = child
      BY <1>10, <1>12, <1>15, <3>2
    <3>3. CASE e \notin {d, child}
      <4>1. deliveries[e] \in Record
        BY DEF Inv, StoreShape
      <4>2. deliveries[e].token \in Nat
        BY <4>1, RecordNumbers
      <4> QED
        BY <1>15, <3>3, <4>2
    <3> QED
      BY <3>1, <3>2, <3>3
  <2> QED
    BY <1>15, <2>1 DEF SameDeliveries
<1>17. WorkersStay /\ WorkerShape'
  BY <1>16, SameTokensGrow, LeaveStays, TriedStays
<1>18. /\ StoreShape' /\ KeysAgree' /\ AdmissionsAgree' /\ ConsumersAdmitted'
       /\ OneHolder' /\ AbsentFresh' /\ AdmittedAlone'
       /\ \A x : Seen(x)' => Seen(x) \/ x = n
  BY <1>1, <1>3, <1>4, <1>5, <1>6, <1>7, <1>16, <1>17, OpenStep
<1>19. TasksOld'
  <2>1. ASSUME NEW e \in Links, NEW t \in Nat, Seen(Task(e, t))'
        PROVE  /\ t <= deliveries'[e].token
               /\ \A v \in Workers :
                    workers'[v].pc \in Early /\ Mine(v)' = e
                      => workers'[v].token # t
    <3>1. Seen(Task(e, t))
      BY <1>9, <1>18, <2>1 DEF Task
    <3> QED
      BY <1>16, <1>17, <3>1, OldTask
  <2> QED
    BY <2>1 DEF TasksOld, Task
<1>20. VerifiersExist'
  <2>1. ASSUME NEW e \in Links, Seen(Verifier(e))'
        PROVE  deliveries'[e].status # "absent"
    <3>1. CASE Seen(Verifier(e))
      BY <1>16, <3>1 DEF Inv, VerifiersExist, SameDeliveries
    <3>2. CASE n = Verifier(e)
      BY <1>8, <1>12, <1>15, <3>2
    <3> QED
      BY <1>18, <2>1, <3>1, <3>2 DEF Verifier
  <2> QED
    BY <2>1 DEF VerifiersExist, Verifier
<1> QED
  BY <1>17, <1>18, <1>19, <1>20 DEF Inv

-----------------------------------------------------------------------------
(* The invariant holds. *)

LEMMA InitInv == Init => Inv
<1> SUFFICES ASSUME Init PROVE Inv
  OBVIOUS
<1>1. /\ open = {} /\ admissions = {} /\ consumers = {}
      /\ keys = [k \in Keys |-> None]
      /\ workers = [w \in Workers |-> Idle]
      /\ deliveries = [d \in Links |->
           Fresh(IF d[1] \in Wakes /\ d[2] = 0 THEN "queued" ELSE "absent")]
  BY DEF Init
<1>2. \A d \in Links : /\ deliveries[d] \in Record
                       /\ deliveries[d].admitted = None /\ deliveries[d].token = 0
  <2>1. ASSUME NEW d \in Links
        PROVE  deliveries[d] = Fresh("queued") \/ deliveries[d] = Fresh("absent")
    BY <1>1
  <2> QED
    BY <2>1, FreshIs
<1>3. \A w \in Workers : workers[w] = Idle /\ workers[w].pc = "idle"
  BY <1>1, IdleIs
<1>4. StoreShape
  <2>1. deliveries \in [Links -> Record]
    BY <1>1, <1>2
  <2> QED
    BY <1>1, <2>1 DEF StoreShape
<1>5. WorkerShape /\ OneHolder
  BY <1>1, <1>3, IdleIs DEF WorkerShape, OneHolder
<1>6. \A c \in Possible : ~Seen(c)
  BY <1>1, <1>2, NoneIsNot DEF Seen
<1>7. TasksOld /\ VerifiersExist
  BY <1>6, TaskIs, VerifierIs DEF TasksOld, VerifiersExist
<1>8. KeysAgree /\ AdmissionsAgree /\ ConsumersAdmitted
  BY <1>1 DEF KeysAgree, AdmissionsAgree, ConsumersAdmitted
<1>9. AbsentFresh /\ AdmittedAlone
  BY <1>2 DEF AbsentFresh, AdmittedAlone
<1> QED
  BY <1>4, <1>5, <1>7, <1>8, <1>9 DEF Inv

LEMMA KeepAttempt == ASSUME Inv, NEW w \in Workers, Attempt(w) PROVE Inv'
<1>1. CASE Proceed(w) \/ Admit(w) \/ AdmissionRefused(w)
  BY <1>1, KeepProceed, KeepAdmit, KeepAdmissionRefused
<1>2. CASE Invoke(w) \/ TargetEnds(w) \/ Register(w)
  BY <1>2, KeepInvoke, KeepTargetEnds, KeepRegister
<1>3. CASE SaveFinalizing(w) \/ Complete(w) \/ CompleteFails(w) \/ Exhaust(w)
  BY <1>3, KeepSaveFinalizing, KeepComplete, KeepCompleteFails, KeepExhaust
<1>4. CASE CommitAcknowledged(w) \/ CommitUnacknowledged(w)
  <2>1. /\ workers[w].pc = "committing" /\ TransitionVerifier(w)
        /\ Leave(w) \/ Tried(w)
    BY <1>4 DEF CommitAcknowledged, CommitUnacknowledged, At
  <2> QED
    BY <2>1, KeepTransition
<1>5. CASE CommitFails(w) \/ Confirm(w) \/ Fail(w) \/ Refuse(w)
  BY <1>5, KeepCommitFails, KeepConfirm, KeepFail, KeepRefuse
<1>6. CASE Lost(w)
  BY <1>6, KeepLeave DEF Lost
<1> QED
  BY <1>1, <1>2, <1>3, <1>4, <1>5, <1>6 DEF Attempt

LEMMA InvStep == Inv /\ [Next]_vars => Inv'
<1> SUFFICES ASSUME Inv, [Next]_vars PROVE Inv'
  OBVIOUS
<1>1. CASE Publish
  BY <1>1, KeepPublish
<1>2. CASE Expire
  BY <1>2, KeepExpire
<1>3. CASE \E d \in Links : LeaseExpires(d) \/ Redrive(d)
  BY <1>3, KeepLeaseExpires, KeepRedrive
<1>4. ASSUME NEW w \in Workers, Claim(w) \/ Attempt(w) \/ Cancel(w) \/ Crash(w)
      PROVE  Inv'
  <2>1. CASE Crash(w)
    BY <2>1, KeepLeave DEF Crash, At
  <2> QED
    BY <1>4, <2>1, KeepClaim, KeepAttempt, KeepCancel
<1>5. CASE UNCHANGED vars
  <2>1. UNCHANGED <<deliveries, open, keys, admissions, consumers, workers>>
    BY <1>5 DEF vars
  <2> QED
    BY <2>1, UnchangedSame, SameTokensGrow, SamePlaces, QuietStep
<1> QED
  BY <1>1, <1>2, <1>3, <1>4, <1>5 DEF Next

(* The ids of continuations are never reused, and whoever was admitted to  *)
(* one, or registered under a key, is the only one: the argument above the *)
(* other theorems rest on (InMemoryAxEventStore's continuation methods).   *)
THEOREM ContinuationsInvariant == Spec => []Inv
<1> QED
  BY InitInv, InvStep, PTL DEF Spec

(* An open continuation is found under its correlation key and no key      *)
(* outlives its continuation, for any number of workers, deliveries,       *)
(* retries and expiries (continuationKeys in memoryStore.ts).              *)
THEOREM KeysIndexContinuations == Spec => []KeysAgree
<1>1. Inv => KeysAgree
  BY DEF Inv
<1> QED
  BY <1>1, ContinuationsInvariant, PTL

(* The admissions of the open continuations are exactly the ones recorded  *)
(* in the delivery records (admitContinuation and its snapshot).           *)
THEOREM AdmissionsRecorded == Spec => []AdmissionsAgree
<1>1. Inv => AdmissionsAgree
  BY DEF Inv
<1> QED
  BY <1>1, ContinuationsInvariant, PTL

(* Both at once: closing, expiring and replacing continuations, in any     *)
(* order and however late, leaves the two indexes of the store in step.    *)
THEOREM IndexesInStep == Spec => []IndexesAgree
<1>1. KeysAgree /\ AdmissionsAgree => IndexesAgree
  BY DEF IndexesAgree
<1> QED
  BY <1>1, KeysIndexContinuations, AdmissionsRecorded, PTL

(* One continuation is consumed by only one delivery, through any number   *)
(* of retries, lost claims, crashes, redrives and handovers to a child.    *)
THEOREM ConsumedOnce == Spec => []OneShot
<1>1. Inv => OneShot
  <2> SUFFICES ASSUME Inv, NEW a \in consumers, NEW b \in consumers, a[1] = b[1]
               PROVE  a[2] = b[2]
    BY DEF OneShot
  <2>1. /\ a[1] \in Possible /\ a[2] \in Links
        /\ b[1] \in Possible /\ b[2] \in Links
    BY DEF Inv, StoreShape
  <2>2. deliveries[a[2]].admitted = a[1] /\ deliveries[b[2]].admitted = b[1]
    BY DEF Inv, ConsumersAdmitted
  <2> QED
    BY <2>1, <2>2, NoneIsNot DEF Inv, AdmittedAlone
<1> QED
  BY <1>1, ContinuationsInvariant, PTL

-----------------------------------------------------------------------------
(* What a delivery was admitted to. *)

LEMMA SavedKeeps ==
  ASSUME Inv, NEW d \in Links, NEW w \in Workers, workers[w].pc # "idle",
         NEW status, NEW run, SaveStatus(w, status, run)
  PROVE  deliveries'[d].admitted = deliveries[d].admitted
BY DEF Inv, StoreShape, Record, SaveStatus

LEMMA DeadLetterKeeps ==
  ASSUME Inv, NEW d \in Links, NEW w \in Workers, workers[w].pc # "idle",
         DeadLetter(w)
  PROVE  deliveries'[d].admitted = deliveries[d].admitted
BY DEF Inv, StoreShape, Record, DeadLetter

LEMMA ClaimKeeps ==
  ASSUME Inv, NEW d \in Links, NEW w \in Workers, Claim(w)
  PROVE  deliveries'[d].admitted = deliveries[d].admitted
<1>1. PICK c \in Links :
        deliveries' = [deliveries EXCEPT
          ![c].status = "claimed", ![c].token = @ + 1, ![c].lease = TRUE,
          ![c].recovered = @ \/ deliveries[c].status \in Active]
  BY DEF Claim
<1>2. /\ d # c => deliveries'[d] = deliveries[d]
      /\ deliveries[c] \in Record
  BY <1>1 DEF Inv, StoreShape
<1>3. \A token, recovered :
        deliveries' = [deliveries EXCEPT
          ![c].status = "claimed", ![c].token = token, ![c].lease = TRUE,
          ![c].recovered = recovered]
        => deliveries'[c].admitted = deliveries[c].admitted
  BY <1>2 DEF Inv, StoreShape, Record
<1>4. deliveries'[c].admitted = deliveries[c].admitted
  BY <1>1, <1>3
<1> QED
  BY <1>2, <1>4

LEMMA TransitionKeeps ==
  ASSUME Inv, NEW d \in Links, NEW w \in Workers, workers[w].pc # "idle",
         TransitionVerifier(w), deliveries[d].admitted # None
  PROVE  deliveries'[d].admitted = deliveries[d].admitted
<1>1. deliveries[Child(Mine(w))].status = "absent"
  BY DEF TransitionVerifier, Transitable
<1>2. d # Child(Mine(w))
  BY <1>1 DEF Inv, AbsentFresh
<1>3. deliveries' = [deliveries EXCEPT
        ![Mine(w)].status = "waiting_event", ![Mine(w)].run = "waiting_event",
        ![Child(Mine(w))] = Fresh("queued")]
  BY DEF TransitionVerifier
<1> QED
  BY <1>2, <1>3 DEF Inv, StoreShape, Record

LEMMA BindingStep ==
  ASSUME Inv, [Next]_vars, NEW d \in Links, deliveries[d].admitted # None
  PROVE  deliveries'[d].admitted = deliveries[d].admitted
<1>1. CASE Publish
  <2>1. PICK r \in Resumes :
          /\ deliveries[<<r, 0>>].status = "absent"
          /\ deliveries' = [deliveries EXCEPT ![<<r, 0>>] = Fresh("queued")]
    BY <1>1 DEF Publish
  <2>2. <<r, 0>> # d
    BY <2>1 DEF Inv, AbsentFresh
  <2> QED
    BY <2>1, <2>2 DEF Inv, StoreShape
<1>2. ASSUME NEW e \in Links, LeaseExpires(e)
      PROVE  deliveries'[d].admitted = deliveries[d].admitted
  BY <1>2 DEF LeaseExpires, Inv, StoreShape, Record
<1>3. ASSUME NEW e \in Links, Redrive(e)
      PROVE  deliveries'[d].admitted = deliveries[d].admitted
  <2>1. SameDeliveries
    BY <1>3, RedrivenSame DEF Redrive
  <2> QED
    BY <2>1 DEF SameDeliveries
<1>4. ASSUME NEW w \in Workers, Claim(w) \/ Attempt(w) \/ Cancel(w) \/ Crash(w)
      PROVE  deliveries'[d].admitted = deliveries[d].admitted
  <2>1. CASE Claim(w)
    BY <2>1, ClaimKeeps
  <2>2. CASE Admit(w)
    BY <2>2 DEF Admit, Inv, StoreShape, Record
  <2>3. CASE Invoke(w)
    <3>1. Mine(w) \in Links
      BY <2>3 DEF Invoke, At, Inv, WorkerShape
    <3>2. SameDeliveries
      BY <2>3, <3>1, InvokedSame DEF Invoke
    <3> QED
      BY <3>2 DEF SameDeliveries
  <2>4. CASE SaveFinalizing(w)
    BY <2>4 DEF SaveFinalizing, Inv, StoreShape, Record
  <2>5. CASE Complete(w)
    <3>1. \E status, run : SaveStatus(w, status, run)
      BY <2>5 DEF Complete
    <3> QED
      BY <2>5, <3>1, SavedKeeps DEF Complete
  <2>6. CASE Exhaust(w)
    BY <2>6, SavedKeeps DEF Exhaust, At
  <2>7. CASE CommitAcknowledged(w) \/ CommitUnacknowledged(w)
    BY <2>7, TransitionKeeps DEF CommitAcknowledged, CommitUnacknowledged, At
  <2>8. CASE Fail(w) \/ Refuse(w) \/ Cancel(w)
    <3>1. /\ workers[w].pc # "idle"
          /\ \/ \E status, run : SaveStatus(w, status, run)
             \/ DeadLetter(w)
      BY <2>8 DEF Fail, Refuse, Cancel, At
    <3> QED
      BY <3>1, SavedKeeps, DeadLetterKeeps
  <2>9. CASE UNCHANGED deliveries
    BY <2>9
  <2>10. \/ Proceed(w) \/ AdmissionRefused(w) \/ TargetEnds(w) \/ Register(w)
         \/ CompleteFails(w) \/ CommitFails(w) \/ Confirm(w) \/ Lost(w) \/ Crash(w)
         => UNCHANGED deliveries
    BY DEF Proceed, AdmissionRefused, TargetEnds, Register, CompleteFails,
       CommitFails, Confirm, Lost, Crash, store
  <2> QED
    BY <1>4, <2>1, <2>2, <2>3, <2>4, <2>5, <2>6, <2>7, <2>8, <2>9, <2>10
       DEF Attempt
<1>5. CASE Expire \/ UNCHANGED vars
  BY <1>5 DEF Expire, vars
<1> QED
  BY <1>1, <1>2, <1>3, <1>4, <1>5 DEF Next

(* What a delivery was admitted to survives every retry, recovery, redrive *)
(* and handover (the continuation snapshot in its delivery record).        *)
THEOREM BindingsKept == Spec => BindingKept
<1>1. ASSUME Inv, [Next]_vars
      PROVE  [\A d \in Links :
                deliveries[d].admitted # None
                  => deliveries'[d].admitted = deliveries[d].admitted]_vars
  BY <1>1, BindingStep
<1> QED
  BY <1>1, ContinuationsInvariant, PTL DEF Spec, BindingKept

-----------------------------------------------------------------------------
(* What ended well leaves no continuation open. *)

SettledWell == {"succeeded", "waiting_event"}

(* No delivery ends well in the step.                                      *)
NoneSettles ==
  \A d \in Links :
    deliveries'[d].status \in SettledWell
      => /\ deliveries[d].status \in SettledWell
         /\ deliveries'[d].admitted = deliveries[d].admitted

(* A continuation that opens was not seen before.                          *)
LEMMA ResumeQuiet ==
  ASSUME Inv, ResumeConsumes, NoneSettles,
         \A c \in open' : c \in open \/ ~Seen(c)
  PROVE  ResumeConsumes'
BY DEF ResumeConsumes, NoneSettles, SettledWell, Seen

LEMMA SavedUnsettled ==
  ASSUME Inv, NEW w \in Workers, workers[w].pc # "idle",
         NEW status, status \notin SettledWell, NEW run, SaveStatus(w, status, run)
  PROVE  NoneSettles
<1>1. Mine(w) \in Links
  BY DEF Inv, WorkerShape
<1>2. /\ deliveries'[Mine(w)].status = status
      /\ \A d \in Links \ {Mine(w)} : deliveries'[d] = deliveries[d]
  BY <1>1 DEF Inv, StoreShape, Record, SaveStatus
<1> QED
  BY <1>2 DEF NoneSettles

LEMMA DeadLetterUnsettled ==
  ASSUME Inv, NEW w \in Workers, workers[w].pc # "idle", DeadLetter(w)
  PROVE  NoneSettles
<1>1. Mine(w) \in Links
  BY DEF Inv, WorkerShape
<1>2. /\ deliveries'[Mine(w)].status = "dead_lettered"
      /\ \A d \in Links \ {Mine(w)} : deliveries'[d] = deliveries[d]
  BY <1>1 DEF Inv, StoreShape, Record, DeadLetter
<1> QED
  BY <1>2 DEF NoneSettles, SettledWell

LEMMA ResumeDeliveries ==
  ASSUME Inv, ResumeConsumes,
         Publish \/ Expire \/ \E d \in Links : LeaseExpires(d) \/ Redrive(d)
  PROVE  ResumeConsumes'
<1>1. open' = open
  BY DEF Publish, Expire, LeaseExpires, Redrive
<1>2. CASE Publish
  <2>1. PICK r \in Resumes :
          deliveries' = [deliveries EXCEPT ![<<r, 0>>] = Fresh("queued")]
    BY <1>2 DEF Publish
  <2>2. "queued" \notin SettledWell
    BY DEF SettledWell
  <2>3. NoneSettles
    BY <2>1, <2>2, FreshIs DEF NoneSettles, Inv, StoreShape
  <2> QED
    BY <1>1, <2>3, ResumeQuiet
<1>3. CASE Expire
  <2>1. NoneSettles
    BY <1>3 DEF Expire, NoneSettles
  <2> QED
    BY <1>1, <2>1, ResumeQuiet
<1>4. ASSUME NEW e \in Links, LeaseExpires(e) PROVE ResumeConsumes'
  <2>1. NoneSettles
    BY <1>4 DEF LeaseExpires, NoneSettles, Inv, StoreShape, Record
  <2> QED
    BY <1>1, <2>1, ResumeQuiet
<1>5. ASSUME NEW e \in Links, Redrive(e) PROVE ResumeConsumes'
  <2>1. \A token :
          deliveries' = [deliveries EXCEPT
            ![e].status = "queued", ![e].token = token, ![e].attempt = 0,
            ![e].lease = FALSE, ![e].run = "none"]
          => NoneSettles
    BY DEF NoneSettles, SettledWell, Inv, StoreShape, Record
  <2>2. deliveries' = [deliveries EXCEPT
          ![e].status = "queued", ![e].token = deliveries[e].token + 1,
          ![e].attempt = 0, ![e].lease = FALSE, ![e].run = "none"]
    BY <1>5 DEF Redrive, Inv, StoreShape, Record
  <2> QED
    BY <1>1, <2>1, <2>2, ResumeQuiet
<1> QED
  BY <1>2, <1>3, <1>4, <1>5

LEMMA ResumeClaim ==
  ASSUME Inv, ResumeConsumes, NEW w \in Workers, Claim(w)
  PROVE  ResumeConsumes'
<1>1. PICK c \in Links :
        deliveries' = [deliveries EXCEPT
          ![c].status = "claimed", ![c].token = @ + 1, ![c].lease = TRUE,
          ![c].recovered = @ \/ deliveries[c].status \in Active]
  BY DEF Claim
<1>2. \A token, recovered :
        deliveries' = [deliveries EXCEPT
          ![c].status = "claimed", ![c].token = token, ![c].lease = TRUE,
          ![c].recovered = recovered]
        => deliveries'[c].status = "claimed"
  BY DEF Inv, StoreShape, Record
<1>3. deliveries'[c].status = "claimed"
  BY <1>1, <1>2
<1>4. \A d \in Links \ {c} : deliveries'[d] = deliveries[d]
  BY <1>1 DEF Inv, StoreShape
<1>5. NoneSettles
  BY <1>3, <1>4 DEF NoneSettles, SettledWell
<1>6. open' = open
  BY DEF Claim
<1> QED
  BY <1>5, <1>6, ResumeQuiet

(* The actions that end a delivery well consume what it was admitted to.   *)
LEMMA ResumeSettles ==
  ASSUME Inv, ResumeConsumes, NEW w \in Workers,
         \/ Complete(w)
         \/ workers[w].pc = "committing" /\ TransitionVerifier(w)
  PROVE  ResumeConsumes'
<1> DEFINE d == Mine(w)
           c == deliveries[d].admitted
<1>1. workers[w].pc # "idle" /\ d \in Links
  BY DEF Complete, Inv, WorkerShape
<1>2. CASE Complete(w)
  <2>1. c \notin open' /\ open' \subseteq open
    BY <1>1, <1>2, NoneIsNot DEF Complete, ConsumeAdmitted, Inv, StoreShape
  <2>2. \E status, run : SaveStatus(w, status, run)
    BY <1>2 DEF Complete
  <2>3. deliveries'[d].admitted = c
    BY <1>1, <2>2, SavedKeeps
  <2>4. \A e \in Links \ {d} : deliveries'[e] = deliveries[e]
    BY <2>2 DEF SaveStatus, Inv, StoreShape
  <2> QED
    BY <2>1, <2>3, <2>4 DEF ResumeConsumes
<1>3. CASE workers[w].pc = "committing" /\ TransitionVerifier(w)
  <2> DEFINE child == Child(d)
             n == Verifier(child)
  <2>1. child \in Links /\ child # d /\ n \in Possible
    BY <1>1, <1>3, ChildIs, VerifierIs DEF Inv, WorkerShape
  <2>2. deliveries[child].status = "absent"
    BY <1>3 DEF TransitionVerifier, Transitable
  <2>3. ~Seen(n)
    BY <2>1, <2>2 DEF Inv, VerifiersExist
  <2>4. open' = (open \ {c}) \cup {n}
    BY <1>3 DEF TransitionVerifier
  <2>5. deliveries' = [deliveries EXCEPT
          ![d].status = "waiting_event", ![d].run = "waiting_event",
          ![child] = Fresh("queued")]
    BY <1>3 DEF TransitionVerifier
  <2> HIDE DEF n, child
  <2>6. /\ deliveries'[d].admitted = c
        /\ deliveries'[child] = Fresh("queued")
        /\ \A e \in Links \ {d, child} : deliveries'[e] = deliveries[e]
    BY <1>1, <2>1, <2>5 DEF Inv, StoreShape, Record
  <2>7. c # n
    BY <1>1, <2>3 DEF Seen
  <2>8. c \notin open'
    BY <2>4, <2>7
  <2>9. deliveries'[child].status \notin SettledWell
    BY <2>6, FreshIs DEF SettledWell
  <2>10. \A e \in Links : deliveries[e].admitted # n
    BY <2>3 DEF Seen
  <2>11. ASSUME NEW e \in Links, deliveries'[e].status \in SettledWell
         PROVE  deliveries'[e].admitted \notin open'
    <3>1. CASE e = d
      BY <2>6, <2>8, <3>1
    <3>2. CASE e # d
      BY <2>4, <2>6, <2>9, <2>10, <2>11, <3>2 DEF ResumeConsumes, SettledWell
    <3> QED
      BY <3>1, <3>2
  <2> QED
    BY <2>11 DEF ResumeConsumes, SettledWell
<1> QED
  BY <1>2, <1>3

LEMMA ResumeAttempt ==
  ASSUME Inv, ResumeConsumes, NEW w \in Workers, Attempt(w) \/ Cancel(w) \/ Crash(w)
  PROVE  ResumeConsumes'
<1>1. CASE Complete(w) \/ CommitAcknowledged(w) \/ CommitUnacknowledged(w)
  BY <1>1, ResumeSettles DEF CommitAcknowledged, CommitUnacknowledged, At
<1>2. CASE Admit(w)
  <2>1. deliveries[Mine(w)].status \notin SettledWell
    BY <1>2 DEF Admit, ActiveClaim, Active, SettledWell, Mine
  <2>2. NoneSettles
    BY <1>2, <2>1 DEF Admit, NoneSettles, Inv, StoreShape, Record
  <2> QED
    BY <1>2, <2>2, ResumeQuiet DEF Admit
<1>3. CASE Invoke(w)
  <2>1. \A attempt :
          deliveries' = [deliveries EXCEPT
            ![Mine(w)].status = "running", ![Mine(w)].attempt = attempt,
            ![Mine(w)].run = "running"]
          => NoneSettles
    BY DEF NoneSettles, SettledWell, Inv, StoreShape, Record
  <2>2. Mine(w) \in Links
    BY <1>3 DEF Invoke, At, Inv, WorkerShape
  <2>3. deliveries' = [deliveries EXCEPT
          ![Mine(w)].status = "running",
          ![Mine(w)].attempt = deliveries[Mine(w)].attempt + 1,
          ![Mine(w)].run = "running"]
    BY <1>3, <2>2 DEF Invoke, Inv, StoreShape, Record
  <2> QED
    BY <1>3, <2>1, <2>3, ResumeQuiet DEF Invoke
<1>4. CASE SaveFinalizing(w)
  <2>1. NoneSettles
    BY <1>4 DEF SaveFinalizing, NoneSettles, Inv, StoreShape, Record
  <2> QED
    BY <1>4, <2>1, ResumeQuiet DEF SaveFinalizing
<1>5. CASE Register(w)
  <2>1. /\ workers[w].pc = "registering" /\ UNCHANGED deliveries
        /\ Mine(w) \in Links /\ workers[w].token \in Nat
    BY <1>5 DEF Register, At, Inv, WorkerShape, Place
  <2>2. ~Seen(Task(Mine(w), workers[w].token))
    BY <2>1 DEF Inv, TasksOld, Early
  <2>3. NoneSettles
    BY <2>1 DEF NoneSettles
  <2> QED
    BY <1>5, <2>2, <2>3, ResumeQuiet DEF Register, RegisterContinuation
<1>6. CASE Exhaust(w) \/ Fail(w) \/ Refuse(w) \/ Cancel(w)
  <2>1. /\ workers[w].pc # "idle" /\ open' = open
        /\ \/ \E status \in {"verification_failed", "queued", "cancelled"} :
                \E run : SaveStatus(w, status, run)
           \/ DeadLetter(w)
    BY <1>6 DEF Exhaust, Fail, Refuse, Cancel, At
  <2>2. {"verification_failed", "queued", "cancelled"} \cap SettledWell = {}
    BY DEF SettledWell
  <2>3. NoneSettles
    BY <2>1, <2>2, SavedUnsettled, DeadLetterUnsettled
  <2> QED
    BY <2>1, <2>3, ResumeQuiet
<1>7. CASE \/ Proceed(w) \/ AdmissionRefused(w) \/ TargetEnds(w) \/ CompleteFails(w)
           \/ CommitFails(w) \/ Confirm(w) \/ Lost(w) \/ Crash(w)
  <2>1. UNCHANGED deliveries /\ open' \subseteq open
    BY <1>7 DEF Proceed, AdmissionRefused, CompleteContinuation, TargetEnds,
       CompleteFails, CommitFails, Confirm, Lost, Crash, store
  <2>2. NoneSettles
    BY <2>1 DEF NoneSettles
  <2> QED
    BY <2>1, <2>2, ResumeQuiet
<1> QED
  BY <1>1, <1>2, <1>3, <1>4, <1>5, <1>6, <1>7 DEF Attempt

LEMMA ResumeStep == Inv /\ ResumeConsumes /\ [Next]_vars => ResumeConsumes'
<1> SUFFICES ASSUME Inv, ResumeConsumes, [Next]_vars PROVE ResumeConsumes'
  OBVIOUS
<1>1. CASE UNCHANGED vars
  BY <1>1 DEF vars, ResumeConsumes
<1>2. CASE Next
  BY <1>2, ResumeDeliveries, ResumeClaim, ResumeAttempt DEF Next
<1> QED
  BY <1>1, <1>2

LEMMA ResumeInit == Init => ResumeConsumes
BY DEF Init, ResumeConsumes

(* A resumed delivery that succeeded, or handed over to its next link, has *)
(* closed the continuation it answered, whatever was registered under the  *)
(* same key meanwhile: nothing is left to resume a second time.            *)
THEOREM ResumedConsumes == Spec => []ResumeConsumes
<1> QED
  BY ResumeInit, ResumeStep, ContinuationsInvariant, PTL DEF Spec

-----------------------------------------------------------------------------
(* What the actions of a worker write into the record of its delivery. *)

SavedAs(d, status) ==
  /\ \A e \in Links \ {d} : deliveries'[e] = deliveries[e]
  /\ deliveries'[d].status = status
  /\ deliveries'[d].token = deliveries[d].token
  /\ deliveries'[d].attempt = deliveries[d].attempt
  /\ deliveries'[d].lease = deliveries[d].lease
  /\ deliveries'[d].admitted = deliveries[d].admitted

LEMMA SaveIs ==
  ASSUME Inv, NEW w \in Workers, workers[w].pc # "idle",
         NEW status, NEW run, SaveStatus(w, status, run)
  PROVE  SavedAs(Mine(w), status)
<1>1. Mine(w) \in Links
  BY DEF Inv, WorkerShape
<1> QED
  BY <1>1 DEF SavedAs, SaveStatus, Inv, StoreShape, Record

LEMMA LetterIs ==
  ASSUME Inv, NEW w \in Workers, workers[w].pc # "idle", DeadLetter(w)
  PROVE  SavedAs(Mine(w), "dead_lettered")
<1>1. Mine(w) \in Links
  BY DEF Inv, WorkerShape
<1> QED
  BY <1>1 DEF SavedAs, DeadLetter, Inv, StoreShape, Record

(* The steps of a run before its attempt is counted.                       *)
Before == {"claimed", "invoking", "recovering", "refused"}

(* A worker ends its work on a delivery, which ends or is queued again.    *)
Finishes(w, status) ==
  /\ workers[w].pc # "idle" /\ ActiveClaim(w) /\ Leave(w)
  /\ SavedAs(Mine(w), status)
  /\ status \in Ended \cup {"queued"}
  /\ status = "queued" =>
       workers[w].pc \notin Before /\ deliveries[Mine(w)].attempt < MaxAttempts
  /\ deadLetters' = deadLetters
       \cup IF status = "dead_lettered" THEN {Mine(w)} ELSE {}
  /\ UNCHANGED <<committed, faults>>

LEMMA CompleteFinishes ==
  ASSUME Inv, NEW w \in Workers, Complete(w)
  PROVE  \E status \in SettledWell : Finishes(w, status)
<1>1. workers[w].pc # "idle" /\ ActiveClaim(w) /\ Leave(w)
      /\ UNCHANGED <<committed, faults, deadLetters>>
  BY DEF Complete
<1>2. \E status \in SettledWell : \E run : SaveStatus(w, status, run)
  BY DEF Complete, SettledWell
<1>3. PICK status \in SettledWell : SavedAs(Mine(w), status)
  BY <1>1, <1>2, SaveIs
<1>4. status \in Ended /\ status # "queued" /\ status # "dead_lettered"
  BY DEF SettledWell, Ended
<1> QED
  BY <1>1, <1>3, <1>4 DEF Finishes

LEMMA OthersFinish ==
  ASSUME Inv, NEW w \in Workers, Exhaust(w) \/ Fail(w) \/ Refuse(w) \/ Cancel(w)
  PROVE  /\ \E status : status \notin SettledWell /\ Finishes(w, status)
         /\ UNCHANGED <<open, expired>>
<1>1. workers[w].pc # "idle" /\ ActiveClaim(w) /\ Leave(w)
      /\ UNCHANGED <<committed, faults, open, expired>>
  BY DEF Exhaust, Fail, Refuse, Cancel, At
<1>2. CASE DeadLetter(w)
  <2>1. SavedAs(Mine(w), "dead_lettered")
    BY <1>1, <1>2, LetterIs
  <2>2. deadLetters' = deadLetters \cup {Mine(w)}
    BY <1>2 DEF DeadLetter
  <2> QED
    BY <1>1, <2>1, <2>2 DEF Finishes, SettledWell, Ended
<1>3. CASE /\ UNCHANGED deadLetters
           /\ \E status \in {"verification_failed", "cancelled"} : \E run :
                SaveStatus(w, status, run)
  <2>1. PICK status \in {"verification_failed", "cancelled"} :
          SavedAs(Mine(w), status)
    BY <1>1, <1>3, SaveIs
  <2> QED
    BY <1>1, <1>3, <2>1 DEF Finishes, SettledWell, Ended
<1>4. CASE /\ UNCHANGED deadLetters /\ workers[w].pc = "failing"
           /\ deliveries[Mine(w)].attempt < MaxAttempts
           /\ SaveStatus(w, "queued", "failed")
  <2>1. SavedAs(Mine(w), "queued")
    BY <1>1, <1>4, SaveIs
  <2> QED
    BY <1>1, <1>4, <2>1 DEF Finishes, SettledWell, Ended, Before
<1> QED
  BY <1>2, <1>3, <1>4 DEF Exhaust, Fail, Refuse, Cancel, At

(* Where a worker changes only where it is.                                *)
LEMMA SilentKeep ==
  ASSUME NEW w \in Workers,
         \/ Proceed(w) \/ AdmissionRefused(w) \/ TargetEnds(w) \/ Register(w)
         \/ CompleteFails(w) \/ CommitFails(w) \/ Confirm(w) \/ Lost(w) \/ Crash(w)
  PROVE  UNCHANGED <<deliveries, committed, deadLetters>>
BY DEF Proceed, AdmissionRefused, TargetEnds, Register, CompleteFails,
   CommitFails, Confirm, Lost, Crash, store

(* The other records that a step writes.                                   *)
InvokedAt(d) ==
  /\ \A e \in Links \ {d} : deliveries'[e] = deliveries[e]
  /\ deliveries'[d].status = "running"
  /\ deliveries'[d].token = deliveries[d].token
  /\ deliveries'[d].attempt = deliveries[d].attempt + 1
  /\ deliveries'[d].lease = deliveries[d].lease
  /\ deliveries'[d].admitted = deliveries[d].admitted

LEMMA InvokeIs ==
  ASSUME Inv, NEW w \in Workers, Invoke(w)
  PROVE  InvokedAt(Mine(w))
<1>1. Mine(w) \in Links
  BY DEF Invoke, At, Inv, WorkerShape
<1>2. \A attempt :
        deliveries' = [deliveries EXCEPT
          ![Mine(w)].status = "running", ![Mine(w)].attempt = attempt,
          ![Mine(w)].run = "running"]
        => /\ \A e \in Links \ {Mine(w)} : deliveries'[e] = deliveries[e]
           /\ deliveries'[Mine(w)].status = "running"
           /\ deliveries'[Mine(w)].token = deliveries[Mine(w)].token
           /\ deliveries'[Mine(w)].attempt = attempt
           /\ deliveries'[Mine(w)].lease = deliveries[Mine(w)].lease
           /\ deliveries'[Mine(w)].admitted = deliveries[Mine(w)].admitted
  BY <1>1 DEF Inv, StoreShape, Record
<1>3. deliveries' = [deliveries EXCEPT
        ![Mine(w)].status = "running",
        ![Mine(w)].attempt = deliveries[Mine(w)].attempt + 1,
        ![Mine(w)].run = "running"]
  BY <1>1 DEF Invoke, Inv, StoreShape, Record
<1> QED
  BY <1>2, <1>3 DEF InvokedAt

LEMMA FinalizingIs ==
  ASSUME Inv, NEW w \in Workers, SaveFinalizing(w)
  PROVE  SavedAs(Mine(w), deliveries[Mine(w)].status)
<1>1. Mine(w) \in Links
  BY DEF SaveFinalizing, At, Inv, WorkerShape
<1> QED
  BY <1>1 DEF SaveFinalizing, SavedAs, Inv, StoreShape, Record

AdmittedAs(d, c) ==
  /\ \A e \in Links \ {d} : deliveries'[e] = deliveries[e]
  /\ deliveries'[d].status = deliveries[d].status
  /\ deliveries'[d].token = deliveries[d].token
  /\ deliveries'[d].attempt = deliveries[d].attempt
  /\ deliveries'[d].lease = deliveries[d].lease
  /\ deliveries'[d].admitted = c

LEMMA AdmitIs ==
  ASSUME Inv, NEW w \in Workers, Admit(w)
  PROVE  AdmittedAs(Mine(w), keys[CorrelationOf(Mine(w))])
<1> DEFINE c == keys[CorrelationOf(Mine(w))]
<1>1. Mine(w) \in Links
  BY DEF Admit, At, Inv, WorkerShape
<1>2. deliveries' = [deliveries EXCEPT ![Mine(w)].admitted = c]
  BY DEF Admit
<1> HIDE DEF c
<1>3. AdmittedAs(Mine(w), c)
  BY <1>1, <1>2 DEF AdmittedAs, Inv, StoreShape, Record
<1> QED
  BY <1>3 DEF c

ClaimedAt(d) ==
  /\ \A e \in Links \ {d} : deliveries'[e] = deliveries[e]
  /\ deliveries'[d].status = "claimed"
  /\ deliveries'[d].token = deliveries[d].token + 1
  /\ deliveries'[d].attempt = deliveries[d].attempt
  /\ deliveries'[d].lease = TRUE
  /\ deliveries'[d].admitted = deliveries[d].admitted

ClaimedBy(w, d) ==
  /\ workers[w].pc = "idle"
  /\ \A v \in Workers \ {w} : workers'[v] = workers[v]
  /\ workers'[w].pc = "claimed" /\ Mine(w)' = d
  /\ workers'[w].token = deliveries[d].token + 1

LEMMA ClaimIs ==
  ASSUME Inv, NEW w \in Workers, Claim(w)
  PROVE  \E d \in Links : Claimable(d) /\ ClaimedAt(d) /\ ClaimedBy(w, d)
<1>1. PICK d \in Links :
        /\ Claimable(d)
        /\ deliveries' = [deliveries EXCEPT
             ![d].status = "claimed", ![d].token = @ + 1, ![d].lease = TRUE,
             ![d].recovered = @ \/ deliveries[d].status \in Active]
        /\ workers' = [workers EXCEPT ![w] =
             [Idle EXCEPT !.pc = "claimed", !.delivery = d,
                          !.token = deliveries[d].token + 1]]
  BY DEF Claim
<1>2. \A token, recovered :
        deliveries' = [deliveries EXCEPT
          ![d].status = "claimed", ![d].token = token, ![d].lease = TRUE,
          ![d].recovered = recovered]
        => /\ \A e \in Links \ {d} : deliveries'[e] = deliveries[e]
           /\ deliveries'[d].status = "claimed"
           /\ deliveries'[d].token = token
           /\ deliveries'[d].attempt = deliveries[d].attempt
           /\ deliveries'[d].lease = TRUE
           /\ deliveries'[d].admitted = deliveries[d].admitted
  BY DEF Inv, StoreShape, Record
<1>3. \E recovered : deliveries' = [deliveries EXCEPT
        ![d].status = "claimed", ![d].token = deliveries[d].token + 1,
        ![d].lease = TRUE, ![d].recovered = recovered]
  BY <1>1 DEF Inv, StoreShape, Record
<1>4. ClaimedAt(d)
  BY <1>2, <1>3 DEF ClaimedAt
<1>5. ClaimedBy(w, d)
  <2> DEFINE place == [Idle EXCEPT !.pc = "claimed", !.delivery = d,
                                   !.token = deliveries[d].token + 1]
  <2>1. /\ place.pc = "claimed" /\ place.delivery = d
        /\ place.token = deliveries[d].token + 1
    BY DEF Idle
  <2>2. workers' = [workers EXCEPT ![w] = place]
    BY <1>1
  <2> HIDE DEF place
  <2>3. /\ workers'[w] = place
        /\ \A v \in Workers \ {w} : workers'[v] = workers[v]
    BY <2>2 DEF Inv, WorkerShape
  <2>4. workers[w].pc = "idle"
    BY DEF Claim, At
  <2> QED
    BY <2>1, <2>3, <2>4 DEF ClaimedBy, Mine
<1> QED
  BY <1>1, <1>4, <1>5

RedrivenAt(d) ==
  /\ \A e \in Links \ {d} : deliveries'[e] = deliveries[e]
  /\ deliveries'[d].status = "queued"
  /\ deliveries'[d].token = deliveries[d].token + 1
  /\ deliveries'[d].attempt = 0
  /\ deliveries'[d].admitted = deliveries[d].admitted

LEMMA RedriveIs ==
  ASSUME Inv, NEW d \in Links, Redrive(d)
  PROVE  RedrivenAt(d)
<1>1. \A token :
        deliveries' = [deliveries EXCEPT
          ![d].status = "queued", ![d].token = token, ![d].attempt = 0,
          ![d].lease = FALSE, ![d].run = "none"]
        => /\ \A e \in Links \ {d} : deliveries'[e] = deliveries[e]
           /\ deliveries'[d].status = "queued"
           /\ deliveries'[d].token = token
           /\ deliveries'[d].attempt = 0
           /\ deliveries'[d].admitted = deliveries[d].admitted
  BY DEF Inv, StoreShape, Record
<1>2. deliveries' = [deliveries EXCEPT
        ![d].status = "queued", ![d].token = deliveries[d].token + 1,
        ![d].attempt = 0, ![d].lease = FALSE, ![d].run = "none"]
  BY DEF Redrive, Inv, StoreShape, Record
<1> QED
  BY <1>1, <1>2 DEF RedrivenAt

HandedAt(d, child) ==
  /\ \A e \in Links \ {d, child} : deliveries'[e] = deliveries[e]
  /\ deliveries'[d].status = "waiting_event"
  /\ deliveries'[d].token = deliveries[d].token
  /\ deliveries'[d].attempt = deliveries[d].attempt
  /\ deliveries'[d].admitted = deliveries[d].admitted
  /\ deliveries'[child] = Fresh("queued")

LEMMA HandoverIs ==
  ASSUME Inv, NEW w \in Workers, workers[w].pc = "committing", TransitionVerifier(w)
  PROVE  /\ Mine(w) \in Links /\ Child(Mine(w)) \in Links
         /\ ActiveClaim(w) /\ deliveries[Child(Mine(w))].status = "absent"
         /\ HandedAt(Mine(w), Child(Mine(w)))
<1> DEFINE d == Mine(w)
           child == Child(d)
<1>1. d \in Links /\ child \in Links /\ child # d
  BY ChildIs DEF Inv, WorkerShape
<1>2. /\ ActiveClaim(w) /\ deliveries[child].status = "absent"
      /\ deliveries' = [deliveries EXCEPT
           ![d].status = "waiting_event", ![d].run = "waiting_event",
           ![child] = Fresh("queued")]
  BY DEF TransitionVerifier, Transitable
<1> HIDE DEF d, child
<1>3. HandedAt(d, child)
  BY <1>1, <1>2 DEF HandedAt, Inv, StoreShape, Record
<1> QED
  BY <1>1, <1>2, <1>3 DEF d, child

-----------------------------------------------------------------------------
(* A chain is one line. *)

LettersEnded == \A d \in deadLetters : deliveries[d].status = "dead_lettered"

(* Behind a delivery of a chain all have handed over.                      *)
OneLine ==
  \A d, e \in Links :
    d[1] = e[1] /\ d[2] < e[2] /\ deliveries[e].status # "absent"
      => deliveries[d].status = "waiting_event"

OnlyTasksExpire == \A c \in expired : c \in open /\ c.kind = "task"

(* What was handed over stays open until it is consumed.                   *)
HandedOver ==
  \A d \in Links :
    d[2] > 0 /\ deliveries[d].status \notin SettledWell \cup {"absent"}
      => Verifier(d) \in open

OwnVerifier == \A d, e \in Links : deliveries[e].admitted = Verifier(d) => e = d

CommittedExist ==
  \A d \in Links : committed[d] # 0 => deliveries[d].status # "absent"

Line == OneLine /\ HandedOver /\ OwnVerifier /\ CommittedExist
ChainShape == deadLetters \subseteq Links /\ committed \in [Links -> Nat]
ChainInv == ChainShape /\ LettersEnded /\ OnlyTasksExpire /\ Line

(* What has not ended well may move, and nothing is made or taken away but *)
(* the head of a chain.                                                    *)
Moved(d) ==
  /\ deliveries[d].status \notin SettledWell /\ deliveries'[d].status # "absent"
  /\ deliveries[d].status = "absent" => d[2] = 0
StatusesMove ==
  \A d \in Links : deliveries'[d].status = deliveries[d].status \/ Moved(d)

LEMMA LinkIs ==
  ASSUME NEW d \in Links
  PROVE  d[1] \in Roots /\ d[2] \in Nat /\ d = <<d[1], d[2]>>
BY DEF Links

LEMMA LineKept ==
  ASSUME Inv, Line, StatusesMove,
         \A d \in Links : deliveries'[d].admitted = deliveries[d].admitted,
         \A d \in Links : Verifier(d) \in open =>
           Verifier(d) \in open' \/ deliveries'[d].status \in SettledWell,
         UNCHANGED committed
  PROVE  Line'
<1>1. OneLine'
  <2> SUFFICES ASSUME NEW d \in Links, NEW e \in Links, d[1] = e[1], d[2] < e[2],
                      deliveries'[e].status # "absent"
               PROVE  deliveries'[d].status = "waiting_event"
    BY DEF OneLine
  <2>1. e[2] # 0
    BY LinkIs
  <2>2. deliveries[e].status # "absent"
    BY <2>1 DEF StatusesMove, Moved
  <2>3. deliveries[d].status = "waiting_event"
    BY <2>2 DEF Line, OneLine
  <2> QED
    BY <2>3 DEF StatusesMove, Moved, SettledWell
<1>2. HandedOver'
  <2> SUFFICES ASSUME NEW d \in Links, d[2] > 0,
                      deliveries'[d].status \notin SettledWell \cup {"absent"}
               PROVE  Verifier(d) \in open'
    BY DEF HandedOver, Verifier
  <2>1. d[2] # 0
    BY LinkIs
  <2>2. deliveries[d].status \notin SettledWell \cup {"absent"}
    BY <2>1 DEF StatusesMove, Moved
  <2> QED
    BY <2>2 DEF Line, HandedOver
<1>3. OwnVerifier'
  BY DEF Line, OwnVerifier, Verifier
<1>4. CommittedExist'
  BY DEF Line, CommittedExist, StatusesMove, Moved
<1> QED
  BY <1>1, <1>2, <1>3, <1>4 DEF Line

LEMMA SavedMoves ==
  ASSUME Inv, NEW w \in Workers, ActiveClaim(w), NEW status, status # "absent",
         SavedAs(Mine(w), status)
  PROVE  StatusesMove
<1>1. deliveries[Mine(w)].status \in Active
  BY DEF ActiveClaim, Mine
<1> QED
  BY <1>1 DEF StatusesMove, Moved, SavedAs, Active, SettledWell

LEMMA SavedAdmissions ==
  ASSUME NEW d, NEW status, SavedAs(d, status)
  PROVE  \A e \in Links : deliveries'[e].admitted = deliveries[e].admitted
BY DEF SavedAs

(* A claim that holds is of a delivery without a dead letter.              *)
LEMMA LettersKept ==
  ASSUME Inv, LettersEnded, NEW w \in Workers, workers[w].pc # "idle",
         ActiveClaim(w), NEW status, SavedAs(Mine(w), status),
         deadLetters' = deadLetters
           \cup IF status = "dead_lettered" THEN {Mine(w)} ELSE {},
         deadLetters \subseteq Links
  PROVE  LettersEnded'
<1>1. deliveries[Mine(w)].status \in Active
  BY DEF ActiveClaim, Mine
<1>2. Mine(w) \notin deadLetters
  BY <1>1 DEF LettersEnded, Active
<1> QED
  BY <1>2 DEF LettersEnded, SavedAs

LEMMA ChainQuiet ==
  ASSUME Inv, ChainInv, UNCHANGED <<deliveries, committed, deadLetters>>,
         OnlyTasksExpire',
         \A d \in Links : Verifier(d) \in open => Verifier(d) \in open'
  PROVE  ChainInv'
<1>1. StatusesMove
  BY DEF StatusesMove
<1>2. Line'
  BY <1>1, LineKept DEF ChainInv
<1> QED
  BY <1>2 DEF ChainInv, ChainShape, LettersEnded

LEMMA ChainPublish == ASSUME Inv, ChainInv, Publish PROVE ChainInv'
<1>1. PICK r \in Resumes :
        /\ deliveries[<<r, 0>>].status = "absent"
        /\ deliveries' = [deliveries EXCEPT ![<<r, 0>>] = Fresh("queued")]
  BY DEF Publish
<1>2. <<r, 0>> \in Links
  BY BoundsAssumption DEF Links, Roots
<1>3. UNCHANGED <<open, expired, committed, deadLetters>>
  BY DEF Publish
<1> DEFINE d == <<r, 0>>
<1>4. /\ d \in Links /\ d[2] = 0
      /\ deliveries'[d] = Fresh("queued") /\ deliveries[d].status = "absent"
      /\ \A e \in Links \ {d} : deliveries'[e] = deliveries[e]
  BY <1>1, <1>2 DEF Inv, StoreShape
<1> HIDE DEF d
<1>5. StatusesMove
  BY <1>4, FreshIs DEF StatusesMove, Moved, SettledWell
<1>6. \A e \in Links : deliveries'[e].admitted = deliveries[e].admitted
  BY <1>4, FreshIs DEF Inv, AbsentFresh
<1>7. Line'
  BY <1>3, <1>5, <1>6, LineKept DEF ChainInv
<1>8. LettersEnded'
  BY <1>3, <1>4 DEF ChainInv, ChainShape, LettersEnded
<1> QED
  BY <1>3, <1>7, <1>8 DEF ChainInv, ChainShape, OnlyTasksExpire

LEMMA ChainExpire == ASSUME Inv, ChainInv, Expire PROVE ChainInv'
<1>1. OnlyTasksExpire'
  BY DEF Expire, ChainInv, OnlyTasksExpire
<1> QED
  BY <1>1, ChainQuiet DEF Expire

LEMMA ChainLeaseExpires ==
  ASSUME Inv, ChainInv, NEW d \in Links, LeaseExpires(d) PROVE ChainInv'
<1>1. UNCHANGED <<open, expired, committed, deadLetters>>
  BY DEF LeaseExpires
<1>2. \A e \in Links : /\ deliveries'[e].status = deliveries[e].status
                       /\ deliveries'[e].admitted = deliveries[e].admitted
  BY DEF LeaseExpires, Inv, StoreShape, Record
<1>3. StatusesMove
  BY <1>2 DEF StatusesMove
<1>4. Line'
  BY <1>1, <1>2, <1>3, LineKept DEF ChainInv
<1> QED
  BY <1>1, <1>2, <1>4 DEF ChainInv, ChainShape, OnlyTasksExpire, LettersEnded

(* Only what is a dead letter, and nothing that handed over, is redriven.  *)
LEMMA ChainRedrive ==
  ASSUME ~StaleDeadLetters, Inv, ChainInv, NEW d \in Links, Redrive(d)
  PROVE  ChainInv'
<1>1. /\ UNCHANGED <<open, expired, committed>>
      /\ d \in deadLetters /\ deadLetters' = deadLetters \ {d}
  BY DEF Redrive
<1>2. RedrivenAt(d) /\ deliveries[d].status = "dead_lettered"
  BY <1>1, RedriveIs DEF ChainInv, LettersEnded
<1>3. StatusesMove
  BY <1>2 DEF StatusesMove, Moved, SettledWell, RedrivenAt
<1>4. \A e \in Links : deliveries'[e].admitted = deliveries[e].admitted
  BY <1>2 DEF RedrivenAt
<1>5. Line'
  BY <1>1, <1>3, <1>4, LineKept DEF ChainInv
<1>6. LettersEnded'
  BY <1>1, <1>2 DEF ChainInv, ChainShape, LettersEnded, RedrivenAt
<1> QED
  BY <1>1, <1>5, <1>6 DEF ChainInv, ChainShape, OnlyTasksExpire

LEMMA ChainClaim ==
  ASSUME Inv, ChainInv, NEW w \in Workers, Claim(w) PROVE ChainInv'
<1>1. UNCHANGED <<open, expired, committed, deadLetters>>
  BY DEF Claim
<1>2. PICK d \in Links : Claimable(d) /\ ClaimedAt(d)
  BY ClaimIs
<1>3. deliveries[d].status \in {"queued", "claimed", "running"}
  BY <1>2 DEF Claimable, Active
<1>4. StatusesMove
  BY <1>2, <1>3 DEF StatusesMove, Moved, SettledWell, ClaimedAt
<1>5. \A e \in Links : deliveries'[e].admitted = deliveries[e].admitted
  BY <1>2 DEF ClaimedAt
<1>6. Line'
  BY <1>1, <1>4, <1>5, LineKept DEF ChainInv
<1>7. LettersEnded'
  BY <1>1, <1>2, <1>3 DEF ChainInv, ChainShape, LettersEnded, ClaimedAt
<1> QED
  BY <1>1, <1>6, <1>7 DEF ChainInv, ChainShape, OnlyTasksExpire

(* A resumed link is only admitted to what was handed over to it.          *)
LEMMA AdmittedOwn ==
  ASSUME Inv, NEW d \in Links, NEW e \in Links,
         keys[CorrelationOf(d)] \in open, keys[CorrelationOf(d)] = Verifier(e)
  PROVE  e = d
<1>1. KeyOf(keys[CorrelationOf(d)]) = CorrelationOf(d)
  BY CorrelationIs, NoneIsNot DEF Inv, KeysAgree, StoreShape
<1>2. CorrelationOf(d) = e
  BY <1>1, VerifierIs
<1> QED
  BY <1>2, KeysApart DEF CorrelationOf

LEMMA ChainAdmit ==
  ASSUME Inv, ChainInv, NEW w \in Workers, Admit(w) PROVE ChainInv'
<1> DEFINE d == Mine(w)
           c == keys[CorrelationOf(d)]
<1>1. /\ UNCHANGED <<open, expired, committed, deadLetters>>
      /\ c \in open /\ d \in Links
  BY DEF Admit, At, Inv, WorkerShape
<1>2. AdmittedAs(d, c)
  BY AdmitIs
<1>3. \A e \in Links : c = Verifier(e) => e = d
  BY <1>1, AdmittedOwn
<1> HIDE DEF c, d
<1>4. \A e \in Links : deliveries'[e].status = deliveries[e].status
  BY <1>2 DEF AdmittedAs
<1>5. OwnVerifier'
  BY <1>2, <1>3 DEF AdmittedAs, ChainInv, Line, OwnVerifier, Verifier
<1>6. OneLine' /\ CommittedExist'
  BY <1>1, <1>4 DEF ChainInv, Line, OneLine, CommittedExist
<1>7. HandedOver'
  BY <1>1, <1>4 DEF ChainInv, Line, HandedOver, Verifier
<1>8. LettersEnded' /\ OnlyTasksExpire' /\ ChainShape'
  BY <1>1, <1>4 DEF ChainInv, ChainShape, LettersEnded, OnlyTasksExpire
<1> QED
  BY <1>5, <1>6, <1>7, <1>8 DEF ChainInv, Line

LEMMA ChainInvoke ==
  ASSUME Inv, ChainInv, NEW w \in Workers, Invoke(w) PROVE ChainInv'
<1>1. /\ UNCHANGED <<open, expired, committed, deadLetters>>
      /\ deliveries[Mine(w)].status \in Active
  BY DEF Invoke, ActiveClaim, Mine
<1>2. InvokedAt(Mine(w))
  BY InvokeIs
<1>3. StatusesMove
  BY <1>1, <1>2 DEF StatusesMove, Moved, SettledWell, InvokedAt, Active
<1>4. \A e \in Links : deliveries'[e].admitted = deliveries[e].admitted
  BY <1>2 DEF InvokedAt
<1>5. Line'
  BY <1>1, <1>3, <1>4, LineKept DEF ChainInv
<1>6. LettersEnded'
  BY <1>1, <1>2 DEF ChainInv, ChainShape, LettersEnded, InvokedAt, Active
<1> QED
  BY <1>1, <1>5, <1>6 DEF ChainInv, ChainShape, OnlyTasksExpire

LEMMA ChainFinalizing ==
  ASSUME Inv, ChainInv, NEW w \in Workers, SaveFinalizing(w) PROVE ChainInv'
<1>1. UNCHANGED <<open, expired, committed, deadLetters>>
  BY DEF SaveFinalizing
<1>2. \A e \in Links : /\ deliveries'[e].status = deliveries[e].status
                       /\ deliveries'[e].admitted = deliveries[e].admitted
  BY FinalizingIs DEF SavedAs
<1>3. StatusesMove
  BY <1>2 DEF StatusesMove
<1>4. Line'
  BY <1>1, <1>2, <1>3, LineKept DEF ChainInv
<1> QED
  BY <1>1, <1>2, <1>4 DEF ChainInv, ChainShape, OnlyTasksExpire, LettersEnded

LEMMA ChainFinishes ==
  ASSUME Inv, ChainInv, NEW w \in Workers, NEW status, Finishes(w, status),
         OnlyTasksExpire',
         \A d \in Links : Verifier(d) \in open =>
           Verifier(d) \in open' \/ (d = Mine(w) /\ status \in SettledWell)
  PROVE  ChainInv'
<1>1. /\ workers[w].pc # "idle" /\ ActiveClaim(w) /\ SavedAs(Mine(w), status)
      /\ status # "absent" /\ Mine(w) \in Links
      /\ UNCHANGED committed
  BY DEF Finishes, Ended, Inv, WorkerShape
<1>2. StatusesMove /\ LettersEnded'
  BY <1>1, SavedMoves, LettersKept DEF Finishes, ChainInv, ChainShape
<1>3. \A d \in Links : deliveries'[d].admitted = deliveries[d].admitted
  BY <1>1, SavedAdmissions
<1>4. deliveries'[Mine(w)].status = status
  BY <1>1 DEF SavedAs
<1>5. Line'
  BY <1>1, <1>2, <1>3, <1>4, LineKept DEF ChainInv
<1>6. ChainShape'
  BY <1>1 DEF Finishes, ChainInv, ChainShape
<1> QED
  BY <1>2, <1>5, <1>6 DEF ChainInv

LEMMA ChainComplete ==
  ASSUME Inv, ChainInv, NEW w \in Workers, Complete(w) PROVE ChainInv'
<1> DEFINE c == deliveries[Mine(w)].admitted
<1>1. PICK status \in SettledWell : Finishes(w, status)
  BY CompleteFinishes
<1>2. Mine(w) \in Links
  BY <1>1 DEF Finishes, Inv, WorkerShape
<1>3. open \ {c} \subseteq open' /\ open' \subseteq open
      /\ expired' \subseteq expired /\ (expired' = expired \/ expired' = expired \ {c})
      /\ (open' = open \/ c \notin expired')
  BY DEF Complete, ConsumeAdmitted
<1>4. OnlyTasksExpire'
  BY <1>3 DEF ChainInv, OnlyTasksExpire
<1>5. \A d \in Links : c = Verifier(d) => d = Mine(w)
  BY <1>2 DEF ChainInv, Line, OwnVerifier
<1> QED
  BY <1>1, <1>3, <1>4, <1>5, ChainFinishes

LEMMA ChainRefused ==
  ASSUME Inv, ChainInv, NEW w \in Workers, AdmissionRefused(w) PROVE ChainInv'
<1> DEFINE c == keys[CorrelationOf(Mine(w))]
<1>1. CASE UNCHANGED <<open, expired>>
  BY <1>1, SilentKeep, ChainQuiet DEF ChainInv, OnlyTasksExpire
<1>2. CASE c \in expired /\ CompleteContinuation(c)
  <2>1. open' = open \ {c} /\ expired' = expired \ {c} /\ c.kind = "task"
    BY <1>2 DEF CompleteContinuation, ChainInv, OnlyTasksExpire
  <2>2. OnlyTasksExpire'
    BY <2>1 DEF ChainInv, OnlyTasksExpire
  <2>3. \A d \in Links : Verifier(d) # c
    BY <2>1 DEF Verifier
  <2> QED
    BY <2>1, <2>2, <2>3, SilentKeep, ChainQuiet
<1> QED
  BY <1>1, <1>2 DEF AdmissionRefused

LEMMA OneLineHandedOver ==
  ASSUME Inv, ChainInv, NEW d \in Links, Child(d) \in Links,
         deliveries[d].status \in Active, deliveries[Child(d)].status = "absent",
         HandedAt(d, Child(d))
  PROVE  OneLine'
<1> DEFINE child == Child(d)
<1>1. /\ child \in Links /\ child # d
      /\ child[1] = d[1] /\ child[2] = d[2] + 1
  BY ChildIs DEF Child
<1>2. HandedAt(d, child) /\ deliveries[child].status = "absent"
      /\ deliveries[d].status \notin {"absent", "waiting_event"}
  BY DEF Active
<1> HIDE DEF child
<1> SUFFICES ASSUME NEW x \in Links, NEW y \in Links, x[1] = y[1], x[2] < y[2],
                    deliveries'[y].status # "absent"
             PROVE  deliveries'[x].status = "waiting_event"
  BY DEF OneLine
<1>3. CASE y = child
  <2>1. CASE x[2] = d[2]
    <3>1. x = d
      BY <1>1, <1>3, <2>1, LinkIs
    <3> QED
      BY <1>2, <3>1 DEF HandedAt
  <2>2. CASE x[2] < d[2]
    <3>1. deliveries[x].status = "waiting_event"
      BY <1>1, <1>2, <1>3, <2>2 DEF ChainInv, Line, OneLine
    <3> QED
      BY <1>2, <3>1 DEF HandedAt
  <2> QED
    BY <1>1, <1>3, <2>1, <2>2, LinkIs
<1>4. CASE y # child
  <2>1. deliveries[y].status # "absent"
    BY <1>2, <1>4 DEF HandedAt
  <2>2. deliveries[x].status = "waiting_event"
    BY <2>1 DEF ChainInv, Line, OneLine
  <2> QED
    BY <1>2, <2>2 DEF HandedAt
<1> QED
  BY <1>3, <1>4

LEMMA ChainHandover ==
  ASSUME Inv, ChainInv, NEW w \in Workers, workers[w].pc = "committing",
         TransitionVerifier(w)
  PROVE  ChainInv'
<1> DEFINE d == Mine(w)
           child == Child(d)
           c == deliveries[d].admitted
           n == Verifier(child)
<1>1. /\ d \in Links /\ child \in Links /\ child # d
      /\ deliveries[d].status \in Active /\ deliveries[child].status = "absent"
      /\ HandedAt(d, child)
  BY HandoverIs, ChildIs DEF ActiveClaim, Mine
<1>2. /\ open' = (open \ {c}) \cup {n} /\ expired' = expired \ {c}
      /\ committed' = [committed EXCEPT ![child] = workers[w].token]
      /\ UNCHANGED deadLetters
  BY DEF TransitionVerifier
<1>3. workers[w].token \in Nat
  BY DEF Inv, WorkerShape, Place
<1>4. OneLine'
  BY <1>1, OneLineHandedOver
<1>5. \A e \in Links : c = Verifier(e) => e = d
  BY <1>1 DEF ChainInv, Line, OwnVerifier
<1>6. \A e \in Links : None # Verifier(e)
  BY DEF None, Verifier
<1> HIDE DEF c, n, d, child
<1>7. deliveries'[child].status = "queued" /\ deliveries'[child].admitted = None
      /\ deliveries'[d].status = "waiting_event"
      /\ deliveries'[d].admitted = deliveries[d].admitted
      /\ \A e \in Links \ {d, child} : deliveries'[e] = deliveries[e]
  BY <1>1, FreshIs DEF HandedAt
<1>8. HandedOver'
  <2> SUFFICES ASSUME NEW e \in Links, e[2] > 0,
                      deliveries'[e].status \notin SettledWell \cup {"absent"}
               PROVE  Verifier(e) \in open'
    BY DEF HandedOver, Verifier
  <2>1. CASE e = child
    BY <1>2, <2>1 DEF n
  <2>2. CASE e # child
    <3>1. e # d /\ deliveries'[e] = deliveries[e]
      BY <1>7, <2>2 DEF SettledWell
    <3>2. Verifier(e) \in open /\ Verifier(e) # c
      BY <1>5, <3>1 DEF ChainInv, Line, HandedOver
    <3> QED
      BY <1>2, <3>2
  <2> QED
    BY <2>1, <2>2
<1>9. OwnVerifier'
  BY <1>1, <1>6, <1>7 DEF ChainInv, Line, OwnVerifier, Verifier
<1>10. CommittedExist' /\ ChainShape'
  BY <1>1, <1>2, <1>3, <1>7 DEF ChainInv, ChainShape, Line, CommittedExist
<1>11. LettersEnded'
  BY <1>1, <1>2, <1>7 DEF ChainInv, ChainShape, LettersEnded, Active
<1>12. OnlyTasksExpire'
  BY <1>2 DEF ChainInv, OnlyTasksExpire
<1> QED
  BY <1>4, <1>8, <1>9, <1>10, <1>11, <1>12 DEF ChainInv, Line

LEMMA ChainAttempt ==
  ASSUME Inv, ChainInv, NEW w \in Workers, Attempt(w) \/ Cancel(w) \/ Crash(w)
  PROVE  ChainInv'
<1>1. CASE CommitAcknowledged(w) \/ CommitUnacknowledged(w)
  BY <1>1, ChainHandover DEF CommitAcknowledged, CommitUnacknowledged, At
<1>2. CASE Exhaust(w) \/ Fail(w) \/ Refuse(w) \/ Cancel(w)
  <2>1. OnlyTasksExpire' /\ open' = open
    BY <1>2, OthersFinish DEF ChainInv, OnlyTasksExpire
  <2> QED
    BY <1>2, <2>1, OthersFinish, ChainFinishes
<1>3. CASE Register(w)
  <2>1. open \subseteq open' /\ expired' = expired
    BY <1>3 DEF Register, RegisterContinuation
  <2>2. OnlyTasksExpire'
    BY <2>1 DEF ChainInv, OnlyTasksExpire
  <2> QED
    BY <1>3, <2>1, <2>2, SilentKeep, ChainQuiet
<1>4. CASE \/ Proceed(w) \/ TargetEnds(w) \/ CompleteFails(w) \/ CommitFails(w)
           \/ Confirm(w) \/ Lost(w) \/ Crash(w)
  <2>1. UNCHANGED <<open, expired>>
    BY <1>4 DEF Proceed, TargetEnds, CompleteFails, CommitFails, Confirm, Lost,
       Crash, store
  <2>2. OnlyTasksExpire'
    BY <2>1 DEF ChainInv, OnlyTasksExpire
  <2> QED
    BY <1>4, <2>1, <2>2, SilentKeep, ChainQuiet
<1> QED
  BY <1>1, <1>2, <1>3, <1>4, ChainAdmit, ChainRefused, ChainInvoke,
     ChainFinalizing, ChainComplete DEF Attempt

LEMMA ChainInit == Init => ChainInv
<1> SUFFICES ASSUME Init PROVE ChainInv
  OBVIOUS
<1>1. /\ open = {} /\ expired = {} /\ deadLetters = {}
      /\ committed = [d \in Links |-> 0]
  BY DEF Init
<1>2. \A d \in Links :
        /\ deliveries[d].status \in {"queued", "absent"}
        /\ d[2] # 0 => deliveries[d].status = "absent"
        /\ deliveries[d].admitted = None
  BY FreshIs DEF Init
<1>3. OneLine
  BY <1>2, LinkIs DEF OneLine
<1>4. OwnVerifier
  BY <1>2 DEF OwnVerifier, Verifier, None
<1> QED
  BY <1>1, <1>2, <1>3, <1>4, LinkIs DEF ChainInv, ChainShape, LettersEnded,
     OnlyTasksExpire, Line, HandedOver, CommittedExist

LEMMA ChainStep ==
  ASSUME ~StaleDeadLetters, Inv, ChainInv, [Next]_vars PROVE ChainInv'
<1>1. CASE UNCHANGED vars
  BY <1>1, ChainQuiet DEF vars, ChainInv, OnlyTasksExpire
<1>2. CASE Next
  BY <1>2, ChainPublish, ChainExpire, ChainLeaseExpires, ChainRedrive, ChainClaim,
     ChainAttempt DEF Next
<1> QED
  BY <1>1, <1>2

(* In a chain of verifications, where a redriven dead letter is removed,   *)
(* whatever is before the last delivery has handed over, and what was      *)
(* handed over stays open until its delivery consumes it.                  *)
THEOREM ChainsAreLines == Spec => [](~StaleDeadLetters => ChainInv)
<1>1. Init => (~StaleDeadLetters => ChainInv)
  BY ChainInit
<1>2. Inv /\ (~StaleDeadLetters => ChainInv) /\ [Next]_vars
        => (~StaleDeadLetters => ChainInv)'
  BY ChainStep
<1> QED
  BY <1>1, <1>2, ContinuationsInvariant, PTL DEF Spec

LEMMA CommittedStays ==
  ASSUME Inv, ChainInv, [Next]_vars, NEW d \in Links, committed[d] # 0
  PROVE  committed'[d] = committed[d]
<1>1. ASSUME NEW w \in Workers, workers[w].pc = "committing", TransitionVerifier(w)
      PROVE  committed'[d] = committed[d]
  <2>1. deliveries[Child(Mine(w))].status = "absent" /\ Child(Mine(w)) \in Links
    BY <1>1, HandoverIs
  <2>2. Child(Mine(w)) # d
    BY <2>1 DEF ChainInv, Line, CommittedExist
  <2> QED
    BY <1>1, <2>2 DEF TransitionVerifier, ChainInv, ChainShape
<1>2. ASSUME NEW w \in Workers, Attempt(w) PROVE committed'[d] = committed[d]
  <2>1. CASE CommitAcknowledged(w) \/ CommitUnacknowledged(w)
    BY <1>1, <2>1 DEF CommitAcknowledged, CommitUnacknowledged, At
  <2>2. CASE \/ Admit(w) \/ Invoke(w) \/ SaveFinalizing(w) \/ Complete(w)
             \/ Exhaust(w) \/ Fail(w) \/ Refuse(w)
    BY <2>2 DEF Admit, Invoke, SaveFinalizing, Complete, Exhaust, Fail, Refuse
  <2> QED
    BY <1>2, <2>1, <2>2, SilentKeep DEF Attempt
<1>3. CASE \/ Publish \/ Expire \/ \E e \in Links : LeaseExpires(e) \/ Redrive(e)
           \/ \E w \in Workers : Claim(w) \/ Cancel(w)
           \/ UNCHANGED vars
  BY <1>3 DEF Publish, Expire, LeaseExpires, Redrive, Claim, Cancel, vars
<1> QED
  BY <1>2, <1>3, SilentKeep DEF Next

(* A handover that was committed stands: its parent stays in waiting_event *)
(* whatever late worker, retry or cancellation comes (the transition       *)
(* record of the verifier).                                                *)
THEOREM HandoversStand == Spec => (~StaleDeadLetters => ParentNotRegressed)
<1>1. ASSUME ~StaleDeadLetters, Inv, ChainInv, [Next]_vars,
             NEW d \in Links, d[2] > 0 /\ committed[d] # 0
      PROVE  deliveries'[<<d[1], d[2] - 1>>].status = "waiting_event"
  <2> DEFINE parent == <<d[1], d[2] - 1>>
  <2>1. parent \in Links /\ parent[1] = d[1] /\ parent[2] < d[2]
    BY <1>1, BoundsAssumption DEF Links
  <2>2. ChainInv' /\ committed'[d] # 0
    BY <1>1, ChainStep, CommittedStays
  <2>3. deliveries'[d].status # "absent"
    BY <2>2 DEF ChainInv, Line, CommittedExist
  <2> HIDE DEF parent
  <2>4. deliveries'[parent].status = "waiting_event"
    BY <2>1, <2>2, <2>3 DEF ChainInv, Line, OneLine
  <2> QED
    BY <2>4 DEF parent
<1>2. ~StaleDeadLetters /\ Inv /\ ChainInv /\ [Next]_vars =>
        [\A d \in Links :
           d[2] > 0 /\ committed[d] # 0
             => deliveries'[<<d[1], d[2] - 1>>].status = "waiting_event"]_vars
  BY <1>1
<1>3. CASE StaleDeadLetters
  BY <1>3
<1>4. CASE ~StaleDeadLetters
  BY <1>2, <1>4, ContinuationsInvariant, ChainsAreLines, PTL
     DEF Spec, ParentNotRegressed
<1> QED
  BY <1>3, <1>4

-----------------------------------------------------------------------------
(* Tokens are paid for by attempts and faults. *)

(* A fault pays for a redrive and the attempts that follow it.             *)
Paid == faults * (MaxAttempts + 1)
Counted(r) == IF r.attempt < MaxAttempts THEN r.attempt ELSE MaxAttempts
Earned(r) == r.token <= Paid + Counted(r)

(* The claim a delivery was last given is at work.                         *)
Held(d) ==
  /\ deliveries[d].lease
  /\ \E w \in Workers :
       /\ workers[w].pc # "idle"
       /\ Mine(w) = d /\ workers[w].token = deliveries[d].token

(* A claim runs ahead of its attempt by one; who lost it left a fault.     *)
PaidFor(d) ==
  /\ deliveries[d].token <= Paid + Counted(deliveries[d]) + 1
  /\ Earned(deliveries[d]) \/ deliveries[d].attempt < MaxAttempts
  /\ deliveries[d].attempt <= MaxAttempts + faults
  /\ deliveries[d].status = "queued" =>
       Earned(deliveries[d]) /\ deliveries[d].attempt < MaxAttempts
  /\ deliveries[d].status \in Active /\ ~Held(d) =>
       /\ deliveries[d].token + 1 <= Paid + Counted(deliveries[d])
       /\ deliveries[d].attempt < MaxAttempts + faults

EarnedBy(w) ==
  workers[w].pc # "idle" /\ ActiveClaim(w) =>
    IF workers[w].pc \in Before
    THEN deliveries[Mine(w)].attempt < MaxAttempts + faults
    ELSE Earned(deliveries[Mine(w)])

TokensPaid ==
  /\ faults \in 0..MaxFaults
  /\ \A d \in Links : PaidFor(d)
  /\ \A w \in Workers : EarnedBy(w)

LEMMA MaxAttemptsIs == MaxAttempts \in Nat /\ MaxAttempts >= 1 /\ MaxFaults \in Nat
BY BoundsAssumption

LEMMA PaidIs ==
  ASSUME faults \in Nat
  PROVE  Paid \in Nat
BY MaxAttemptsIs DEF Paid

NoFault == faults' = faults
OneFault == faults' = faults + 1

LEMMA PaidGrows ==
  ASSUME faults \in Nat
  PROVE  /\ NoFault => Paid' = Paid
         /\ OneFault => Paid' = Paid + MaxAttempts + 1
BY MaxAttemptsIs DEF Paid, NoFault, OneFault

LEMMA FaultIs ==
  ASSUME faults \in 0..MaxFaults
  PROVE  Fault => OneFault /\ faults' \in 0..MaxFaults
BY MaxAttemptsIs DEF Fault, OneFault

(* What the type invariant says of tokens and attempts.                    *)
LEMMA PaidBounds ==
  ASSUME Inv, TokensPaid, NEW d \in Links
  PROVE  /\ deliveries[d].token \in 0..MaxToken
         /\ deliveries[d].attempt \in 0..MaxAttempts + MaxFaults
<1>1. /\ deliveries[d].token \in Nat /\ deliveries[d].attempt \in Nat
      /\ faults \in Nat /\ faults <= MaxFaults /\ PaidFor(d)
  BY MaxAttemptsIs DEF Inv, StoreShape, Record, TokensPaid
<1>2. Paid <= MaxFaults * (MaxAttempts + 1)
  BY <1>1, MaxAttemptsIs DEF Paid
<1>3. MaxToken = MaxFaults * (MaxAttempts + 1) + MaxAttempts + 1
  BY MaxAttemptsIs DEF MaxToken
<1>4. Counted(deliveries[d]) <= MaxAttempts /\ Counted(deliveries[d]) \in Nat
  BY <1>1, MaxAttemptsIs DEF Counted
<1>5. Paid \in Nat /\ MaxFaults * (MaxAttempts + 1) \in Nat
  BY <1>1, PaidIs, MaxAttemptsIs
<1>6. deliveries[d].token <= MaxToken
  <2>1. deliveries[d].token <= Paid + Counted(deliveries[d]) + 1
    BY <1>1 DEF PaidFor
  <2> HIDE DEF Counted
  <2> QED
    BY <1>1, <1>2, <1>3, <1>4, <1>5, <2>1, MaxAttemptsIs
<1>7. deliveries[d].attempt <= MaxAttempts + MaxFaults
  BY <1>1, MaxAttemptsIs DEF PaidFor
<1>8. MaxToken \in Nat
  BY <1>3, <1>5, MaxAttemptsIs
<1> QED
  BY <1>1, <1>6, <1>7, <1>8, MaxAttemptsIs

(* What tokens, attempts and claims are about is as it was.                *)
SameWork(d) ==
  /\ deliveries'[d].status = deliveries[d].status
  /\ deliveries'[d].token = deliveries[d].token
  /\ deliveries'[d].attempt = deliveries[d].attempt
  /\ deliveries'[d].lease = deliveries[d].lease

(* A delivery a step does not write, or releases by a fault.               *)
LEMMA PaidForKept ==
  ASSUME Inv, TokensPaid, NEW d \in Links, NoFault \/ OneFault,
         /\ deliveries'[d].status = deliveries[d].status
         /\ deliveries'[d].token = deliveries[d].token
         /\ deliveries'[d].attempt = deliveries[d].attempt,
         deliveries[d].status \in Active /\ Held(d) => Held(d)' \/ OneFault
  PROVE  PaidFor(d)'
<1>1. /\ deliveries[d].token \in Nat /\ deliveries[d].attempt \in Nat
      /\ faults \in Nat /\ PaidFor(d)
  BY MaxAttemptsIs DEF Inv, StoreShape, Record, TokensPaid
<1>2. Paid \in Nat
  BY <1>1, PaidIs
<1>3. CASE NoFault
  <2>1. Paid' = Paid /\ faults' = faults
    BY <1>1, <1>3, PaidGrows DEF NoFault
  <2>2. ~OneFault
    BY <1>1, <1>3 DEF NoFault, OneFault
  <2> QED
    BY <1>1, <1>2, <2>1, <2>2, MaxAttemptsIs DEF PaidFor, Earned, Counted
<1>4. CASE OneFault
  <2>1. Paid' = Paid + MaxAttempts + 1 /\ faults' = faults + 1
    BY <1>1, <1>4, PaidGrows DEF OneFault
  <2> QED
    BY <1>1, <1>2, <2>1, MaxAttemptsIs DEF PaidFor, Earned, Counted
<1> QED
  BY <1>3, <1>4

(* A worker that stays, or moves on, with a delivery nobody writes.        *)
LEMMA EarnedKept ==
  ASSUME Inv, TokensPaid, NEW w \in Workers, NoFault \/ OneFault,
         workers[w].pc # "idle",
         Mine(w)' = Mine(w) /\ workers'[w].token = workers[w].token,
         workers'[w].pc \in Before => workers[w].pc \in Before,
         workers[w].pc \in Before => workers'[w].pc \in Before,
         SameWork(Mine(w))
  PROVE  EarnedBy(w)'
<1> DEFINE d == Mine(w)
<1>1. /\ d \in Links /\ faults \in Nat
      /\ deliveries[d].token \in Nat /\ deliveries[d].attempt \in Nat
  BY MaxAttemptsIs DEF Inv, WorkerShape, StoreShape, Record, TokensPaid
<1>2. ActiveClaim(w)' => ActiveClaim(w)
  BY DEF ActiveClaim, Mine, SameWork
<1>3. EarnedBy(w)
  BY DEF TokensPaid
<1>4. Paid \in Nat /\ (Paid' = Paid \/ Paid' = Paid + MaxAttempts + 1)
      /\ (faults' = faults \/ faults' = faults + 1)
  BY <1>1, PaidIs, PaidGrows DEF NoFault, OneFault
<1> SUFFICES ASSUME ActiveClaim(w)
             PROVE  IF workers[w].pc \in Before
                    THEN deliveries[d].attempt < MaxAttempts + faults'
                    ELSE deliveries[d].token <= Paid' + Counted(deliveries[d])
  BY <1>2 DEF EarnedBy, Earned, Counted, SameWork
<1>5. IF workers[w].pc \in Before
      THEN deliveries[d].attempt < MaxAttempts + faults
      ELSE deliveries[d].token <= Paid + Counted(deliveries[d])
  BY <1>3 DEF EarnedBy, Earned
<1>6. Counted(deliveries[d]) \in Nat
  BY <1>1, MaxAttemptsIs DEF Counted
<1> HIDE DEF d
<1> QED
  BY <1>1, <1>4, <1>5, <1>6, MaxAttemptsIs

(* Whoever holds another claim to what w writes has lost it.               *)
LEMMA OthersEarned ==
  ASSUME Inv, TokensPaid, NEW w \in Workers, NoFault \/ OneFault,
         workers[w].pc # "idle", workers[w].token = deliveries[Mine(w)].token,
         deliveries'[Mine(w)].token = deliveries[Mine(w)].token,
         \A e \in Links \ {Mine(w)} :
           deliveries'[e] = deliveries[e] \/ deliveries'[e].status = "queued",
         NEW v \in Workers \ {w}, workers'[v] = workers[v]
  PROVE  EarnedBy(v)'
<1>1. CASE workers[v].pc = "idle"
  BY <1>1 DEF EarnedBy
<1>2. CASE workers[v].pc # "idle" /\ Mine(v) = Mine(w)
  <2>1. workers[v].token # workers[w].token
    BY <1>2 DEF Inv, OneHolder
  <2> QED
    BY <1>2, <2>1 DEF EarnedBy, ActiveClaim, Mine
<1>3. CASE workers[v].pc # "idle" /\ Mine(v) # Mine(w)
  <2>1. Mine(v) \in Links
    BY <1>3 DEF Inv, WorkerShape
  <2>2. CASE deliveries'[Mine(v)] = deliveries[Mine(v)]
    BY <1>3, <2>2, EarnedKept DEF Mine, SameWork
  <2>3. CASE deliveries'[Mine(v)].status = "queued"
    BY <2>3 DEF EarnedBy, ActiveClaim, Mine, Active
  <2> QED
    BY <1>3, <2>1, <2>2, <2>3
<1> QED
  BY <1>1, <1>2, <1>3

(* How a worker moves.                                                     *)
OthersStay(w) == \A v \in Workers \ {w} : workers'[v] = workers[v]
Went(w, step) ==
  /\ OthersStay(w)
  /\ workers'[w].pc = step
  /\ Mine(w)' = Mine(w) /\ workers'[w].token = workers[w].token
Left(w) == OthersStay(w) /\ workers'[w].pc = "idle"

LEMMA GotoIs ==
  ASSUME Inv, NEW w \in Workers, NEW step, Goto(w, step)
  PROVE  Went(w, step)
BY DEF Goto, Went, OthersStay, Mine, Inv, WorkerShape, Place

LEMMA TriedWent ==
  ASSUME Inv, NEW w \in Workers, Tried(w)
  PROVE  Went(w, "confirming")
<1>1. \A tries :
        workers' = [workers EXCEPT ![w].pc = "confirming", ![w].tries = tries]
        => Went(w, "confirming")
  BY DEF Went, OthersStay, Mine, Inv, WorkerShape, Place
<1>2. workers' = [workers EXCEPT ![w].pc = "confirming",
                                 ![w].tries = workers[w].tries + 1]
  BY DEF Tried, Inv, WorkerShape, Place
<1> QED
  BY <1>1, <1>2

LEMMA LeaveIs ==
  ASSUME Inv, NEW w \in Workers, Leave(w)
  PROVE  Left(w)
BY IdleIs DEF Leave, Left, OthersStay, Inv, WorkerShape

LEMMA HeldKept ==
  ASSUME Inv, NEW w \in Workers, OthersStay(w), NEW d \in Links, Held(d),
         deliveries'[d].token = deliveries[d].token,
         deliveries'[d].lease = deliveries[d].lease,
         \/ workers[w].pc = "idle" \/ Mine(w) # d
         \/ workers[w].token # deliveries[d].token
         \/ \E step : step # "idle" /\ Went(w, step)
  PROVE  Held(d)'
<1>1. PICK v \in Workers :
        /\ workers[v].pc # "idle"
        /\ Mine(v) = d /\ workers[v].token = deliveries[d].token
  BY DEF Held
<1>2. CASE v # w
  BY <1>1, <1>2 DEF Held, OthersStay, Mine
<1>3. CASE v = w
  BY <1>1, <1>3 DEF Held, Went, Mine
<1> QED
  BY <1>2, <1>3

LEMMA PaidMoves ==
  ASSUME Inv, TokensPaid, NEW w \in Workers, workers[w].pc # "idle",
         \/ UNCHANGED deliveries
         \/ /\ ActiveClaim(w)
            /\ \A d \in Links : SameWork(d)
            /\ \A d \in Links \ {Mine(w)} : deliveries'[d] = deliveries[d],
         NoFault \/ OneFault, faults' \in 0..MaxFaults,
         NEW step, step # "idle", Went(w, step),
         step \in Before <=> workers[w].pc \in Before
  PROVE  TokensPaid'
<1>1. \A d \in Links : SameWork(d)
  BY DEF SameWork
<1>2. ASSUME NEW d \in Links PROVE PaidFor(d)'
  BY <1>1, HeldKept, PaidForKept DEF SameWork, Went
<1>3. Mine(w) \in Links
  BY DEF Inv, WorkerShape
<1>4. EarnedBy(w)'
  BY <1>1, <1>3, EarnedKept DEF Went
<1>5. ASSUME NEW v \in Workers \ {w} PROVE EarnedBy(v)'
  <2>1. workers'[v] = workers[v]
    BY DEF Went, OthersStay
  <2>2. CASE UNCHANGED deliveries
    <3>1. CASE workers[v].pc = "idle"
      BY <2>1, <3>1 DEF EarnedBy
    <3>2. CASE workers[v].pc # "idle"
      BY <2>1, <2>2, <3>2, EarnedKept DEF Mine, SameWork
    <3> QED
      BY <3>1, <3>2
  <2>3. CASE /\ ActiveClaim(w)
             /\ \A d \in Links \ {Mine(w)} : deliveries'[d] = deliveries[d]
    <3>1. workers[w].token = deliveries[Mine(w)].token
      BY <2>3 DEF ActiveClaim, Mine
    <3> QED
      BY <1>1, <1>3, <2>1, <2>3, <3>1, OthersEarned DEF SameWork
  <2> QED
    BY <2>2, <2>3
<1> QED
  BY <1>2, <1>4, <1>5 DEF TokensPaid

LEMMA PaidLeaves ==
  ASSUME Inv, TokensPaid, NEW w \in Workers, workers[w].pc # "idle",
         UNCHANGED deliveries, faults' \in 0..MaxFaults, Left(w),
         \/ OneFault
         \/ NoFault /\ deliveries[Mine(w)].status \notin Active
         \/ NoFault /\ ~ActiveClaim(w)
  PROVE  TokensPaid'
<1>1. ASSUME NEW d \in Links PROVE PaidFor(d)'
  <2>1. SameWork(d)
    BY DEF SameWork
  <2>2. CASE OneFault
    BY <2>1, <2>2, PaidForKept DEF SameWork
  <2>3. CASE NoFault
    <3>1. ASSUME deliveries[d].status \in Active, Held(d), ~OneFault PROVE Held(d)'
      <4>1. Mine(w) # d \/ workers[w].token # deliveries[d].token
        BY <3>1 DEF ActiveClaim, Held, Mine
      <4> QED
        BY <2>1, <3>1, <4>1, HeldKept DEF Left, SameWork
    <3> QED
      BY <2>1, <2>3, <3>1, PaidForKept DEF SameWork
  <2> QED
    BY <2>2, <2>3
<1>2. ASSUME NEW v \in Workers PROVE EarnedBy(v)'
  <2>1. CASE workers'[v].pc = "idle"
    BY <2>1 DEF EarnedBy
  <2>2. CASE workers'[v].pc # "idle"
    <3>1. workers'[v] = workers[v]
      BY <2>2 DEF Left, OthersStay
    <3> QED
      BY <2>2, <3>1, EarnedKept DEF Mine, SameWork
  <2> QED
    BY <2>1, <2>2
<1> QED
  BY <1>1, <1>2 DEF TokensPaid

LEMMA FaultsSame ==
  ASSUME TokensPaid, UNCHANGED faults
  PROVE  NoFault /\ faults' \in 0..MaxFaults
BY DEF TokensPaid, NoFault

(* An end is within what the claim was paid for.                           *)
LEMMA PaidFinishes ==
  ASSUME Inv, TokensPaid, NEW w \in Workers, NEW status, Finishes(w, status)
  PROVE  TokensPaid'
<1>0. PICK d \in Links : d = Mine(w)
  BY DEF Finishes, Inv, WorkerShape
<1>1. /\ workers[w].pc # "idle" /\ ActiveClaim(w) /\ Left(w)
      /\ SavedAs(d, status)
      /\ status \notin Active
      /\ status = "queued" =>
           workers[w].pc \notin Before /\ deliveries[d].attempt < MaxAttempts
  BY <1>0, LeaveIs DEF Finishes, Ended, Active
<1>2. NoFault /\ faults' \in 0..MaxFaults /\ faults \in Nat
      /\ Paid' = Paid /\ faults' = faults
  BY FaultsSame, PaidGrows DEF Finishes, TokensPaid, NoFault
<1>3. workers[w].token = deliveries[d].token
  BY <1>0, <1>1 DEF ActiveClaim, Mine
<1>4. PaidFor(d) /\ EarnedBy(w)
  BY DEF TokensPaid
<1>5. PaidFor(d)'
  BY <1>0, <1>1, <1>2, <1>4 DEF PaidFor, EarnedBy, Earned, Counted, SavedAs
<1>6. ASSUME NEW e \in Links \ {d} PROVE PaidFor(e)'
  <2>1. deliveries'[e] = deliveries[e]
    BY <1>1 DEF SavedAs
  <2>2. Held(e) => Held(e)'
    BY <1>0, <1>1, <1>6, <2>1, HeldKept DEF Left
  <2> QED
    BY <1>2, <2>1, <2>2, PaidForKept
<1>7. EarnedBy(w)'
  BY <1>1 DEF EarnedBy, Left
<1>8. ASSUME NEW v \in Workers \ {w} PROVE EarnedBy(v)'
  BY <1>0, <1>1, <1>2, <1>3, OthersEarned DEF Left, OthersStay, SavedAs
<1> QED
  BY <1>2, <1>5, <1>6, <1>7, <1>8 DEF TokensPaid

(* A delivery that no claim reaches after the step.                        *)
LEMMA PaidWritten ==
  ASSUME Inv, TokensPaid, UNCHANGED workers, NEW d \in Links,
         \A e \in Links \ {d} : deliveries'[e] = deliveries[e],
         deliveries'[d].status \notin Active \/ deliveries'[d].lease = FALSE,
         NoFault \/ OneFault, faults' \in 0..MaxFaults, PaidFor(d)'
  PROVE  TokensPaid'
<1>1. ASSUME NEW e \in Links \ {d} PROVE PaidFor(e)'
  <2>1. Held(e) => Held(e)'
    BY DEF Held, Mine
  <2> QED
    BY <2>1, PaidForKept
<1>2. ASSUME NEW v \in Workers PROVE EarnedBy(v)'
  <2>1. CASE workers[v].pc = "idle"
    BY <2>1 DEF EarnedBy
  <2>2. CASE workers[v].pc # "idle" /\ Mine(v) = d
    BY <2>2 DEF EarnedBy, ActiveClaim, Mine
  <2>3. CASE workers[v].pc # "idle" /\ Mine(v) # d
    <3>1. Mine(v) \in Links
      BY <2>3 DEF Inv, WorkerShape
    <3> QED
      BY <2>3, <3>1, EarnedKept DEF Mine, SameWork
  <2> QED
    BY <2>1, <2>2, <2>3
<1> QED
  BY <1>1, <1>2 DEF TokensPaid

LEMMA PaidFresh ==
  ASSUME NEW d \in Links, faults \in Nat, NoFault \/ OneFault,
         deliveries'[d] = Fresh("queued")
  PROVE  PaidFor(d)'
<1>1. /\ deliveries'[d].token = 0 /\ deliveries'[d].attempt = 0
      /\ deliveries'[d].status = "queued"
  BY DEF Fresh
<1>2. Paid' \in Nat /\ faults' \in Nat
  BY PaidIs, PaidGrows, MaxAttemptsIs DEF NoFault, OneFault
<1>3. Earned(deliveries[d])'
  BY <1>1, <1>2, MaxAttemptsIs DEF Earned, Counted
<1> QED
  BY <1>1, <1>2, <1>3, MaxAttemptsIs DEF PaidFor, Counted, Active

LEMMA PaidPublish == ASSUME Inv, TokensPaid, Publish PROVE TokensPaid'
<1>1. PICK r \in Resumes :
        deliveries' = [deliveries EXCEPT ![<<r, 0>>] = Fresh("queued")]
  BY DEF Publish
<1>2. PICK d \in Links : d = <<r, 0>>
  <2>1. <<r, 0>> \in Links
    BY BoundsAssumption DEF Links, Roots
  <2> QED
    BY <2>1
<1>3. /\ deliveries'[d] = Fresh("queued")
      /\ \A e \in Links \ {d} : deliveries'[e] = deliveries[e]
  BY <1>1, <1>2 DEF Inv, StoreShape
<1>4. UNCHANGED workers /\ NoFault /\ faults' \in 0..MaxFaults /\ faults \in Nat
  BY FaultsSame DEF Publish, TokensPaid
<1>5. deliveries'[d].status \notin Active
  BY <1>3, FreshIs DEF Active
<1> QED
  BY <1>3, <1>4, <1>5, PaidFresh, PaidWritten

LEMMA PaidExpire == ASSUME Inv, TokensPaid, Expire PROVE TokensPaid'
BY DEF Expire, TokensPaid, PaidFor, EarnedBy, Earned, Counted, Paid, Held,
   ActiveClaim, Mine

LEMMA PaidLeaseExpires ==
  ASSUME Inv, TokensPaid, NEW d \in Links, LeaseExpires(d) PROVE TokensPaid'
<1>1. /\ deliveries'[d].status = deliveries[d].status
      /\ deliveries'[d].token = deliveries[d].token
      /\ deliveries'[d].attempt = deliveries[d].attempt
      /\ deliveries'[d].lease = FALSE
      /\ \A e \in Links \ {d} : deliveries'[e] = deliveries[e]
      /\ UNCHANGED workers
  BY DEF LeaseExpires, Inv, StoreShape, Record
<1>2. (NoFault \/ OneFault) /\ faults' \in 0..MaxFaults
  BY FaultsSame, FaultIs DEF LeaseExpires, TokensPaid
<1>3. Held(d) => OneFault
  BY FaultIs DEF LeaseExpires, Held, Holds, Mine, TokensPaid
<1>4. PaidFor(d)'
  BY <1>1, <1>2, <1>3, PaidForKept
<1> QED
  BY <1>1, <1>2, <1>4, PaidWritten

LEMMA PaidRedrive ==
  ASSUME Inv, TokensPaid, NEW d \in Links, Redrive(d) PROVE TokensPaid'
<1>1. RedrivenAt(d) /\ UNCHANGED workers
  BY RedriveIs DEF Redrive
<1>2. OneFault /\ faults' \in 0..MaxFaults /\ faults \in Nat
  BY FaultIs DEF Redrive, TokensPaid
<1>3. /\ deliveries[d].token \in Nat /\ deliveries[d].attempt \in Nat
      /\ Paid \in Nat /\ Paid' = Paid + MaxAttempts + 1 /\ faults' = faults + 1
      /\ PaidFor(d)
  BY <1>2, PaidIs, PaidGrows DEF Inv, StoreShape, Record, TokensPaid, OneFault
<1>4. PaidFor(d)'
  <2>1. deliveries[d].token + 1 <= Paid + MaxAttempts + 1
    BY <1>3, MaxAttemptsIs DEF PaidFor, Earned, Counted
  <2>2. /\ deliveries'[d].status = "queued"
        /\ deliveries'[d].token = deliveries[d].token + 1
        /\ deliveries'[d].attempt = 0
    BY <1>1 DEF RedrivenAt
  <2>3. Earned(deliveries[d])'
    BY <1>3, <2>1, <2>2, MaxAttemptsIs DEF Earned, Counted
  <2> QED
    BY <1>2, <1>3, <2>1, <2>2, <2>3, MaxAttemptsIs
       DEF PaidFor, Earned, Counted, Active
<1> QED
  BY <1>1, <1>2, <1>4, PaidWritten DEF RedrivenAt, Active

(* A claim moves the token once, which a queued delivery has to spare.     *)
LEMMA PaidClaim ==
  ASSUME Inv, TokensPaid, NEW w \in Workers, Claim(w) PROVE TokensPaid'
<1>1. PICK d \in Links : Claimable(d) /\ ClaimedAt(d) /\ ClaimedBy(w, d)
  BY ClaimIs
<1>2. NoFault /\ faults' \in 0..MaxFaults /\ faults \in Nat
      /\ Paid' = Paid /\ faults' = faults
  BY FaultsSame, PaidGrows DEF Claim, TokensPaid, NoFault
<1>3. /\ deliveries[d].token \in Nat /\ deliveries[d].attempt \in Nat
      /\ Paid \in Nat /\ PaidFor(d)
  BY <1>2, PaidIs DEF Inv, StoreShape, Record, TokensPaid
<1>4. Held(d)'
  BY <1>1 DEF ClaimedAt, ClaimedBy, Held
<1>5. /\ deliveries[d].token <= Paid + Counted(deliveries[d])
      /\ deliveries[d].attempt < MaxAttempts + faults
      /\ deliveries[d].attempt < MaxAttempts
           \/ deliveries[d].token + 1 <= Paid + Counted(deliveries[d])
  <2>1. CASE deliveries[d].status = "queued"
    BY <1>2, <1>3, <2>1, MaxAttemptsIs DEF PaidFor, Earned
  <2>2. CASE deliveries[d].status \in Active /\ ~deliveries[d].lease
    <3>1. ~Held(d)
      BY <2>2 DEF Held
    <3>2. Counted(deliveries[d]) \in Nat
      BY <1>3, MaxAttemptsIs DEF Counted
    <3> HIDE DEF Counted
    <3> QED
      BY <1>3, <2>2, <3>1, <3>2 DEF PaidFor
  <2> QED
    BY <1>1, <2>1, <2>2 DEF Claimable
<1>6. /\ deliveries'[d].token = deliveries[d].token + 1
      /\ deliveries'[d].attempt = deliveries[d].attempt
      /\ deliveries'[d].status = "claimed"
  BY <1>1 DEF ClaimedAt
<1>7. PaidFor(d)'
  BY <1>2, <1>3, <1>4, <1>5, <1>6, MaxAttemptsIs DEF PaidFor, Earned, Counted
<1>8. EarnedBy(w)'
  BY <1>1, <1>2, <1>5, <1>6 DEF EarnedBy, ClaimedBy, Before
<1>9. ASSUME NEW e \in Links \ {d} PROVE PaidFor(e)'
  <2>1. deliveries'[e] = deliveries[e] /\ OthersStay(w) /\ workers[w].pc = "idle"
    BY <1>1 DEF ClaimedAt, ClaimedBy, OthersStay
  <2> QED
    BY <1>2, <2>1, HeldKept, PaidForKept
<1>10. ASSUME NEW v \in Workers \ {w} PROVE EarnedBy(v)'
  <2>1. workers'[v] = workers[v]
    BY <1>1 DEF ClaimedBy
  <2>2. CASE workers[v].pc = "idle"
    BY <2>1, <2>2 DEF EarnedBy
  <2>3. CASE workers[v].pc # "idle" /\ Mine(v) = d
    <3>1. workers[v].token \in Nat /\ workers[v].token <= deliveries[d].token
      BY <2>3 DEF Inv, WorkerShape, Place
    <3>2. workers[v].token # deliveries'[d].token
      BY <1>3, <1>6, <3>1
    <3> QED
      BY <2>1, <2>3, <3>2 DEF EarnedBy, ActiveClaim, Mine
  <2>4. CASE workers[v].pc # "idle" /\ Mine(v) # d
    <3>1. Mine(v) \in Links
      BY <2>4 DEF Inv, WorkerShape
    <3>2. SameWork(Mine(v))
      BY <1>1, <2>4, <3>1 DEF ClaimedAt, SameWork
    <3> QED
      BY <1>2, <2>1, <2>4, <3>2, EarnedKept DEF Mine
  <2> QED
    BY <2>2, <2>3, <2>4
<1> QED
  BY <1>2, <1>7, <1>8, <1>9, <1>10 DEF TokensPaid

LEMMA PaidInvoke ==
  ASSUME Inv, TokensPaid, NEW w \in Workers, Invoke(w) PROVE TokensPaid'
<1>1. PICK d \in Links : d = Mine(w)
  BY DEF Invoke, At, Inv, WorkerShape
<1>2. /\ workers[w].pc = "invoking" /\ ActiveClaim(w)
      /\ Went(w, "target") /\ InvokedAt(d)
  BY <1>1, InvokeIs, GotoIs DEF Invoke, At
<1>3. NoFault /\ faults' \in 0..MaxFaults /\ faults \in Nat
      /\ Paid' = Paid /\ faults' = faults
  BY FaultsSame, PaidGrows DEF Invoke, TokensPaid, NoFault
<1>4. /\ deliveries[d].token \in Nat /\ deliveries[d].attempt \in Nat
      /\ Paid \in Nat /\ PaidFor(d) /\ EarnedBy(w)
  BY <1>3, PaidIs DEF Inv, StoreShape, Record, TokensPaid
<1>5. /\ deliveries'[d].token = deliveries[d].token
      /\ deliveries'[d].attempt = deliveries[d].attempt + 1
      /\ deliveries'[d].lease = deliveries[d].lease
      /\ \A e \in Links \ {d} : deliveries'[e] = deliveries[e]
  BY <1>2 DEF InvokedAt
<1>6. deliveries[d].attempt < MaxAttempts + faults
  BY <1>1, <1>2, <1>4 DEF EarnedBy, Before
<1>7. Earned(deliveries[d])'
  BY <1>3, <1>4, <1>5, MaxAttemptsIs DEF PaidFor, Earned, Counted
<1>8. Held(d)'
  <2>1. Held(d)
    BY <1>1, <1>2 DEF ActiveClaim, Held, Mine
  <2> QED
    BY <1>2, <1>5, <2>1, HeldKept DEF Went
<1>9. workers[w].token = deliveries[d].token
  BY <1>1, <1>2 DEF ActiveClaim, Mine
<1>10. PaidFor(d)'
  <2>1. deliveries'[d].attempt <= MaxAttempts + faults'
    BY <1>3, <1>4, <1>5, <1>6, MaxAttemptsIs
  <2>2. deliveries'[d].status # "queued"
    BY <1>2 DEF InvokedAt
  <2>3. deliveries'[d].token <= Paid' + Counted(deliveries'[d]) + 1
    BY <1>3, <1>4, <1>5, <1>7, MaxAttemptsIs DEF Earned, Counted
  <2> QED
    BY <1>7, <1>8, <2>1, <2>2, <2>3 DEF PaidFor, Counted
<1>11. EarnedBy(w)'
  BY <1>1, <1>2, <1>7 DEF EarnedBy, Went, Before
<1>12. ASSUME NEW e \in Links \ {d} PROVE PaidFor(e)'
  BY <1>1, <1>2, <1>3, <1>5, HeldKept, PaidForKept DEF Went
<1>13. ASSUME NEW v \in Workers \ {w} PROVE EarnedBy(v)'
  BY <1>1, <1>2, <1>3, <1>5, <1>9, OthersEarned DEF Went, OthersStay
<1> QED
  BY <1>3, <1>10, <1>11, <1>12, <1>13 DEF TokensPaid

LEMMA PaidHandover ==
  ASSUME Inv, TokensPaid, NEW w \in Workers, workers[w].pc = "committing",
         TransitionVerifier(w), NoFault \/ OneFault, faults' \in 0..MaxFaults,
         Left(w) \/ Went(w, "confirming")
  PROVE  TokensPaid'
<1>1. PICK d \in Links, child \in Links : d = Mine(w) /\ child = Child(Mine(w))
  BY HandoverIs
<1>2. ActiveClaim(w) /\ HandedAt(d, child) /\ child # d
  BY <1>1, HandoverIs, ChildIs
<1>3. /\ deliveries[d].token \in Nat /\ deliveries[d].attempt \in Nat
      /\ faults \in Nat /\ PaidFor(d)
  BY DEF Inv, StoreShape, Record, TokensPaid
<1>4. PaidFor(child)'
  BY <1>2, <1>3, PaidFresh DEF HandedAt
<1>5. /\ deliveries'[d].status = "waiting_event"
      /\ deliveries'[d].token = deliveries[d].token
      /\ deliveries'[d].attempt = deliveries[d].attempt
      /\ \A e \in Links \ {d, child} : deliveries'[e] = deliveries[e]
      /\ deliveries'[child].status = "queued"
  BY <1>2, FreshIs DEF HandedAt
<1>6. PaidFor(d)'
  <2>1. Paid \in Nat /\ (Paid' = Paid \/ Paid' = Paid + MaxAttempts + 1)
        /\ (faults' = faults \/ faults' = faults + 1)
    BY <1>3, PaidIs, PaidGrows DEF NoFault, OneFault
  <2> QED
    BY <1>3, <1>5, <2>1, MaxAttemptsIs DEF PaidFor, Earned, Counted, Active
<1>7. OthersStay(w)
  BY DEF Left, Went
<1>8. ASSUME NEW e \in Links \ {d, child} PROVE PaidFor(e)'
  BY <1>1, <1>5, <1>7, HeldKept, PaidForKept
<1>9. EarnedBy(w)'
  BY <1>1, <1>5 DEF EarnedBy, ActiveClaim, Left, Went, Mine, Active
<1>10. ASSUME NEW v \in Workers \ {w} PROVE EarnedBy(v)'
  <2>1. workers[w].token = deliveries[d].token
    BY <1>1, <1>2 DEF ActiveClaim, Mine
  <2> QED
    BY <1>1, <1>5, <1>7, <2>1, OthersEarned DEF OthersStay
<1> QED
  BY <1>4, <1>6, <1>8, <1>9, <1>10 DEF TokensPaid

-----------------------------------------------------------------------------
(* The attempts of a worker. *)

(* A claim has moved the token.                                            *)
Started == \A w \in Workers : workers[w].pc # "idle" => workers[w].token # 0

(* Where the silent steps of a worker lead, and at what cost.              *)
SilentMove(w) ==
  /\ workers[w].pc # "idle"
  /\ NoFault \/ OneFault
  /\ faults' \in 0..MaxFaults
  /\ \/ \E step : /\ step # "idle" /\ Went(w, step)
                  /\ step \in Before <=> workers[w].pc \in Before
     \/ /\ Left(w)
        /\ \/ OneFault
           \/ NoFault /\ deliveries[Mine(w)].status \notin Active
           \/ NoFault /\ ~ActiveClaim(w)

LEMMA GotoMoves ==
  ASSUME Inv, TokensPaid, NEW w \in Workers, workers[w].pc # "idle",
         UNCHANGED faults \/ Fault,
         NEW step, step # "idle", Goto(w, step) \/ (Tried(w) /\ step = "confirming"),
         step \in Before <=> workers[w].pc \in Before
  PROVE  SilentMove(w)
<1>1. Went(w, step)
  BY GotoIs, TriedWent
<1>2. (NoFault \/ OneFault) /\ faults' \in 0..MaxFaults
  BY FaultsSame, FaultIs DEF TokensPaid
<1> QED
  BY <1>1, <1>2 DEF SilentMove

LEMMA LeaveMoves ==
  ASSUME Inv, TokensPaid, NEW w \in Workers, workers[w].pc # "idle", Leave(w),
         \/ Fault
         \/ UNCHANGED faults /\ deliveries[Mine(w)].status \notin Active
         \/ UNCHANGED faults /\ ~ActiveClaim(w)
  PROVE  SilentMove(w)
<1>1. Left(w)
  BY LeaveIs
<1> QED
  BY <1>1, FaultsSame, FaultIs DEF SilentMove, TokensPaid

(* Who finds its handover committed leaves a delivery that waits.          *)
LEMMA ConfirmedWaits ==
  ASSUME Inv, ChainInv, Started, NEW w \in Workers, workers[w].pc = "confirming",
         committed[Child(Mine(w))] = workers[w].token
  PROVE  deliveries[Mine(w)].status = "waiting_event"
<1> DEFINE d == Mine(w)
           child == Child(d)
<1>1. /\ d \in Links /\ child \in Links
      /\ child[1] = d[1] /\ child[2] = d[2] + 1
  BY DEF Inv, WorkerShape, Child
<1>2. deliveries[child].status # "absent"
  BY <1>1 DEF Started, ChainInv, Line, CommittedExist
<1>3. d[2] < child[2]
  BY <1>1, LinkIs
<1> HIDE DEF d, child
<1>4. deliveries[d].status = "waiting_event"
  BY <1>1, <1>2, <1>3 DEF ChainInv, Line, OneLine
<1> QED
  BY <1>4 DEF d

LEMMA SilentMoves ==
  ASSUME Inv, ChainInv, Started, TokensPaid, NEW w \in Workers,
         \/ Proceed(w) \/ AdmissionRefused(w) \/ TargetEnds(w) \/ Register(w)
         \/ CompleteFails(w) \/ CommitFails(w) \/ Confirm(w) \/ Lost(w) \/ Crash(w)
  PROVE  SilentMove(w)
<1>1. CASE Proceed(w) \/ AdmissionRefused(w)
  <2>1. /\ workers[w].pc = "claimed" /\ UNCHANGED faults
        /\ \E step \in {"recovering", "invoking", "refused"} : Goto(w, step)
    BY <1>1 DEF Proceed, AdmissionRefused, Admitted, At
  <2> QED
    BY <2>1, GotoMoves DEF Before
<1>2. CASE TargetEnds(w) \/ Register(w)
  <2>1. /\ workers[w].pc \in {"target", "registering"} /\ UNCHANGED faults
        /\ \E step \in {"registering", "failing", "finalizing", "exhausted",
                        "committing", "waiting"} : Goto(w, step)
    BY <1>2 DEF TargetEnds, Register, At
  <2> QED
    BY <2>1, GotoMoves DEF Before
<1>3. CASE CompleteFails(w)
  <2>1. /\ workers[w].pc \in {"waiting", "completing", "recovering"} /\ Fault
        /\ \/ Leave(w)
           \/ workers[w].pc = "recovering" /\ Goto(w, "refused")
           \/ workers[w].pc # "recovering" /\ Goto(w, "failing")
    BY <1>3 DEF CompleteFails, At
  <2>2. CASE Leave(w)
    BY <2>1, <2>2, LeaveMoves
  <2>3. CASE workers[w].pc = "recovering" /\ Goto(w, "refused")
    BY <2>1, <2>3, GotoMoves DEF Before
  <2>4. CASE workers[w].pc # "recovering" /\ Goto(w, "failing")
    <3>1. workers[w].pc \in {"waiting", "completing"}
      BY <2>1, <2>4
    <3> QED
      BY <2>1, <2>4, <3>1, GotoMoves DEF Before
  <2> QED
    BY <2>1, <2>2, <2>3, <2>4
<1>4. CASE CommitFails(w)
  <2>1. workers[w].pc = "committing" /\ Tried(w) /\ (UNCHANGED faults \/ Fault)
    BY <1>4 DEF CommitFails, At
  <2> QED
    BY <2>1, GotoMoves DEF Before
<1>5. CASE Confirm(w)
  <2>1. workers[w].pc = "confirming" /\ UNCHANGED faults
    BY <1>5 DEF Confirm, At
  <2>2. CASE \E step \in {"committing", "failing"} : Goto(w, step)
    BY <2>1, <2>2, GotoMoves DEF Before
  <2>3. CASE committed[Child(Mine(w))] = workers[w].token /\ Leave(w)
    <3>1. deliveries[Mine(w)].status \notin Active
      BY <2>1, <2>3, ConfirmedWaits DEF Active
    <3> QED
      BY <2>1, <2>3, <3>1, LeaveMoves
  <2> QED
    BY <1>5, <2>2, <2>3 DEF Confirm
<1>6. CASE Lost(w)
  <2>1. workers[w].pc # "idle" /\ Leave(w) /\ UNCHANGED faults /\ ~ActiveClaim(w)
    BY <1>6 DEF Lost
  <2> QED
    BY <2>1, LeaveMoves
<1>7. CASE Crash(w)
  BY <1>7, LeaveMoves DEF Crash, At
<1> QED
  BY <1>1, <1>2, <1>3, <1>4, <1>5, <1>6, <1>7

LEMMA PaidSilent ==
  ASSUME Inv, TokensPaid, NEW w \in Workers, SilentMove(w), UNCHANGED deliveries
  PROVE  TokensPaid'
BY PaidMoves, PaidLeaves DEF SilentMove

LEMMA PaidAdmit ==
  ASSUME Inv, TokensPaid, NEW w \in Workers, Admit(w) PROVE TokensPaid'
<1>1. /\ workers[w].pc = "claimed" /\ ActiveClaim(w) /\ UNCHANGED faults
      /\ \E step \in {"recovering", "invoking"} : Goto(w, step)
  BY DEF Admit, Admitted, At
<1>2. PICK step \in {"recovering", "invoking"} : Went(w, step)
  BY <1>1, GotoIs
<1>3. step \in Before /\ workers[w].pc \in Before /\ step # "idle"
  BY <1>1 DEF Before
<1>4. /\ \A d \in Links : SameWork(d)
      /\ \A d \in Links \ {Mine(w)} : deliveries'[d] = deliveries[d]
  BY AdmitIs DEF AdmittedAs, SameWork
<1> QED
  BY <1>1, <1>2, <1>3, <1>4, FaultsSame, PaidMoves

LEMMA PaidFinalizing ==
  ASSUME Inv, TokensPaid, NEW w \in Workers, SaveFinalizing(w) PROVE TokensPaid'
<1>1. /\ workers[w].pc = "finalizing" /\ ActiveClaim(w) /\ UNCHANGED faults
      /\ Went(w, "completing")
  BY GotoIs DEF SaveFinalizing, At
<1>2. "completing" \notin Before /\ workers[w].pc \notin Before
  BY <1>1 DEF Before
<1>3. /\ \A d \in Links : SameWork(d)
      /\ \A d \in Links \ {Mine(w)} : deliveries'[d] = deliveries[d]
  BY FinalizingIs DEF SavedAs, SameWork
<1> QED
  BY <1>1, <1>2, <1>3, FaultsSame, PaidMoves

LEMMA CommitMoves ==
  ASSUME Inv, TokensPaid, NEW w \in Workers,
         CommitAcknowledged(w) \/ CommitUnacknowledged(w)
  PROVE  /\ workers[w].pc = "committing" /\ TransitionVerifier(w)
         /\ NoFault \/ OneFault
         /\ faults' \in 0..MaxFaults
         /\ Left(w) \/ Went(w, "confirming")
BY LeaveIs, TriedWent, FaultsSame, FaultIs
   DEF CommitAcknowledged, CommitUnacknowledged, At, TokensPaid

LEMMA PaidAttempt ==
  ASSUME Inv, ChainInv, Started, TokensPaid, NEW w \in Workers,
         Attempt(w) \/ Cancel(w) \/ Crash(w)
  PROVE  TokensPaid'
<1>1. CASE CommitAcknowledged(w) \/ CommitUnacknowledged(w)
  BY <1>1, CommitMoves, PaidHandover
<1>2. CASE Complete(w) \/ Exhaust(w) \/ Fail(w) \/ Refuse(w) \/ Cancel(w)
  BY <1>2, CompleteFinishes, OthersFinish, PaidFinishes
<1>3. CASE \/ Proceed(w) \/ AdmissionRefused(w) \/ TargetEnds(w) \/ Register(w)
           \/ CompleteFails(w) \/ CommitFails(w) \/ Confirm(w) \/ Lost(w) \/ Crash(w)
  BY <1>3, SilentMoves, SilentKeep, PaidSilent
<1> QED
  BY <1>1, <1>2, <1>3, PaidAdmit, PaidInvoke, PaidFinalizing DEF Attempt

LEMMA PaidStep ==
  ASSUME Inv, ChainInv, Started, TokensPaid, [Next]_vars PROVE TokensPaid'
<1>1. CASE UNCHANGED vars
  BY <1>1 DEF vars, TokensPaid, PaidFor, EarnedBy, Earned, Counted, Paid, Held,
     ActiveClaim, Mine
<1>2. CASE Next
  BY <1>2, PaidPublish, PaidExpire, PaidLeaseExpires, PaidRedrive, PaidClaim,
     PaidAttempt DEF Next
<1> QED
  BY <1>1, <1>2

LEMMA PaidInit == Init => TokensPaid
<1> SUFFICES ASSUME Init PROVE TokensPaid
  OBVIOUS
<1>1. /\ faults = 0 /\ Paid = 0
      /\ \A w \in Workers : workers[w].pc = "idle"
  BY MaxAttemptsIs DEF Init, Idle, Paid
<1>2. ASSUME NEW d \in Links PROVE PaidFor(d)
  <2>1. /\ deliveries[d].token = 0 /\ deliveries[d].attempt = 0
        /\ deliveries[d].status \in {"queued", "absent"}
    BY DEF Init, Fresh
  <2> QED
    BY <1>1, <2>1, MaxAttemptsIs DEF PaidFor, Earned, Counted, Active
<1> QED
  BY <1>1, <1>2, MaxAttemptsIs DEF TokensPaid, EarnedBy

LEMMA StartedStep ==
  ASSUME Inv, ChainInv, Started, TokensPaid, [Next]_vars PROVE Started'
<1>1. ASSUME UNCHANGED workers PROVE Started'
  BY <1>1 DEF Started
<1>2. ASSUME NEW w \in Workers, workers[w].pc # "idle",
             Left(w) \/ \E step : Went(w, step)
      PROVE  Started'
  BY <1>2 DEF Started, Left, Went, OthersStay
<1>3. CASE Publish \/ Expire \/ (\E d \in Links : LeaseExpires(d) \/ Redrive(d))
           \/ UNCHANGED vars
  BY <1>1, <1>3 DEF Publish, Expire, LeaseExpires, Redrive, vars
<1>4. ASSUME NEW w \in Workers, Claim(w) PROVE Started'
  <2>1. PICK d \in Links : ClaimedBy(w, d)
    BY <1>4, ClaimIs
  <2>2. deliveries[d].token \in Nat
    BY DEF Inv, StoreShape, Record
  <2>3. deliveries[d].token + 1 # 0
    BY <2>2
  <2> QED
    BY <2>1, <2>3 DEF Started, ClaimedBy
<1>5. ASSUME NEW w \in Workers, Attempt(w) \/ Cancel(w) \/ Crash(w) PROVE Started'
  <2>1. CASE CommitAcknowledged(w) \/ CommitUnacknowledged(w)
    BY <1>2, <2>1, CommitMoves
  <2>2. CASE Complete(w) \/ Exhaust(w) \/ Fail(w) \/ Refuse(w) \/ Cancel(w)
    BY <1>2, <2>2, CompleteFinishes, OthersFinish, LeaveIs DEF Finishes
  <2>3. CASE \/ Proceed(w) \/ AdmissionRefused(w) \/ TargetEnds(w) \/ Register(w)
             \/ CompleteFails(w) \/ CommitFails(w) \/ Confirm(w) \/ Lost(w) \/ Crash(w)
    BY <1>2, <2>3, SilentMoves DEF SilentMove
  <2>4. CASE Admit(w) \/ Invoke(w) \/ SaveFinalizing(w)
    <3>1. workers[w].pc # "idle" /\ \E step : Goto(w, step)
      BY <2>4 DEF Admit, Admitted, Invoke, SaveFinalizing, At
    <3> QED
      BY <1>2, <3>1, GotoIs
  <2> QED
    BY <1>5, <2>1, <2>2, <2>3, <2>4 DEF Attempt
<1> QED
  BY <1>3, <1>4, <1>5 DEF Next

-----------------------------------------------------------------------------
(* Which continuations there are. *)

Named(c) ==
  \/ c = None
  \/ \E d \in Links, token \in Nat \ {0} : c = Task(d, token)
  \/ \E d \in Links : c = Verifier(d)

AllNamed ==
  /\ \A c \in open : Named(c)
  /\ \A d \in Links : Named(deliveries[d].admitted)

CommittedBounded == \A d \in Links : committed[d] <= MaxToken

LEMMA NamedKept ==
  ASSUME AllNamed,
         \A c \in open' : c \in open \/ Named(c),
         \A d \in Links :
           \/ deliveries'[d].admitted = deliveries[d].admitted
           \/ deliveries'[d].admitted \in open \cup {None}
  PROVE  AllNamed'
<1>1. Named(None)
  BY DEF Named
<1>2. \A c \in open' : Named(c)
  BY DEF AllNamed
<1>3. \A d \in Links : Named(deliveries'[d].admitted)
  BY <1>1 DEF AllNamed
<1> QED
  BY <1>2, <1>3 DEF AllNamed, Named, Task, Verifier, None

LEMMA NamedAttempt ==
  ASSUME Inv, ChainInv, Started, AllNamed, NEW w \in Workers,
         Attempt(w) \/ Cancel(w) \/ Crash(w)
  PROVE  AllNamed'
<1>1. CASE CommitAcknowledged(w) \/ CommitUnacknowledged(w)
  <2>1. workers[w].pc = "committing" /\ TransitionVerifier(w)
    BY <1>1 DEF CommitAcknowledged, CommitUnacknowledged, At
  <2>2. Child(Mine(w)) \in Links /\ HandedAt(Mine(w), Child(Mine(w)))
    BY <2>1, HandoverIs
  <2>3. \A c \in open' : c \in open \/ Named(c)
    BY <2>1, <2>2 DEF TransitionVerifier, Named
  <2>4. \A d \in Links :
          \/ deliveries'[d].admitted = deliveries[d].admitted
          \/ deliveries'[d].admitted \in open \cup {None}
    BY <2>2, FreshIs DEF HandedAt
  <2> QED
    BY <2>3, <2>4, NamedKept
<1>2. CASE Complete(w) \/ Exhaust(w) \/ Fail(w) \/ Refuse(w) \/ Cancel(w)
  <2>1. \E status : SavedAs(Mine(w), status)
    BY <1>2, CompleteFinishes, OthersFinish DEF Finishes
  <2>2. \A d \in Links : deliveries'[d].admitted = deliveries[d].admitted
    BY <2>1, SavedAdmissions
  <2>3. open' \subseteq open
    BY <1>2 DEF Complete, ConsumeAdmitted, Exhaust, Fail, Refuse, Cancel
  <2> QED
    BY <2>2, <2>3, NamedKept
<1>3. CASE Register(w)
  <2>1. /\ open' \subseteq open \cup {Task(Mine(w), workers[w].token)}
        /\ workers[w].pc = "registering" /\ UNCHANGED deliveries
    BY <1>3 DEF Register, RegisterContinuation, At
  <2>2. Mine(w) \in Links /\ workers[w].token \in Nat \ {0}
    BY <2>1 DEF Started, Inv, WorkerShape, Place
  <2>3. Named(Task(Mine(w), workers[w].token))
    BY <2>2 DEF Named
  <2> QED
    BY <2>1, <2>3, NamedKept
<1>4. CASE \/ Proceed(w) \/ AdmissionRefused(w) \/ TargetEnds(w)
           \/ CompleteFails(w) \/ CommitFails(w) \/ Confirm(w) \/ Lost(w) \/ Crash(w)
  <2>1. UNCHANGED deliveries /\ open' \subseteq open
    BY <1>4 DEF Proceed, AdmissionRefused, CompleteContinuation, TargetEnds,
       CompleteFails, CommitFails, Confirm, Lost, Crash, store
  <2> QED
    BY <2>1, NamedKept
<1>5. CASE Admit(w)
  <2>1. open' = open /\ keys[CorrelationOf(Mine(w))] \in open
    BY <1>5 DEF Admit
  <2>2. AdmittedAs(Mine(w), keys[CorrelationOf(Mine(w))])
    BY <1>5, AdmitIs
  <2> QED
    BY <2>1, <2>2, NamedKept DEF AdmittedAs
<1>6. CASE Invoke(w) \/ SaveFinalizing(w)
  <2>1. \A d \in Links : deliveries'[d].admitted = deliveries[d].admitted
    BY <1>6, InvokeIs, FinalizingIs DEF InvokedAt, SavedAs
  <2>2. open' = open
    BY <1>6 DEF Invoke, SaveFinalizing
  <2> QED
    BY <2>1, <2>2, NamedKept
<1> QED
  BY <1>1, <1>2, <1>3, <1>4, <1>5, <1>6 DEF Attempt

LEMMA NamedStep ==
  ASSUME Inv, ChainInv, Started, AllNamed, [Next]_vars PROVE AllNamed'
<1>1. CASE Publish
  <2>1. PICK r \in Resumes :
          deliveries' = [deliveries EXCEPT ![<<r, 0>>] = Fresh("queued")]
    BY <1>1 DEF Publish
  <2>2. open' = open
    BY <1>1 DEF Publish
  <2>3. \A d \in Links :
          \/ deliveries'[d].admitted = deliveries[d].admitted
          \/ deliveries'[d].admitted \in open \cup {None}
    BY <2>1, FreshIs DEF Inv, StoreShape
  <2> QED
    BY <2>2, <2>3, NamedKept
<1>2. CASE Expire \/ UNCHANGED vars
  BY <1>2, NamedKept DEF Expire, vars
<1>3. ASSUME NEW d \in Links, LeaseExpires(d) \/ Redrive(d) PROVE AllNamed'
  <2>1. \A e \in Links : deliveries'[e].admitted = deliveries[e].admitted
    <3>1. CASE LeaseExpires(d)
      BY <3>1 DEF LeaseExpires, Inv, StoreShape, Record
    <3>2. CASE Redrive(d)
      BY <3>2, RedriveIs DEF RedrivenAt
    <3> QED
      BY <1>3, <3>1, <3>2
  <2>2. open' = open
    BY <1>3 DEF LeaseExpires, Redrive
  <2> QED
    BY <2>1, <2>2, NamedKept
<1>4. ASSUME NEW w \in Workers, Claim(w) PROVE AllNamed'
  <2>1. \A e \in Links : deliveries'[e].admitted = deliveries[e].admitted
    BY <1>4, ClaimIs DEF ClaimedAt
  <2>2. open' = open
    BY <1>4 DEF Claim
  <2> QED
    BY <2>1, <2>2, NamedKept
<1> QED
  BY <1>1, <1>2, <1>3, <1>4, NamedAttempt DEF Next

LEMMA BoundedStep ==
  ASSUME Inv, ChainInv, TokensPaid, CommittedBounded, [Next]_vars
  PROVE  CommittedBounded'
<1>1. CASE UNCHANGED committed
  BY <1>1 DEF CommittedBounded, MaxToken
<1>2. ASSUME NEW w \in Workers, workers[w].pc = "committing", TransitionVerifier(w)
      PROVE  CommittedBounded'
  <2>1. /\ Mine(w) \in Links /\ workers[w].token \in Nat
        /\ workers[w].token <= deliveries[Mine(w)].token
    BY <1>2 DEF Inv, WorkerShape, Place
  <2>2. deliveries[Mine(w)].token \in Nat /\ deliveries[Mine(w)].token <= MaxToken
        /\ MaxToken \in Nat
    <3>1. MaxToken \in Nat
      BY MaxAttemptsIs DEF MaxToken
    <3> QED
      BY <2>1, <3>1, PaidBounds
  <2>3. workers[w].token <= MaxToken
    BY <2>1, <2>2
  <2> HIDE DEF MaxToken
  <2>4. committed' = [committed EXCEPT ![Child(Mine(w))] = workers[w].token]
    BY <1>2 DEF TransitionVerifier
  <2> QED
    BY <2>3, <2>4 DEF CommittedBounded, ChainInv, ChainShape, MaxToken
<1>3. ASSUME NEW w \in Workers, Attempt(w) PROVE CommittedBounded'
  <2>1. CASE CommitAcknowledged(w) \/ CommitUnacknowledged(w)
    BY <1>2, <2>1 DEF CommitAcknowledged, CommitUnacknowledged, At
  <2>2. CASE \/ Admit(w) \/ Invoke(w) \/ SaveFinalizing(w) \/ Complete(w)
             \/ Exhaust(w) \/ Fail(w) \/ Refuse(w)
    BY <1>1, <2>2 DEF Admit, Invoke, SaveFinalizing, Complete, Exhaust, Fail, Refuse
  <2> QED
    BY <1>1, <1>3, <2>1, <2>2, SilentKeep DEF Attempt
<1>4. CASE \/ Publish \/ Expire \/ \E e \in Links : LeaseExpires(e) \/ Redrive(e)
           \/ \E w \in Workers : Claim(w) \/ Cancel(w)
           \/ UNCHANGED vars
  BY <1>1, <1>4 DEF Publish, Expire, LeaseExpires, Redrive, Claim, Cancel, vars
<1> QED
  BY <1>1, <1>3, <1>4, SilentKeep DEF Next

(* Everything that the shape of a chain rests on.                          *)
WorkInv == ChainInv /\ Started /\ TokensPaid /\ AllNamed /\ CommittedBounded

LEMMA WorkInit == Init => WorkInv
<1> SUFFICES ASSUME Init PROVE WorkInv
  OBVIOUS
<1>1. Started
  BY DEF Init, Idle, Started
<1>2. AllNamed
  BY FreshIs DEF Init, AllNamed, Named
<1>3. CommittedBounded
  <2>1. MaxToken \in Nat
    BY MaxAttemptsIs DEF MaxToken
  <2> QED
    BY <2>1 DEF Init, CommittedBounded
<1> QED
  BY <1>1, <1>2, <1>3, ChainInit, PaidInit DEF WorkInv

LEMMA WorkStep == ASSUME ~StaleDeadLetters, Inv, WorkInv, [Next]_vars PROVE WorkInv'
BY ChainStep, StartedStep, PaidStep, NamedStep, BoundedStep DEF WorkInv

LEMMA SeenAreContinuations ==
  ASSUME Inv, WorkInv, NEW c, Seen(c), c # None
  PROVE  c \in Continuations
<1>1. Named(c)
  BY DEF WorkInv, AllNamed, Seen
<1>2. ASSUME NEW d \in Links, NEW token \in Nat \ {0}, c = Task(d, token)
      PROVE  c \in Continuations
  <2>1. token <= deliveries[d].token
    BY <1>2 DEF Inv, TasksOld
  <2>2. MaxToken \in Nat
    BY MaxAttemptsIs DEF MaxToken
  <2>3. deliveries[d].token \in Nat /\ deliveries[d].token <= MaxToken
    BY <2>2, PaidBounds DEF WorkInv
  <2>4. token \in 1..MaxToken
    BY <2>1, <2>2, <2>3
  <2> QED
    BY <1>2, <2>4 DEF Continuations
<1>3. ASSUME NEW d \in Links, c = Verifier(d) PROVE c \in Continuations
  BY <1>3 DEF Continuations
<1> QED
  BY <1>1, <1>2, <1>3 DEF Named

LEMMA WorkTypeOK == ASSUME Inv, WorkInv PROVE TypeOK
<1>1. ASSUME NEW d \in Links PROVE deliveries[d] \in Delivery
  <2>1. deliveries[d] \in Record
    BY DEF Inv, StoreShape
  <2>2. deliveries[d].admitted \in Continuations \cup {None}
    BY SeenAreContinuations DEF Seen
  <2>3. /\ deliveries[d].token \in 0..MaxToken
        /\ deliveries[d].attempt \in 0..MaxAttempts + MaxFaults
    BY PaidBounds DEF WorkInv
  <2> HIDE DEF Continuations
  <2> QED
    BY <2>1, <2>2, <2>3 DEF Record, Delivery, Statuses
<1>2. deliveries \in [Links -> Delivery]
  BY <1>1 DEF Inv, StoreShape
<1>3. \A c \in open : c \in Continuations
  BY SeenAreContinuations, NoneIsNot DEF Seen, Inv, StoreShape
<1>4. keys \in [Keys -> Continuations \cup {None}]
  BY <1>3 DEF Inv, StoreShape, KeysAgree
<1>5. admissions \subseteq Continuations \X Links
  BY <1>3 DEF Inv, StoreShape, AdmissionsAgree
<1>6. ASSUME NEW a \in consumers PROVE a \in Continuations \X Links
  <2>1. a \in Possible \X Links /\ deliveries[a[2]].admitted = a[1]
    BY DEF Inv, StoreShape, ConsumersAdmitted
  <2>2. a[1] # None /\ Seen(a[1])
    BY <2>1, NoneIsNot DEF Seen
  <2> QED
    BY <2>1, <2>2, SeenAreContinuations
<1>7. committed \in [Links -> 0..MaxToken]
  <2>1. MaxToken \in Nat
    BY MaxAttemptsIs DEF MaxToken
  <2> QED
    BY <2>1 DEF WorkInv, ChainInv, ChainShape, CommittedBounded
<1>8. \A w \in Workers : workers[w].pc \in Steps
  BY DEF Inv, WorkerShape, Place
<1>9. expired \subseteq open /\ deadLetters \subseteq Links /\ faults \in 0..MaxFaults
  BY DEF WorkInv, ChainInv, ChainShape, OnlyTasksExpire, TokensPaid
<1> QED
  BY <1>2, <1>3, <1>4, <1>5, <1>6, <1>7, <1>8, <1>9 DEF TypeOK

LEMMA WorkOneLine == ASSUME Inv, WorkInv PROVE OneLineOfWork
<1>1. ASSUME NEW root \in Roots
      PROVE  Cardinality({d \in Links : d[1] = root /\ deliveries[d].status \in Live})
               <= 1
  <2> DEFINE L == {d \in Links : d[1] = root /\ deliveries[d].status \in Live}
  <2>1. ASSUME NEW d \in L, NEW e \in L PROVE d = e
    <3>1. ~(d[2] < e[2]) /\ ~(e[2] < d[2])
      BY DEF WorkInv, ChainInv, Line, OneLine, Live, Active
    <3> QED
      BY <3>1, LinkIs
  <2> HIDE DEF L
  <2>2. Cardinality(L) <= 1
    <3>1. CASE L = {}
      <4>1. Cardinality(L) = 0
        BY <3>1, FS_EmptySet
      <4> QED
        BY <4>1
    <3>2. CASE L # {}
      <4>1. PICK d \in L : L = {d}
        BY <2>1, <3>2
      <4>2. Cardinality(L) = 1
        BY <4>1, FS_Singleton
      <4> QED
        BY <4>2
    <3> QED
      BY <3>1, <3>2
  <2> QED
    BY <2>2 DEF L
<1>2. OneLiveLink
  BY <1>1 DEF OneLiveLink
<1>3. LiveLinkResumable
  BY DEF WorkInv, ChainInv, Line, HandedOver, LiveLinkResumable, Live, Active,
     SettledWell
<1> QED
  BY <1>2, <1>3, WorkTypeOK DEF OneLineOfWork

(* A verifier chain is one line of work: at most one of its deliveries is  *)
(* to be run, that one finds the continuation it was handed, and faults    *)
(* and attempts bound the tokens of each (processDelivery and the verifier *)
(* transition), where the dead letters that are redriven are removed.      *)
THEOREM ChainsWork == Spec => [](~StaleDeadLetters => OneLineOfWork)
<1>1. Init => (~StaleDeadLetters => WorkInv)
  BY WorkInit
<1>2. Inv /\ (~StaleDeadLetters => WorkInv) /\ [Next]_vars
        => (~StaleDeadLetters => WorkInv)'
  BY WorkStep
<1>3. Inv /\ (~StaleDeadLetters => WorkInv) => (~StaleDeadLetters => OneLineOfWork)
  BY WorkOneLine
<1> QED
  BY <1>1, <1>2, <1>3, ContinuationsInvariant, PTL DEF Spec

=============================================================================
