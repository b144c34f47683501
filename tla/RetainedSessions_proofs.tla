------------------------ MODULE RetainedSessions_proofs ------------------------
(***************************************************************************)
(* Theorems about retained sessions, for every value of the constants.     *)
(*                                                                         *)
(* The first part is about the mutations of the registry: what each keeps  *)
(* of a snapshot (Sound) and how it moves the messages (Advances).  The    *)
(* second is about the hosts: whose attempt may run which message.  From   *)
(* both follow the refinement of SessionMail, the finality of a cancel,    *)
(* the drain before a session runs again, and the budget.  The third part  *)
(* is about the books: the counts and the sums that every save checks.     *)
(* The last is about the schedule: who will claim the mail that waits.     *)
(***************************************************************************)
EXTENDS RetainedSessions, FoldTheorems

-----------------------------------------------------------------------------
(* Types of a snapshot *)

Statuses == {"pending", "running"} \cup Mail!Endings

SessionStatuses ==
  {"queued", "running", "cancelling", "interrupted", "completed", "failed",
   "cancelled"}

Message ==
  [session : Ids, mode : {"steer", "follow-up"}, status : Statuses, cancel : BOOLEAN,
   job : Nat, started : BOOLEAN, reserved : BOOLEAN, usage : Int]

SessionRecord ==
  [parent : Nat, depth : Int, status : SessionStatuses, active : Nat,
   usage : Int, descendantUsage : Int, retired : Int]

\* The functions from some of the ids to R.
Table(R) == UNION {[D -> R] : D \in SUBSET Ids}

Snapshot ==
  [epoch : Nat, status : {"active", "interrupted", "cancelled"},
   session : Table(SessionRecord), mail : Table(Message),
   admittedChildren : Int, admittedSubcalls : Nat, retiredSubcalls : Int,
   usage : Int, retiredUsage : Int, reserved : Int, unknown : Int,
   retiredUnknown : Int, budget : {"none", "tokens", "subcalls"}]

-----------------------------------------------------------------------------
(* What every mutation keeps of a snapshot *)

\* Admission numbers name messages and sessions, and none was given twice.
Numbered(r) ==
  /\ DOMAIN r.mail \subseteq 1 .. r.admittedSubcalls
  /\ Sessions(r) \subseteq 1 .. r.admittedSubcalls
  /\ r.admittedSubcalls <= MaxSubcalls

Housed(r) == \A m \in DOMAIN r.mail : r.mail[m].session \in Sessions(r)

\* A session is active on the message that it runs, and only then.
ActiveRuns(r) ==
  /\ \A m \in DOMAIN r.mail :
       r.mail[m].status = "running" => r.session[r.mail[m].session].active = m
  /\ \A s \in Sessions(r) :
       LET m == r.session[s].active IN
       m # NoMessage =>
         /\ m \in DOMAIN r.mail
         /\ r.mail[m].status = "running" /\ r.mail[m].session = s

CancelsHeld(r) ==
  /\ \A m \in DOMAIN r.mail :
       r.mail[m].cancel => r.mail[m].status \notin {"completed", "failed"}
  /\ r.status = "cancelled" =>
       \A m \in DOMAIN r.mail : r.mail[m].status # "pending"

\* Sessions are a tree: a parent is there, and was admitted earlier.
Rooted(r) ==
  \A s \in Sessions(r) :
    /\ r.session[s].parent \in Sessions(r) \cup {Root}
    /\ r.session[s].parent < s

Sound(r) ==
  /\ r \in Snapshot
  /\ Numbered(r) /\ Housed(r) /\ ActiveRuns(r) /\ CancelsHeld(r) /\ Rooted(r)

-----------------------------------------------------------------------------
(* How a mutation moves messages.  Its result is q, and done the message   *)
(* whose run it ends, if any.                                              *)

LifeIn(r, m) ==
  IF m \in DOMAIN r.mail THEN r.mail[m].status
  ELSE IF m <= r.admittedSubcalls THEN "removed" ELSE "absent"

MayMove(a, b) ==
  \/ a = "absent" /\ b = "pending"
  \/ a = "pending" /\ b \in {"running", "cancelled"}
  \/ a = "running" /\ b \in Mail!Endings
  \/ a # "absent" /\ b = "removed"

LivesMove(r, q, done) ==
  \A m \in Ids :
    /\ LifeIn(q, m) # LifeIn(r, m) => MayMove(LifeIn(r, m), LifeIn(q, m))
    /\ m # done =>
         /\ LifeIn(q, m) \in {"completed", "failed"} => LifeIn(q, m) = LifeIn(r, m)
         /\ LifeIn(r, m) = "running" =>
              LifeIn(q, m) \in {"running", "outcome_unknown", "removed"}

\* A message stays with its session, and leaves with it for good.
Stays(r, q) ==
  /\ r.epoch <= q.epoch /\ r.admittedSubcalls <= q.admittedSubcalls
  /\ \A m \in DOMAIN r.mail :
       IF m \in DOMAIN q.mail THEN q.mail[m].session = r.mail[m].session
       ELSE r.mail[m].session \notin Sessions(q)
  /\ \A s \in Sessions(q) : s \in Sessions(r) \/ r.admittedSubcalls < s

Obeys(r, q, done) ==
  /\ r.status = "cancelled" => q.status = "cancelled"
  /\ done \in DOMAIN r.mail \cap DOMAIN q.mail /\ r.mail[done].cancel =>
       q.mail[done].status \notin {"completed", "failed"}

Advances(r, q, done) == LivesMove(r, q, done) /\ Stays(r, q) /\ Obeys(r, q, done)

\* A run is fenced by a new epoch.
Fences(r, q) ==
  \A m \in Ids :
    LifeIn(r, m) = "running" /\ LifeIn(q, m) = "outcome_unknown"
      => r.epoch < q.epoch

-----------------------------------------------------------------------------
(* Tables and snapshots *)

LEMMA TableOf ==
    ASSUME NEW R, NEW D \in SUBSET Ids, NEW f \in [D -> R]
    PROVE  f \in Table(R)
BY DEF Table

LEMMA TableEntries ==
    ASSUME NEW R, NEW f \in Table(R)
    PROVE  /\ DOMAIN f \in SUBSET Ids
           /\ f \in [DOMAIN f -> R]
<1>1. PICK D \in SUBSET Ids : f \in [D -> R]
  BY DEF Table
<1> QED
  BY <1>1

LEMMA IdsAreNumbers == Ids \in SUBSET Nat /\ \A m \in Ids : m # 0
BY LimitsAssumption DEF Ids

LEMMA SnapshotFields ==
    ASSUME NEW r \in Snapshot
    PROVE  /\ r.epoch \in Nat
           /\ DOMAIN r.session \in SUBSET Ids
           /\ DOMAIN r.mail \in SUBSET Ids
           /\ \A s \in DOMAIN r.session : r.session[s] \in SessionRecord
           /\ \A m \in DOMAIN r.mail : r.mail[m] \in Message
           /\ r.admittedSubcalls \in Nat
           /\ r.usage \in Int /\ r.unknown \in Int /\ r.reserved \in Int
<1>1. r.session \in Table(SessionRecord) /\ r.mail \in Table(Message)
  BY DEF Snapshot
<1>2. /\ DOMAIN r.session \in SUBSET Ids /\ DOMAIN r.mail \in SUBSET Ids
      /\ r.session \in [DOMAIN r.session -> SessionRecord]
      /\ r.mail \in [DOMAIN r.mail -> Message]
  <2> DEFINE t == r.session
             u == r.mail
  <2>1. t \in Table(SessionRecord) /\ u \in Table(Message)
    BY <1>1
  <2> HIDE DEF t, u
  <2>2. /\ DOMAIN t \in SUBSET Ids /\ t \in [DOMAIN t -> SessionRecord]
        /\ DOMAIN u \in SUBSET Ids /\ u \in [DOMAIN u -> Message]
    BY <2>1, TableEntries
  <2> QED
    BY <2>2 DEF t, u
<1>3. /\ r.epoch \in Nat /\ r.admittedSubcalls \in Nat
      /\ r.usage \in Int /\ r.unknown \in Int /\ r.reserved \in Int
  BY DEF Snapshot
<1> QED
  BY <1>2, <1>3

LEMMA LifeType ==
    ASSUME NEW r, Sound(r), NEW m \in Ids
    PROVE  /\ LifeIn(r, m) \in Mail!Lives
           /\ LifeIn(r, m) = "absent" <=> ~(m <= r.admittedSubcalls)
           /\ LifeIn(r, m) \notin {"absent", "removed"} <=> m \in DOMAIN r.mail
           /\ m \in DOMAIN r.mail => LifeIn(r, m) = r.mail[m].status
<1>1. \A x \in DOMAIN r.mail : r.mail[x] \in Message
  BY SnapshotFields DEF Sound
<1>2. \A x \in DOMAIN r.mail : r.mail[x].status \in Statuses
  BY <1>1 DEF Message
<1>3. DOMAIN r.mail \subseteq 1 .. r.admittedSubcalls /\ r.admittedSubcalls \in Nat
  BY SnapshotFields DEF Sound, Numbered
<1> QED
  BY <1>2, <1>3, IdsAreNumbers DEF LifeIn, Statuses, Mail!Lives, Mail!Endings

LEMMA MoveAllowed ==
    ASSUME NEW a \in Mail!Lives, NEW b \in Mail!Lives, MayMove(a, b)
    PROVE  <<a, b>> \in Mail!Moves
<1>1. CASE a = "absent" /\ b = "pending"
  BY <1>1 DEF Mail!Moves
<1>2. CASE a = "pending" /\ b \in {"running", "cancelled"}
  BY <1>2 DEF Mail!Moves
<1>3. CASE a = "running" /\ b \in Mail!Endings
  <2>1. <<a, b>> \in {"running"} \X Mail!Endings
    BY <1>3
  <2> QED
    BY <2>1 DEF Mail!Moves
<1>4. CASE a # "absent" /\ b = "removed"
  <2>1. <<a, b>> \in (Mail!Lives \ {"absent"}) \X {"removed"}
    BY <1>4
  <2> QED
    BY <2>1 DEF Mail!Moves
<1> QED
  BY <1>1, <1>2, <1>3, <1>4 DEF MayMove

-----------------------------------------------------------------------------
(* The mutations.  Each is first given by the fields of its result.        *)

LEMMA ReconciledSound ==
    ASSUME NEW r, NEW q, Sound(q), NEW done
    PROVE  /\ Sound(Reconciled(q))
           /\ Advances(r, q, done) => Advances(r, Reconciled(q), done)
           /\ Fences(r, q) => Fences(r, Reconciled(q))
<1> DEFINE p == Reconciled(q)
<1>1. q \in Snapshot
  BY DEF Sound
<1>2. /\ p \in Snapshot /\ p.epoch = q.epoch /\ p.status = q.status
      /\ p.session = q.session /\ p.mail = q.mail
      /\ p.admittedSubcalls = q.admittedSubcalls
  <2>1. ExpectedBudget(q) \in {"none", "tokens", "subcalls"}
    BY DEF ExpectedBudget
  <2> QED
    BY <1>1, <2>1 DEF Reconciled, Snapshot
<1> HIDE DEF p
<1>3. Sound(p)
  BY <1>2 DEF Sound, Numbered, Housed, ActiveRuns, CancelsHeld, Rooted, Sessions
<1>4. \A m \in Ids : LifeIn(p, m) = LifeIn(q, m)
  BY <1>2 DEF LifeIn
<1>5. Advances(r, q, done) => Advances(r, p, done)
  <2>1. LivesMove(r, q, done) => LivesMove(r, p, done)
    BY <1>4 DEF LivesMove
  <2>2. Stays(r, q) => Stays(r, p)
    BY <1>2 DEF Stays, Sessions
  <2>3. Obeys(r, q, done) => Obeys(r, p, done)
    BY <1>2 DEF Obeys
  <2> QED
    BY <2>1, <2>2, <2>3 DEF Advances
<1>6. Fences(r, q) => Fences(r, p)
  BY <1>2, <1>4 DEF Fences
<1> QED
  BY <1>3, <1>5, <1>6 DEF p

LEMMA EmptySound == Sound(EmptyRegistry)
<1> DEFINE r == EmptyRegistry
           none == [s \in {} |-> {}]
<1>1. /\ r.epoch = 1 /\ r.status = "active" /\ r.session = none
      /\ r.mail = none /\ r.admittedSubcalls = 0
  BY DEF EmptyRegistry
<1>2. DOMAIN none = {}
  OBVIOUS
<1>3. r \in Snapshot
  <2>1. none \in [{} -> SessionRecord] /\ none \in [{} -> Message]
    OBVIOUS
  <2>2. none \in Table(SessionRecord) /\ none \in Table(Message)
    BY <2>1 DEF Table
  <2> HIDE DEF none
  <2> QED
    BY <2>2 DEF EmptyRegistry, Snapshot, none
<1> HIDE DEF r, none
<1> QED
  BY <1>1, <1>2, <1>3, LimitsAssumption
     DEF Sound, Numbered, Housed, ActiveRuns, CancelsHeld, Rooted, Sessions, r

\* A table with one more entry.
LEMMA WithEntry ==
    ASSUME NEW R, NEW f \in Table(R), NEW x \in Ids, NEW e \in R
    PROVE  With(f, x, e) \in Table(R)
<1>1. DOMAIN f \in SUBSET Ids /\ f \in [DOMAIN f -> R]
  BY TableEntries
<1>2. With(f, x, e) \in [DOMAIN f \cup {x} -> R]
  BY <1>1 DEF With
<1>3. DOMAIN f \cup {x} \in SUBSET Ids
  BY <1>1
<1> HIDE DEF With
<1> QED
  BY <1>2, <1>3, TableOf

LEMMA NewMessageType ==
    ASSUME NEW r \in Snapshot, NEW s \in Ids, NEW mode \in {"steer", "follow-up"}
    PROVE  /\ NewMessage(r, s, mode) \in Message
           /\ NewMessage(r, s, mode).session = s
           /\ NewMessage(r, s, mode).status = "pending"
           /\ ~NewMessage(r, s, mode).cancel
<1>1. r.epoch \in Nat
  BY DEF Snapshot
<1> QED
  BY <1>1 DEF NewMessage, Message, Statuses, NoUsage

\* The room for another admission.
LEMMA NextId ==
    ASSUME NEW r, Sound(r), MayReserveSubcall(r)
    PROVE  /\ r.admittedSubcalls \in Nat
           /\ r.admittedSubcalls + 1 \in Ids
           /\ r.admittedSubcalls + 1 \notin DOMAIN r.mail
           /\ r.admittedSubcalls + 1 \notin Sessions(r)
<1>1. r.admittedSubcalls \in Nat
  BY SnapshotFields DEF Sound
<1>2. r.admittedSubcalls < MaxSubcalls
  BY DEF MayReserveSubcall
<1> QED
  BY <1>1, <1>2, LimitsAssumption DEF Sound, Numbered, Ids

LEMMA SpawnedSound ==
    ASSUME NEW r, Sound(r), NEW p \in Sessions(r) \cup {Root}, MayAdmitChild(r, p)
    PROVE  /\ Sound(Spawned(r, p))
           /\ Advances(r, Spawned(r, p), NoMessage)
           /\ Fences(r, Spawned(r, p))
<1> DEFINE q == Spawned(r, p)
           s == r.admittedSubcalls + 1
           note == NewMessage(r, s, "follow-up")
           made == [parent |-> p, depth |-> Depth(r, p) + 1, status |-> "queued",
                    active |-> NoMessage, usage |-> 0, descendantUsage |-> 0,
                    retired |-> 0]
<1>1. r \in Snapshot
  BY DEF Sound
<1>2. /\ r.admittedSubcalls \in Nat /\ s \in Ids
      /\ s \notin DOMAIN r.mail /\ s \notin Sessions(r) /\ s <= MaxSubcalls
  <2>1. MayReserveSubcall(r)
    BY DEF MayAdmitChild
  <2> QED
    BY <2>1, NextId DEF Ids
<1>3. p \in Nat /\ p < s
  BY <1>2, IdsAreNumbers DEF Sound, Numbered, Root
<1>4. made \in SessionRecord
  <2>1. Depth(r, p) \in Int
    <3>1. \A x \in Sessions(r) : r.session[x] \in SessionRecord
      BY <1>1, SnapshotFields DEF Sessions
    <3> QED
      BY <3>1 DEF Depth, SessionRecord
  <2> QED
    BY <1>3, <2>1 DEF SessionRecord, SessionStatuses, NoMessage
<1>5. note \in Message /\ note.session = s /\ note.status = "pending" /\ ~note.cancel
  BY <1>1, <1>2, NewMessageType
<1>6. made.parent = p /\ made.active = NoMessage
  OBVIOUS
<1>7. /\ q.epoch = r.epoch /\ q.status = r.status /\ q.admittedSubcalls = s
      /\ q.session = With(r.session, s, made) /\ q.mail = With(r.mail, s, note)
  BY <1>1 DEF Spawned, Snapshot
<1>8. /\ q.session \in Table(SessionRecord) /\ q.mail \in Table(Message)
      /\ DOMAIN q.session = DOMAIN r.session \cup {s}
      /\ DOMAIN q.mail = DOMAIN r.mail \cup {s}
      /\ \A x \in DOMAIN q.session :
           q.session[x] = IF x = s THEN made ELSE r.session[x]
      /\ \A m \in DOMAIN q.mail : q.mail[m] = IF m = s THEN note ELSE r.mail[m]
  <2>1. r.session \in Table(SessionRecord) /\ r.mail \in Table(Message)
    BY <1>1 DEF Snapshot
  <2> HIDE DEF s, made, note, q
  <2>2. /\ With(r.session, s, made) \in Table(SessionRecord)
        /\ With(r.mail, s, note) \in Table(Message)
    BY <1>2, <1>4, <1>5, <2>1, WithEntry
  <2> QED
    BY <1>7, <2>2 DEF With
<1>9. q \in Snapshot
  <2> DEFINE c == r.admittedChildren + 1
             S == With(r.session, s, made)
             M == With(r.mail, s, note)
  <2>1. q = [r EXCEPT !.admittedSubcalls = s, !.admittedChildren = c,
                      !.session = S, !.mail = M]
    BY DEF Spawned
  <2>2. S \in Table(SessionRecord) /\ M \in Table(Message)
    BY <1>7, <1>8
  <2>3. c \in Int /\ s \in Nat
    BY <1>1, <1>2 DEF Snapshot
  <2> HIDE DEF q, s, c, S, M
  <2> QED
    BY <1>1, <2>1, <2>2, <2>3 DEF Snapshot
<1>10. s = r.admittedSubcalls + 1
  OBVIOUS
<1> HIDE DEF q, s, note, made
<1>11. Sound(q)
  <2>1. Numbered(q)
    BY <1>2, <1>7, <1>8, <1>10 DEF Sound, Numbered, Sessions
  <2>2. Housed(q)
    BY <1>5, <1>8 DEF Sound, Housed, Sessions
  <2>3. ActiveRuns(q)
    <3>1. \A m \in DOMAIN r.mail : r.mail[m].session # s
      BY <1>2 DEF Sound, Housed
    <3> QED
      BY <1>2, <1>5, <1>6, <1>8, <3>1 DEF Sound, ActiveRuns, Sessions, Housed
  <2>4. CancelsHeld(q)
    BY <1>2, <1>5, <1>7, <1>8 DEF Sound, CancelsHeld, MayAdmitChild
  <2>5. Rooted(q)
    BY <1>3, <1>6, <1>8 DEF Sound, Rooted, Sessions
  <2> QED
    BY <1>9, <2>1, <2>2, <2>3, <2>4, <2>5 DEF Sound
<1>12. \A m \in Ids : LifeIn(q, m) # LifeIn(r, m) =>
          LifeIn(r, m) = "absent" /\ LifeIn(q, m) = "pending"
  <2> TAKE m \in Ids
  <2>1. CASE m = s
    BY <1>2, <1>5, <1>8, <1>10, <2>1 DEF LifeIn
  <2>2. CASE m # s
    BY <1>2, <1>7, <1>8, <1>10, <2>2, IdsAreNumbers DEF LifeIn
  <2> QED
    BY <2>1, <2>2
<1>13. LivesMove(r, q, NoMessage) /\ Fences(r, q)
  BY <1>12 DEF LivesMove, Fences, MayMove
<1>14. Stays(r, q)
  BY <1>1, <1>2, <1>7, <1>8, <1>10, SnapshotFields DEF Stays, Sessions
<1>15. Obeys(r, q, NoMessage)
  BY <1>1, <1>7, SnapshotFields, IdsAreNumbers DEF Obeys, NoMessage
<1> QED
  BY <1>11, <1>13, <1>14, <1>15 DEF Advances, q

\* A table with one entry replaced, and one with all entries replaced.
LEMMA EntryReplaced ==
    ASSUME NEW R, NEW f \in Table(R), NEW x \in DOMAIN f, NEW e \in R
    PROVE  [f EXCEPT ![x] = e] \in Table(R)
<1>1. DOMAIN f \in SUBSET Ids /\ f \in [DOMAIN f -> R]
  BY TableEntries
<1>2. [f EXCEPT ![x] = e] \in [DOMAIN f -> R]
  BY <1>1
<1> QED
  BY <1>1, <1>2, TableOf

LEMMA SentSound ==
    ASSUME NEW r, Sound(r), NEW s \in Sessions(r), NEW mode \in {"steer", "follow-up"},
           MaySend(r, s)
    PROVE  /\ Sound(Sent(r, s, mode))
           /\ Advances(r, Sent(r, s, mode), NoMessage)
           /\ Fences(r, Sent(r, s, mode))
<1> DEFINE q == Sent(r, s, mode)
           m == r.admittedSubcalls + 1
           note == NewMessage(r, s, mode)
           active == r.session[s].active
           mail == With(r.mail, m, note)
           steers == mode = "steer" /\ active # NoMessage
<1>1. r \in Snapshot
  BY DEF Sound
<1>2. /\ r.admittedSubcalls \in Nat /\ m \in Ids
      /\ m \notin DOMAIN r.mail /\ m \notin Sessions(r) /\ m <= MaxSubcalls
  <2>1. MayReserveSubcall(r)
    BY DEF MaySend
  <2> QED
    BY <2>1, NextId DEF Ids
<1>3. /\ r.session \in Table(SessionRecord) /\ r.mail \in Table(Message)
      /\ \A x \in DOMAIN r.session : r.session[x] \in SessionRecord
      /\ \A x \in DOMAIN r.mail : r.mail[x] \in Message
      /\ s \in DOMAIN r.session /\ s \in Ids
  BY <1>1, SnapshotFields DEF Snapshot, Sessions
<1>4. note \in Message /\ note.session = s /\ note.status = "pending" /\ ~note.cancel
  BY <1>1, <1>3, NewMessageType
<1>5. active # NoMessage =>
        active \in DOMAIN r.mail /\ r.mail[active].status = "running"
  BY DEF Sound, ActiveRuns
<1>6. /\ mail \in Table(Message) /\ DOMAIN mail = DOMAIN r.mail \cup {m}
      /\ \A x \in DOMAIN mail : mail[x] \in Message
      /\ mail[m] = note /\ \A x \in DOMAIN r.mail : mail[x] = r.mail[x]
  <2>1. mail \in Table(Message)
    <3> HIDE DEF m, note
    <3> QED
      BY <1>2, <1>3, <1>4, WithEntry
  <2> HIDE DEF note, m
  <2> QED
    BY <1>2, <1>3, <1>4, <2>1 DEF With
<1>7. PICK asked \in Message :
        /\ steers => asked = [r.mail[active] EXCEPT !.cancel = TRUE]
        /\ steers => /\ asked.status = "running" /\ asked.cancel
                     /\ asked.session = r.mail[active].session
  <2>1. CASE steers
    <3> DEFINE e == r.mail[active]
    <3>1. e \in Message /\ e.status = "running"
      BY <1>3, <1>5, <2>1
    <3> HIDE DEF e
    <3>2. /\ [e EXCEPT !.cancel = TRUE] \in Message
          /\ [e EXCEPT !.cancel = TRUE].status = e.status
          /\ [e EXCEPT !.cancel = TRUE].cancel
          /\ [e EXCEPT !.cancel = TRUE].session = e.session
      BY <3>1 DEF Message
    <3> QED
      BY <3>1, <3>2 DEF e
  <2>2. CASE ~steers
    BY <1>4, <2>2
  <2> QED
    BY <2>1, <2>2
<1>8. PICK left \in SessionRecord :
        /\ left = [r.session[s] EXCEPT !.status =
                     IF steers THEN "cancelling"
                     ELSE IF active = NoMessage THEN "queued"
                     ELSE r.session[s].status]
        /\ left.parent = r.session[s].parent /\ left.active = active
  <2> DEFINE e == r.session[s]
             st == IF steers THEN "cancelling"
                   ELSE IF active = NoMessage THEN "queued" ELSE e.status
  <2>1. e \in SessionRecord /\ active = e.active
    BY <1>3
  <2>2. st \in SessionStatuses
    BY <2>1 DEF SessionRecord, SessionStatuses
  <2> HIDE DEF e, st
  <2>3. /\ [e EXCEPT !.status = st] \in SessionRecord
        /\ [e EXCEPT !.status = st].parent = e.parent
        /\ [e EXCEPT !.status = st].active = e.active
    BY <2>1, <2>2 DEF SessionRecord
  <2> QED
    BY <2>1, <2>3 DEF e, st
<1>9. q = [r EXCEPT !.admittedSubcalls = m,
                    !.mail = IF steers THEN [mail EXCEPT ![active] = asked] ELSE mail,
                    !.session = [r.session EXCEPT ![s] = left]]
  <2>1. steers => active \in DOMAIN r.mail
    BY <1>5
  <2>2. steers => [mail EXCEPT ![active].cancel = TRUE] = [mail EXCEPT ![active] = asked]
    BY <1>6, <1>7, <2>1
  <2>3. [r.session EXCEPT ![s].status = IF steers THEN "cancelling"
                     ELSE IF active = NoMessage THEN "queued" ELSE @]
        = [r.session EXCEPT ![s] = left]
    BY <1>3, <1>8
  <2> QED
    BY <1>1, <2>2, <2>3 DEF Sent, Snapshot
<1> DEFINE letters == IF steers THEN [mail EXCEPT ![active] = asked] ELSE mail
           homes == [r.session EXCEPT ![s] = left]
<1>10. letters \in Table(Message) /\ homes \in Table(SessionRecord)
  <2>1. homes \in Table(SessionRecord)
    <3> DEFINE t == r.session
    <3>1. t \in Table(SessionRecord) /\ s \in DOMAIN t
      BY <1>3
    <3> HIDE DEF t
    <3>2. [t EXCEPT ![s] = left] \in Table(SessionRecord)
      BY <1>8, <3>1, EntryReplaced
    <3> QED
      BY <3>2 DEF t
  <2>2. steers => active \in DOMAIN mail
    BY <1>5, <1>6
  <2> HIDE DEF mail, active
  <2>3. steers => [mail EXCEPT ![active] = asked] \in Table(Message)
    BY <1>6, <1>7, <2>2, EntryReplaced
  <2> QED
    BY <1>6, <2>1, <2>3
<1>11. /\ q.epoch = r.epoch /\ q.status = r.status /\ q.admittedSubcalls = m
       /\ q.session = homes /\ q.mail = letters /\ q \in Snapshot
  <2> HIDE DEF letters, homes, m
  <2>1. q = [r EXCEPT !.admittedSubcalls = m, !.mail = letters, !.session = homes]
    BY <1>9 DEF letters, homes
  <2>2. m \in Nat
    BY <1>2, IdsAreNumbers
  <2> HIDE DEF q
  <2> QED
    BY <1>1, <1>10, <2>1, <2>2 DEF Snapshot
<1>12. /\ DOMAIN q.session = DOMAIN r.session
       /\ \A x \in DOMAIN q.session : /\ q.session[x].parent = r.session[x].parent
                                      /\ q.session[x].active = r.session[x].active
  <2> HIDE DEF q
  <2> QED
    BY <1>3, <1>8, <1>11
<1>13. /\ DOMAIN q.mail = DOMAIN r.mail \cup {m}
       /\ q.mail[m] = note
       /\ \A x \in DOMAIN r.mail : /\ q.mail[x].session = r.mail[x].session
                                   /\ q.mail[x].status = r.mail[x].status
                                   /\ q.mail[x].cancel =>
                                        r.mail[x].cancel \/ r.mail[x].status = "running"
  <2> HIDE DEF q, mail, m, note
  <2>1. steers => m # active /\ active \in DOMAIN r.mail
    BY <1>2, <1>5
  <2> QED
    BY <1>5, <1>6, <1>7, <1>11, <2>1
<1>14. m = r.admittedSubcalls + 1
  OBVIOUS
<1> HIDE DEF q, m, note, active, mail, steers, letters, homes
<1>15. Sound(q)
  <2>1. Numbered(q)
    BY <1>2, <1>11, <1>12, <1>13, <1>14 DEF Sound, Numbered, Sessions
  <2>2. Housed(q)
    BY <1>4, <1>12, <1>13 DEF Sound, Housed, Sessions
  <2>3. ActiveRuns(q)
    BY <1>2, <1>4, <1>12, <1>13 DEF Sound, ActiveRuns, Sessions, Housed
  <2>4. CancelsHeld(q)
    BY <1>2, <1>4, <1>11, <1>13 DEF Sound, CancelsHeld, MaySend
  <2>5. Rooted(q)
    BY <1>12 DEF Sound, Rooted, Sessions
  <2> QED
    BY <1>11, <2>1, <2>2, <2>3, <2>4, <2>5 DEF Sound
<1>16. \A x \in Ids : LifeIn(q, x) # LifeIn(r, x) =>
          LifeIn(r, x) = "absent" /\ LifeIn(q, x) = "pending"
  <2> TAKE x \in Ids
  <2>1. CASE x = m
    BY <1>2, <1>4, <1>13, <1>14, <2>1 DEF LifeIn
  <2>2. CASE x # m
    BY <1>2, <1>11, <1>13, <1>14, <2>2, IdsAreNumbers DEF LifeIn
  <2> QED
    BY <2>1, <2>2
<1>17. LivesMove(r, q, NoMessage) /\ Fences(r, q)
  BY <1>16 DEF LivesMove, Fences, MayMove
<1>18. Stays(r, q)
  BY <1>1, <1>2, <1>11, <1>12, <1>13, <1>14, SnapshotFields DEF Stays, Sessions
<1>19. Obeys(r, q, NoMessage)
  BY <1>1, <1>11, SnapshotFields, IdsAreNumbers DEF Obeys, NoMessage
<1> QED
  BY <1>15, <1>17, <1>18, <1>19 DEF Advances, q
-----------------------------------------------------------------------------
(* The tree of sessions: the function by which Under is defined exists,    *)
(* since a parent was admitted before its children.                        *)

UnderStep(r, top, S, f) ==
  [s \in S |-> s = top \/ r.session[s].parent = top
                 \/ (r.session[s].parent # Root /\ f[r.session[s].parent])]

LEMMA UnderExists ==
    ASSUME NEW r, Rooted(r), NEW n \in Nat, Sessions(r) \subseteq 1 .. n, NEW top
    PROVE  \E f : f = UnderStep(r, top, Sessions(r), f)
<1> DEFINE On(k) == Sessions(r) \cap (1 .. k)
           G == {k \in Nat : \E f : f = UnderStep(r, top, On(k), f)}
<1>1. 0 \in G
  <2> DEFINE none == [s \in {} |-> TRUE]
  <2>1. On(0) = {}
    OBVIOUS
  <2>2. none = UnderStep(r, top, On(0), none)
    BY <2>1 DEF UnderStep
  <2> QED
    BY <2>2
<1>2. ASSUME NEW k \in 0 .. (n - 1), k \in G
      PROVE  k + 1 \in G
  <2>1. PICK f : f = UnderStep(r, top, On(k), f)
    BY <1>2
  <2> DEFINE p == r.session[k + 1].parent
             g == [s \in On(k + 1) |->
                     IF s = k + 1 THEN s = top \/ p = top \/ (p # Root /\ f[p])
                     ELSE f[s]]
  <2>2. \A s \in On(k + 1) : s = k + 1 \/ s \in On(k)
    OBVIOUS
  <2>3. \A s \in On(k + 1) : r.session[s].parent # Root =>
          r.session[s].parent \in On(k) /\ r.session[s].parent # k + 1
    BY DEF Rooted
  <2>4. \A s \in On(k) : f[s] = (s = top \/ r.session[s].parent = top
                 \/ (r.session[s].parent # Root /\ f[r.session[s].parent]))
    BY <2>1 DEF UnderStep
  <2>5. \A x \in On(k) : x # k + 1 /\ x \in On(k + 1)
    OBVIOUS
  <2>6. \A x \in On(k) : g[x] = f[x]
    BY <2>5
  <2>7. \A s \in On(k + 1) : g[s] = (s = top \/ r.session[s].parent = top
                 \/ (r.session[s].parent # Root /\ g[r.session[s].parent]))
    <3> TAKE s \in On(k + 1)
    <3> DEFINE v == r.session[s].parent
    <3>1. v # Root => g[v] = f[v]
      BY <2>3, <2>6
    <3>2. CASE s = k + 1
      <4>1. g[s] = (s = top \/ v = top \/ (v # Root /\ f[v]))
        BY <3>2
      <4> HIDE DEF g, v
      <4> QED
        BY <3>1, <4>1 DEF v
    <3>3. CASE s # k + 1
      <4>1. s \in On(k)
        BY <2>2, <3>3
      <4>2. g[s] = f[s]
        BY <2>6, <4>1
      <4>3. f[s] = (s = top \/ v = top \/ (v # Root /\ f[v]))
        BY <2>4, <4>1
      <4> HIDE DEF g, v
      <4> QED
        BY <3>1, <4>2, <4>3 DEF v
    <3> QED
      BY <3>2, <3>3
  <2>8. g = UnderStep(r, top, On(k + 1), g)
    <3> DEFINE D == On(k + 1)
    <3>1. g = [s \in D |-> g[s]]
      OBVIOUS
    <3>2. \A s \in D : g[s] = (s = top \/ r.session[s].parent = top
                 \/ (r.session[s].parent # Root /\ g[r.session[s].parent]))
      BY <2>7
    <3> HIDE DEF g, D
    <3>3. g = UnderStep(r, top, D, g)
      BY <3>1, <3>2, Zenon DEF UnderStep
    <3> QED
      BY <3>3 DEF D
  <2> QED
    BY <2>8
<1>3. n \in G
  <2> HIDE DEF G
  <2> QED
    BY <1>1, <1>2, PrefixInduction
<1>4. On(n) = Sessions(r)
  OBVIOUS
<1> QED
  BY <1>3, <1>4

LEMMA UnderIs ==
    ASSUME NEW r, Sound(r), NEW top
    PROVE  /\ Under(r, top) \subseteq Sessions(r)
           /\ \A s \in Sessions(r) :
                s \in Under(r, top) <=>
                  \/ s = top \/ r.session[s].parent = top
                  \/ r.session[s].parent # Root
                       /\ r.session[s].parent \in Under(r, top)
<1> DEFINE S == Sessions(r)
           f == CHOOSE g : g = UnderStep(r, top, S, g)
<1>1. Rooted(r) /\ r.admittedSubcalls \in Nat /\ S \subseteq 1 .. r.admittedSubcalls
  BY SnapshotFields DEF Sound, Numbered
<1>2. f = UnderStep(r, top, S, f)
  <2>1. \E g : g = UnderStep(r, top, S, g)
    BY <1>1, UnderExists
  <2> QED
    BY <2>1, Zenon
<1>3. Under(r, top) = {s \in S : f[s]}
  BY DEF Under, UnderStep
<1>4. \A s \in S : f[s] = (s = top \/ r.session[s].parent = top
                 \/ (r.session[s].parent # Root /\ f[r.session[s].parent]))
  <2> HIDE DEF f, S
  <2> QED
    BY <1>2 DEF UnderStep
<1>5. \A s \in S : r.session[s].parent # Root => r.session[s].parent \in S
  BY <1>1 DEF Rooted
<1> HIDE DEF f
<1> QED
  BY <1>3, <1>4, <1>5

LEMMA UnderRoot ==
    ASSUME NEW r, Sound(r)
    PROVE  Under(r, Root) = Sessions(r)
<1> DEFINE n == r.admittedSubcalls
           G == {k \in Nat : Sessions(r) \cap (1 .. k) \subseteq Under(r, Root)}
<1>1. Rooted(r) /\ n \in Nat /\ Sessions(r) \subseteq 1 .. n
  BY SnapshotFields DEF Sound, Numbered
<1>2. 0 \in G
  OBVIOUS
<1>3. ASSUME NEW k \in 0 .. (n - 1), k \in G
      PROVE  k + 1 \in G
  <2>1. ASSUME k + 1 \in Sessions(r)
        PROVE  k + 1 \in Under(r, Root)
    <3> DEFINE p == r.session[k + 1].parent
    <3>1. p = Root \/ (p \in Sessions(r) /\ p < k + 1)
      BY <1>1, <2>1 DEF Rooted
    <3>2. p # Root => p \in Sessions(r) \cap (1 .. k)
      BY <1>1, <3>1
    <3> QED
      BY <1>3, <2>1, <3>2, UnderIs
  <2>2. \A s \in Sessions(r) \cap (1 .. (k + 1)) :
          s = k + 1 \/ s \in Sessions(r) \cap (1 .. k)
    OBVIOUS
  <2> QED
    BY <1>3, <2>1, <2>2
<1>4. n \in G
  <2> HIDE DEF G, n
  <2> QED
    BY <1>1, <1>2, <1>3, PrefixInduction
<1> QED
  BY <1>1, <1>4, UnderIs

\* What is not under the target keeps its parent when that subtree goes.
LEMMA RestRooted ==
    ASSUME NEW r, Sound(r), NEW top, NEW s \in Sessions(r) \ Under(r, top)
    PROVE  r.session[s].parent \in (Sessions(r) \ Under(r, top)) \cup {Root}
BY UnderIs DEF Sound, Rooted
-----------------------------------------------------------------------------
(* Mutations that withdraw what waits and ask what runs to stop.           *)

Stopping(r, q) ==
  /\ q \in Snapshot
  /\ q.epoch = r.epoch /\ q.admittedSubcalls = r.admittedSubcalls
  /\ DOMAIN q.mail = DOMAIN r.mail /\ Sessions(q) = Sessions(r)
  /\ \A m \in DOMAIN r.mail :
       /\ q.mail[m].session = r.mail[m].session
       /\ \/ q.mail[m].status = r.mail[m].status
          \/ r.mail[m].status = "pending" /\ q.mail[m].status = "cancelled"
       /\ q.mail[m].cancel => r.mail[m].cancel \/ r.mail[m].status = "running"
  /\ \A s \in Sessions(r) : /\ q.session[s].parent = r.session[s].parent
                            /\ q.session[s].active = r.session[s].active
  /\ r.status = "cancelled" => q.status = "cancelled"
  /\ q.status = "cancelled" => \A m \in DOMAIN q.mail : q.mail[m].status # "pending"

LEMMA StoppingSound ==
    ASSUME NEW r, NEW q, Sound(r), Stopping(r, q)
    PROVE  /\ Sound(q)
           /\ \A m \in Ids : \/ LifeIn(q, m) = LifeIn(r, m)
                             \/ LifeIn(r, m) = "pending" /\ LifeIn(q, m) = "cancelled"
<1>1. Numbered(q) /\ Housed(q)
  BY DEF Sound, Stopping, Numbered, Housed
<1>2. ActiveRuns(q)
  <2>1. ASSUME NEW m \in DOMAIN q.mail
        PROVE  /\ m \in DOMAIN r.mail /\ q.mail[m].session = r.mail[m].session
               /\ q.mail[m].status = "running" <=> r.mail[m].status = "running"
               /\ r.mail[m].session \in Sessions(r)
    BY DEF Sound, Stopping, Housed
  <2>2. ASSUME NEW s \in Sessions(q)
        PROVE  s \in Sessions(r) /\ q.session[s].active = r.session[s].active
    BY DEF Stopping
  <2>3. DOMAIN q.mail = DOMAIN r.mail /\ Sessions(q) = Sessions(r) /\ ActiveRuns(r)
    BY DEF Sound, Stopping
  <2> QED
    BY <2>1, <2>2, <2>3 DEF ActiveRuns
<1>3. CancelsHeld(q)
  BY DEF Sound, Stopping, CancelsHeld
<1>4. Rooted(q)
  BY DEF Sound, Stopping, Rooted
<1>5. Sound(q)
  BY <1>1, <1>2, <1>3, <1>4 DEF Sound, Stopping
<1>6. ASSUME NEW m \in Ids
      PROVE  \/ LifeIn(q, m) = LifeIn(r, m)
             \/ LifeIn(r, m) = "pending" /\ LifeIn(q, m) = "cancelled"
  BY DEF Stopping, LifeIn
<1> QED
  BY <1>5, <1>6

\* They may follow another mutation, that made nothing wait anew.
LEMMA StoppingAdvances ==
    ASSUME NEW r, NEW p, NEW q, NEW done, Sound(r), Sound(p), Stopping(p, q),
           Advances(r, p, done),
           \A m \in Ids : LifeIn(p, m) = "pending" => LifeIn(r, m) = "pending"
    PROVE  Advances(r, q, done) /\ (Fences(r, p) => Fences(r, q))
<1>1. \A m \in Ids : \/ LifeIn(q, m) = LifeIn(p, m)
                     \/ LifeIn(p, m) = "pending" /\ LifeIn(q, m) = "cancelled"
  BY StoppingSound
<1>2. LivesMove(r, q, done)
  BY <1>1 DEF Advances, LivesMove, MayMove
<1>3. Stays(r, q)
  BY DEF Advances, Stays, Stopping
<1>4. Obeys(r, q, done)
  BY DEF Advances, Obeys, Stopping
<1>5. Fences(r, p) => Fences(r, q)
  BY <1>1 DEF Fences, Stopping
<1> QED
  BY <1>2, <1>3, <1>4, <1>5 DEF Advances

LEMMA Unchanged ==
    ASSUME NEW r, Sound(r)
    PROVE  Advances(r, r, NoMessage) /\ Fences(r, r)
<1>1. LivesMove(r, r, NoMessage) /\ Fences(r, r)
  BY DEF LivesMove, Fences
<1>2. Stays(r, r)
  BY SnapshotFields DEF Sound, Stays, Housed
<1>3. Obeys(r, r, NoMessage)
  BY SnapshotFields, IdsAreNumbers DEF Sound, Obeys, NoMessage
<1> QED
  BY <1>1, <1>2, <1>3 DEF Advances

\* A table whose entries are all replaced.
LEMMA EntriesReplaced ==
    ASSUME NEW R, NEW D \in SUBSET Ids, NEW f, f = [x \in D |-> f[x]],
           \A x \in D : f[x] \in R
    PROVE  f \in Table(R)
<1>1. f \in [D -> R]
  OBVIOUS
<1> QED
  BY <1>1, TableOf

LEMMA CancelledSound ==
    ASSUME NEW r, Sound(r), NEW target \in Sessions(r) \cup {Root}
    PROVE  /\ Sound(CancelledUnder(r, target))
           /\ Advances(r, CancelledUnder(r, target), NoMessage)
           /\ Fences(r, CancelledUnder(r, target))
           /\ target = Root => CancelledUnder(r, target).status = "cancelled"
<1> DEFINE q == CancelledUnder(r, target)
           S == Under(r, target)
           letter(m) == IF r.mail[m].session \notin S THEN r.mail[m]
                        ELSE IF r.mail[m].status = "pending"
                             THEN [r.mail[m] EXCEPT !.status = "cancelled"]
                        ELSE IF r.mail[m].status = "running"
                             THEN [r.mail[m] EXCEPT !.cancel = TRUE]
                        ELSE r.mail[m]
           home(s) == IF s \notin S THEN r.session[s]
                      ELSE [r.session[s] EXCEPT
                             !.status = IF r.session[s].active # NoMessage
                                        THEN "cancelling" ELSE "cancelled"]
           letters == [m \in DOMAIN r.mail |-> letter(m)]
           homes == [s \in DOMAIN r.session |-> home(s)]
           status == IF target = Root THEN "cancelled" ELSE r.status
<1>1. r \in Snapshot
  BY DEF Sound
<1>2. q = [r EXCEPT !.status = status, !.mail = letters, !.session = homes]
  BY <1>1 DEF CancelledUnder, Snapshot
<1>3. /\ DOMAIN r.mail \in SUBSET Ids /\ DOMAIN r.session \in SUBSET Ids
      /\ \A m \in DOMAIN r.mail : r.mail[m] \in Message
      /\ \A s \in DOMAIN r.session : r.session[s] \in SessionRecord
  BY <1>1, SnapshotFields
<1>4. \A m \in DOMAIN r.mail :
        /\ letter(m) \in Message /\ letter(m).session = r.mail[m].session
        /\ \/ letter(m).status = r.mail[m].status
           \/ r.mail[m].status = "pending" /\ letter(m).status = "cancelled"
        /\ letter(m).cancel => r.mail[m].cancel \/ r.mail[m].status = "running"
        /\ r.mail[m].session \in S => letter(m).status # "pending"
  <2> TAKE m \in DOMAIN r.mail
  <2> DEFINE e == r.mail[m]
  <2>1. e \in Message
    BY <1>3
  <2> HIDE DEF e
  <2>2. /\ [e EXCEPT !.status = "cancelled"] \in Message
        /\ [e EXCEPT !.status = "cancelled"].session = e.session
        /\ [e EXCEPT !.status = "cancelled"].status = "cancelled"
        /\ [e EXCEPT !.status = "cancelled"].cancel = e.cancel
    BY <2>1 DEF Message, Statuses, Mail!Endings
  <2>3. /\ [e EXCEPT !.cancel = TRUE] \in Message
        /\ [e EXCEPT !.cancel = TRUE].session = e.session
        /\ [e EXCEPT !.cancel = TRUE].status = e.status
    BY <2>1 DEF Message
  <2>4. letter(m) = IF e.session \notin S THEN e
                    ELSE IF e.status = "pending" THEN [e EXCEPT !.status = "cancelled"]
                    ELSE IF e.status = "running" THEN [e EXCEPT !.cancel = TRUE]
                    ELSE e
    BY DEF e
  <2> HIDE DEF letter
  <2>5. /\ letter(m) \in Message /\ letter(m).session = e.session
        /\ \/ letter(m).status = e.status
           \/ e.status = "pending" /\ letter(m).status = "cancelled"
        /\ letter(m).cancel => e.cancel \/ e.status = "running"
        /\ e.session \in S => letter(m).status # "pending"
    BY <2>1, <2>2, <2>3, <2>4
  <2> QED
    BY <2>5 DEF e
<1>5. \A s \in DOMAIN r.session :
        /\ home(s) \in SessionRecord /\ home(s).parent = r.session[s].parent
        /\ home(s).active = r.session[s].active
  BY <1>3 DEF SessionRecord, SessionStatuses
<1>6. letters \in Table(Message) /\ homes \in Table(SessionRecord)
  <2> DEFINE D == DOMAIN r.mail
             E == DOMAIN r.session
  <2>1. /\ letters = [m \in D |-> letters[m]] /\ \A m \in D : letters[m] \in Message
        /\ D \in SUBSET Ids
    BY <1>3, <1>4
  <2>2. /\ homes = [s \in E |-> homes[s]] /\ \A s \in E : homes[s] \in SessionRecord
        /\ E \in SUBSET Ids
    BY <1>3, <1>5
  <2> HIDE DEF letters, homes, D, E
  <2> QED
    BY <2>1, <2>2, EntriesReplaced
<1>7. status \in {"active", "interrupted", "cancelled"}
  BY <1>1 DEF Snapshot
<1>8. /\ q \in Snapshot /\ q.epoch = r.epoch /\ q.status = status
      /\ q.admittedSubcalls = r.admittedSubcalls /\ q.mail = letters /\ q.session = homes
  <2> HIDE DEF q, letters, homes, status
  <2> QED
    BY <1>1, <1>2, <1>6, <1>7 DEF Snapshot
<1>9. status = "cancelled" => \A m \in DOMAIN r.mail : letter(m).status # "pending"
  <2>1. CASE target = Root
    <3>1. S = Sessions(r)
      BY <2>1, UnderRoot
    <3> HIDE DEF letter, S
    <3> QED
      BY <1>4, <3>1 DEF Sound, Housed
  <2>2. CASE target # Root
    <3> HIDE DEF letter
    <3> QED
      BY <1>4, <2>2 DEF Sound, CancelsHeld
  <2> QED
    BY <2>1, <2>2
<1> HIDE DEF q, letter, home
<1>10. Stopping(r, q)
  <2>1. r.status = "cancelled" => status = "cancelled"
    OBVIOUS
  <2> HIDE DEF status
  <2> QED
    BY <1>4, <1>5, <1>8, <1>9, <2>1 DEF Stopping, Sessions
<1>11. q.status = "cancelled" \/ target # Root
  BY <1>8
<1> QED
  BY <1>10, <1>11, StoppingSound, StoppingAdvances, Unchanged DEF q

LEMMA StopExhaustedStops ==
    ASSUME NEW r, Sound(r)
    PROVE  Stopping(r, StopExhausted(r))
<1> DEFINE q == StopExhausted(r)
           letter(m) == IF r.mail[m].status = "pending"
                             THEN [r.mail[m] EXCEPT !.status = "cancelled"]
                        ELSE IF r.mail[m].status = "running"
                             THEN [r.mail[m] EXCEPT !.cancel = TRUE]
                        ELSE r.mail[m]
           next(s) == IF r.session[s].active # NoMessage THEN "cancelling"
                      ELSE IF /\ r.session[s].active = NoMessage
                              /\ r.session[s].status = "queued" THEN "cancelled"
                      ELSE r.session[s].status
           home(s) == [r.session[s] EXCEPT !.status = next(s)]
           letters == [m \in DOMAIN r.mail |-> letter(m)]
           homes == [s \in DOMAIN r.session |-> home(s)]
<1>1. r \in Snapshot
  BY DEF Sound
<1>2. q = [r EXCEPT !.mail = letters, !.session = homes]
  BY <1>1 DEF StopExhausted, Snapshot
<1>3. /\ DOMAIN r.mail \in SUBSET Ids /\ DOMAIN r.session \in SUBSET Ids
      /\ \A m \in DOMAIN r.mail : r.mail[m] \in Message
      /\ \A s \in DOMAIN r.session : r.session[s] \in SessionRecord
  BY <1>1, SnapshotFields
<1>4. \A m \in DOMAIN r.mail :
        /\ letter(m) \in Message /\ letter(m).session = r.mail[m].session
        /\ \/ letter(m).status = r.mail[m].status
           \/ r.mail[m].status = "pending" /\ letter(m).status = "cancelled"
        /\ letter(m).cancel => r.mail[m].cancel \/ r.mail[m].status = "running"
        /\ letter(m).status # "pending"
  <2> TAKE m \in DOMAIN r.mail
  <2> DEFINE e == r.mail[m]
  <2>1. e \in Message
    BY <1>3
  <2> HIDE DEF e
  <2>2. /\ [e EXCEPT !.status = "cancelled"] \in Message
        /\ [e EXCEPT !.status = "cancelled"].session = e.session
        /\ [e EXCEPT !.status = "cancelled"].status = "cancelled"
        /\ [e EXCEPT !.status = "cancelled"].cancel = e.cancel
    BY <2>1 DEF Message, Statuses, Mail!Endings
  <2>3. /\ [e EXCEPT !.cancel = TRUE] \in Message
        /\ [e EXCEPT !.cancel = TRUE].session = e.session
        /\ [e EXCEPT !.cancel = TRUE].status = e.status
    BY <2>1 DEF Message
  <2>4. letter(m) = IF e.status = "pending" THEN [e EXCEPT !.status = "cancelled"]
                    ELSE IF e.status = "running" THEN [e EXCEPT !.cancel = TRUE]
                    ELSE e
    BY DEF e
  <2> HIDE DEF letter
  <2>5. /\ letter(m) \in Message /\ letter(m).session = e.session
        /\ \/ letter(m).status = e.status
           \/ e.status = "pending" /\ letter(m).status = "cancelled"
        /\ letter(m).cancel => e.cancel \/ e.status = "running"
        /\ letter(m).status # "pending"
    BY <2>1, <2>2, <2>3, <2>4
  <2> QED
    BY <2>5 DEF e
<1>5. \A s \in DOMAIN r.session :
        /\ home(s) \in SessionRecord /\ home(s).parent = r.session[s].parent
        /\ home(s).active = r.session[s].active
  <2> TAKE s \in DOMAIN r.session
  <2>1. r.session[s] \in SessionRecord
    BY <1>3
  <2>2. next(s) \in SessionStatuses
    BY <2>1 DEF SessionRecord, SessionStatuses
  <2> HIDE DEF next
  <2> QED
    BY <2>1, <2>2 DEF SessionRecord
<1>6. letters \in Table(Message) /\ homes \in Table(SessionRecord)
  <2> DEFINE D == DOMAIN r.mail
             E == DOMAIN r.session
  <2>1. /\ letters = [m \in D |-> letters[m]] /\ \A m \in D : letters[m] \in Message
        /\ D \in SUBSET Ids
    BY <1>3, <1>4
  <2>2. /\ homes = [s \in E |-> homes[s]] /\ \A s \in E : homes[s] \in SessionRecord
        /\ E \in SUBSET Ids
    BY <1>3, <1>5
  <2> HIDE DEF letters, homes, D, E
  <2> QED
    BY <2>1, <2>2, EntriesReplaced
<1>7. /\ q \in Snapshot /\ q.epoch = r.epoch /\ q.status = r.status
      /\ q.admittedSubcalls = r.admittedSubcalls /\ q.mail = letters /\ q.session = homes
  <2> HIDE DEF q, letters, homes
  <2> QED
    BY <1>1, <1>2, <1>6 DEF Snapshot
<1> HIDE DEF q, letter, home
<1>8. Stopping(r, q)
  BY <1>4, <1>5, <1>7 DEF Stopping, Sessions
<1> QED
  BY <1>8 DEF q

-----------------------------------------------------------------------------
(* The claim of a message, and the end of its run.                         *)

LEMMA ClaimedSound ==
    ASSUME NEW r, Sound(r), NEW m, MayClaim(r, m, r.epoch)
    PROVE  /\ Sound(Claimed(r, m))
           /\ Advances(r, Claimed(r, m), NoMessage)
           /\ Fences(r, Claimed(r, m))
           /\ m \in DOMAIN Claimed(r, m).mail /\ m \in DOMAIN r.mail
           /\ Claimed(r, m).mail[m].status = "running"
           /\ Claimed(r, m).mail[m].session = r.mail[m].session
           /\ r.mail[m].status = "pending"
<1> DEFINE q == Claimed(r, m)
           s == r.mail[m].session
           letter == [r.mail[m] EXCEPT !.status = "running", !.started = TRUE,
                                       !.reserved = TRUE]
           home == [r.session[s] EXCEPT !.active = m, !.status = "running"]
           reserved == r.reserved + MaxTokensPerMessage
<1>1. r \in Snapshot /\ r.reserved \in Int /\ r.epoch \in Nat
      /\ r.admittedSubcalls \in Nat
  BY SnapshotFields DEF Sound
<1>2. /\ m \in DOMAIN r.mail /\ r.mail[m].status = "pending"
      /\ s \in DOMAIN r.session /\ r.session[s].active = NoMessage
      /\ r.status # "cancelled"
  BY DEF MayClaim, Sound, Housed, Sessions, CancelsHeld
<1>3. /\ r.session \in Table(SessionRecord) /\ r.mail \in Table(Message)
      /\ DOMAIN r.mail \in SUBSET Ids
      /\ \A x \in DOMAIN r.session : r.session[x] \in SessionRecord
      /\ \A x \in DOMAIN r.mail : r.mail[x] \in Message
  BY <1>1, SnapshotFields DEF Snapshot
<1>4. m \in Ids /\ m \in Nat /\ m # NoMessage
  BY <1>2, <1>3, IdsAreNumbers DEF NoMessage
<1>5. /\ letter \in Message /\ letter.status = "running" /\ letter.session = s
      /\ letter.cancel = r.mail[m].cancel
  <2> DEFINE e == r.mail[m]
  <2>1. e \in Message
    BY <1>2, <1>3
  <2> HIDE DEF e
  <2>2. /\ [e EXCEPT !.status = "running", !.started = TRUE, !.reserved = TRUE] \in Message
        /\ [e EXCEPT !.status = "running", !.started = TRUE, !.reserved = TRUE].status = "running"
        /\ [e EXCEPT !.status = "running", !.started = TRUE, !.reserved = TRUE].session = e.session
        /\ [e EXCEPT !.status = "running", !.started = TRUE, !.reserved = TRUE].cancel = e.cancel
    BY <2>1 DEF Message, Statuses
  <2> QED
    BY <2>2 DEF e
<1>6. /\ home \in SessionRecord /\ home.active = m
      /\ home.parent = r.session[s].parent
  <2> DEFINE e == r.session[s]
  <2>1. e \in SessionRecord
    BY <1>2, <1>3
  <2> HIDE DEF e
  <2>2. /\ [e EXCEPT !.active = m, !.status = "running"] \in SessionRecord
        /\ [e EXCEPT !.active = m, !.status = "running"].active = m
        /\ [e EXCEPT !.active = m, !.status = "running"].parent = e.parent
    BY <1>4, <2>1 DEF SessionRecord, SessionStatuses
  <2> QED
    BY <2>2 DEF e
<1> DEFINE letters == [r.mail EXCEPT ![m] = letter]
           homes == [r.session EXCEPT ![s] = home]
<1>7. q = [r EXCEPT !.mail = letters, !.reserved = reserved, !.session = homes]
  BY <1>1, <1>2 DEF Claimed, Snapshot
<1>8. letters \in Table(Message) /\ homes \in Table(SessionRecord)
  <2> DEFINE t == r.session
             u == r.mail
  <2>1. t \in Table(SessionRecord) /\ u \in Table(Message) /\ s \in DOMAIN t /\ m \in DOMAIN u
    BY <1>2, <1>3
  <2> HIDE DEF t, u, s, letter, home
  <2>2. [t EXCEPT ![s] = home] \in Table(SessionRecord)
    BY <1>6, <2>1, EntryReplaced
  <2>3. [u EXCEPT ![m] = letter] \in Table(Message)
    BY <1>5, <2>1, EntryReplaced
  <2> QED
    BY <2>2, <2>3 DEF t, u
<1>9. reserved \in Int
  BY <1>1, LimitsAssumption
<1>10. /\ q \in Snapshot /\ q.epoch = r.epoch /\ q.status = r.status
       /\ q.admittedSubcalls = r.admittedSubcalls /\ q.mail = letters /\ q.session = homes
  <2> HIDE DEF q, letters, homes, reserved
  <2> QED
    BY <1>1, <1>7, <1>8, <1>9 DEF Snapshot
<1> HIDE DEF q, letter, home
<1>11. /\ DOMAIN q.mail = DOMAIN r.mail /\ DOMAIN q.session = DOMAIN r.session
       /\ \A x \in DOMAIN r.mail : q.mail[x] = IF x = m THEN letter ELSE r.mail[x]
       /\ \A x \in DOMAIN r.session :
            q.session[x] = IF x = s THEN home ELSE r.session[x]
  BY <1>2, <1>3, <1>10
<1> HIDE DEF s, letters, homes
<1>12. r.mail[m].session = s
  BY DEF s
<1>13. Sound(q)
  <2>1. Numbered(q)
    BY <1>10, <1>11 DEF Sound, Numbered, Sessions
  <2>2. Housed(q)
    BY <1>5, <1>11, <1>12 DEF Sound, Housed, Sessions
  <2>3. ActiveRuns(q)
    <3>1. \A x \in DOMAIN r.mail :
            r.mail[x].status = "running" => r.mail[x].session # s /\ x # m
      BY <1>2, <1>3, IdsAreNumbers DEF Sound, ActiveRuns, NoMessage
    <3>2. \A x \in DOMAIN q.mail :
            q.mail[x].status = "running" => q.session[q.mail[x].session].active = x
      <4> TAKE x \in DOMAIN q.mail
      <4>1. CASE x = m
        BY <1>2, <1>5, <1>6, <1>11, <4>1
      <4>2. CASE x # m
        BY <1>11, <3>1, <4>2 DEF Sound, ActiveRuns, Housed, Sessions
      <4> QED
        BY <4>1, <4>2
    <3>3. \A x \in DOMAIN q.session : q.session[x].active # NoMessage =>
            /\ q.session[x].active \in DOMAIN q.mail
            /\ q.mail[q.session[x].active].status = "running"
            /\ q.mail[q.session[x].active].session = x
      <4> TAKE x \in DOMAIN q.session
      <4>1. CASE x = s
        BY <1>2, <1>5, <1>6, <1>11, <4>1
      <4>2. CASE x # s
        <5>1. q.session[x].active = r.session[x].active
          BY <1>11, <4>2
        <5>2. r.session[x].active # m \/ r.session[x].active = NoMessage
          BY <1>2, <1>11 DEF Sound, ActiveRuns, Sessions
        <5> QED
          BY <1>11, <5>1, <5>2 DEF Sound, ActiveRuns, Sessions
      <4> QED
        BY <4>1, <4>2
    <3> QED
      BY <3>2, <3>3 DEF ActiveRuns, Sessions
  <2>4. CancelsHeld(q)
    BY <1>2, <1>5, <1>10, <1>11 DEF Sound, CancelsHeld
  <2>5. Rooted(q)
    BY <1>6, <1>11 DEF Sound, Rooted, Sessions
  <2> QED
    BY <1>10, <2>1, <2>2, <2>3, <2>4, <2>5 DEF Sound
<1>14. \A x \in Ids : \/ LifeIn(q, x) = LifeIn(r, x)
                      \/ LifeIn(r, x) = "pending" /\ LifeIn(q, x) = "running"
  BY <1>2, <1>5, <1>10, <1>11 DEF LifeIn
<1>15. LivesMove(r, q, NoMessage) /\ Fences(r, q)
  BY <1>14 DEF LivesMove, Fences, MayMove
<1>16. Stays(r, q)
  BY <1>1, <1>5, <1>10, <1>11, <1>12 DEF Stays, Sessions
<1>17. Obeys(r, q, NoMessage)
  BY <1>3, <1>10, IdsAreNumbers DEF Obeys, NoMessage
<1> QED
  BY <1>2, <1>5, <1>11, <1>12, <1>13, <1>15, <1>16, <1>17 DEF Advances, q

\* The snapshot of a completion, before it stops what the budget no longer
\* allows.
Ended(r, m, outcome, tokens) ==
  LET s == r.mail[m].session IN
  [r EXCEPT
    !.mail[m] = [@ EXCEPT !.status = outcome, !.reserved = FALSE, !.usage = tokens],
    !.reserved = @ - MaxTokensPerMessage, !.usage = @ + tokens,
    !.session = [t \in DOMAIN @ |->
      IF t = s
      THEN [r.session[t] EXCEPT
             !.active = NoMessage, !.usage = @ + tokens,
             !.status = IF outcome # "cancelled" THEN outcome
                        ELSE IF Pending(r, s) # {} THEN "queued" ELSE "cancelled"]
      ELSE IF s \in Under(r, t)
           THEN [r.session[t] EXCEPT !.descendantUsage = @ + tokens]
      ELSE r.session[t]]]

LEMMA SettledIs ==
    ASSUME NEW r, NEW m, NEW outcome, NEW tokens
    PROVE  Settled(r, m, outcome, tokens) =
             IF Exhausted(Ended(r, m, outcome, tokens))
             THEN StopExhausted(Ended(r, m, outcome, tokens))
             ELSE Ended(r, m, outcome, tokens)
BY DEF Settled, Ended

LEMMA EndedSound ==
    ASSUME NEW r, Sound(r), NEW m \in DOMAIN r.mail, r.mail[m].status = "running",
           NEW outcome \in {"completed", "failed", "cancelled"}, NEW tokens \in Int,
           r.mail[m].cancel => outcome = "cancelled"
    PROVE  LET q == Ended(r, m, outcome, tokens) IN
           /\ Sound(q) /\ Advances(r, q, m) /\ Fences(r, q)
           /\ LifeIn(q, m) = outcome
           /\ \A x \in Ids : x # m => LifeIn(q, x) = LifeIn(r, x)
<1> DEFINE s == r.mail[m].session
           letter == [r.mail[m] EXCEPT !.status = outcome, !.reserved = FALSE,
                                       !.usage = tokens]
           rest == IF outcome # "cancelled" THEN outcome
                   ELSE IF Pending(r, s) # {} THEN "queued" ELSE "cancelled"
           home(t) == IF t = s
                      THEN [r.session[t] EXCEPT !.active = NoMessage,
                              !.usage = @ + tokens, !.status = rest]
                      ELSE IF s \in Under(r, t)
                           THEN [r.session[t] EXCEPT !.descendantUsage = @ + tokens]
                      ELSE r.session[t]
           letters == [r.mail EXCEPT ![m] = letter]
           homes == [t \in DOMAIN r.session |-> home(t)]
           reserved == r.reserved - MaxTokensPerMessage
           usage == r.usage + tokens
           q == Ended(r, m, outcome, tokens)
<1>1. /\ r \in Snapshot /\ r.reserved \in Int /\ r.usage \in Int /\ r.epoch \in Nat
      /\ r.admittedSubcalls \in Nat
  BY SnapshotFields DEF Sound
<1>2. s \in DOMAIN r.session /\ r.session[s].active = m
  BY DEF Sound, Housed, ActiveRuns, Sessions
<1>3. /\ r.mail \in Table(Message)
      /\ DOMAIN r.mail \in SUBSET Ids /\ DOMAIN r.session \in SUBSET Ids
      /\ \A x \in DOMAIN r.session : r.session[x] \in SessionRecord
      /\ \A x \in DOMAIN r.mail : r.mail[x] \in Message
  BY <1>1, SnapshotFields DEF Snapshot
<1>4. m \in Ids /\ m # NoMessage
  BY <1>3, IdsAreNumbers DEF NoMessage
<1>5. /\ letter \in Message /\ letter.status = outcome /\ letter.session = s
      /\ letter.cancel = r.mail[m].cancel
  <2> DEFINE e == r.mail[m]
             f == [e EXCEPT !.status = outcome, !.reserved = FALSE, !.usage = tokens]
  <2>1. e \in Message
    BY <1>3
  <2> HIDE DEF e
  <2>2. /\ f \in Message /\ f.status = outcome
        /\ f.session = e.session /\ f.cancel = e.cancel
    BY <2>1 DEF Message, Statuses, Mail!Endings
  <2> QED
    BY <2>2 DEF e
<1>6. \A t \in DOMAIN r.session :
        /\ home(t) \in SessionRecord /\ home(t).parent = r.session[t].parent
        /\ home(t).active = IF t = s THEN NoMessage ELSE r.session[t].active
  <2>1. rest \in SessionStatuses
    BY DEF SessionStatuses
  <2> HIDE DEF rest, s
  <2> TAKE t \in DOMAIN r.session
  <2> DEFINE e == r.session[t]
             f == [e EXCEPT !.active = NoMessage, !.usage = e.usage + tokens,
                            !.status = rest]
             g == [e EXCEPT !.descendantUsage = e.descendantUsage + tokens]
  <2>2. home(t) = IF t = s THEN f ELSE IF s \in Under(r, t) THEN g ELSE e
    OBVIOUS
  <2>3. e \in SessionRecord
    BY <1>3
  <2>4. e.active = r.session[t].active /\ e.parent = r.session[t].parent
    OBVIOUS
  <2> HIDE DEF e, home
  <2>5. e.usage + tokens \in Int /\ e.descendantUsage + tokens \in Int
    BY <2>3 DEF SessionRecord
  <2>6. f \in SessionRecord /\ f.parent = e.parent /\ f.active = NoMessage
    BY <2>1, <2>3, <2>5 DEF SessionRecord, NoMessage
  <2>7. g \in SessionRecord /\ g.parent = e.parent /\ g.active = e.active
    BY <2>3, <2>5 DEF SessionRecord
  <2> HIDE DEF f, g
  <2> QED
    BY <2>2, <2>3, <2>4, <2>6, <2>7
<1>7. q = [r EXCEPT !.mail = letters, !.reserved = reserved, !.usage = usage,
                    !.session = homes]
  BY <1>1, <1>3 DEF Ended, Snapshot
<1> HIDE DEF q
<1>8. letters \in Table(Message) /\ homes \in Table(SessionRecord)
  <2> DEFINE u == r.mail
             E == DOMAIN r.session
  <2>1. /\ homes = [t \in E |-> homes[t]] /\ \A t \in E : homes[t] \in SessionRecord
        /\ E \in SUBSET Ids
    BY <1>3, <1>6
  <2>2. u \in Table(Message) /\ m \in DOMAIN u
    BY <1>3
  <2> HIDE DEF u, letter, homes, E
  <2>3. [u EXCEPT ![m] = letter] \in Table(Message)
    BY <1>5, <2>2, EntryReplaced
  <2>4. homes \in Table(SessionRecord)
    BY <2>1, EntriesReplaced
  <2> QED
    BY <2>3, <2>4 DEF u
<1>9. reserved \in Int /\ usage \in Int
  BY <1>1, LimitsAssumption
<1>10. /\ q \in Snapshot /\ q.epoch = r.epoch /\ q.status = r.status
       /\ q.admittedSubcalls = r.admittedSubcalls /\ q.mail = letters /\ q.session = homes
  <2> HIDE DEF letters, homes, reserved, usage
  <2> QED
    BY <1>1, <1>7, <1>8, <1>9 DEF Snapshot
<1> HIDE DEF letter, home
<1>11. /\ DOMAIN q.mail = DOMAIN r.mail /\ DOMAIN q.session = DOMAIN r.session
       /\ \A x \in DOMAIN r.mail : q.mail[x] = IF x = m THEN letter ELSE r.mail[x]
       /\ \A x \in DOMAIN r.session : q.session[x] = home(x)
  BY <1>3, <1>10
<1>12. r.mail[m].session = s
  OBVIOUS
<1> HIDE DEF s, letters, homes
<1>13. Sound(q)
  <2>1. Numbered(q)
    BY <1>10, <1>11 DEF Sound, Numbered, Sessions
  <2>2. Housed(q)
    BY <1>5, <1>11, <1>12 DEF Sound, Housed, Sessions
  <2>3. ActiveRuns(q)
    <3>1. \A x \in DOMAIN r.mail :
            r.mail[x].status = "running" /\ x # m => r.mail[x].session # s
      BY <1>2 DEF Sound, ActiveRuns
    <3>2. \A x \in DOMAIN q.mail :
            q.mail[x].status = "running" => q.session[q.mail[x].session].active = x
      <4> TAKE x \in DOMAIN q.mail
      <4>1. CASE x = m
        BY <1>5, <1>11, <4>1
      <4>2. CASE x # m
        BY <1>6, <1>11, <3>1, <4>2 DEF Sound, ActiveRuns, Housed, Sessions
      <4> QED
        BY <4>1, <4>2
    <3>3. \A x \in DOMAIN q.session : q.session[x].active # NoMessage =>
            /\ q.session[x].active \in DOMAIN q.mail
            /\ q.mail[q.session[x].active].status = "running"
            /\ q.mail[q.session[x].active].session = x
      <4> TAKE x \in DOMAIN q.session
      <4>1. CASE x = s
        BY <1>6, <1>11, <4>1
      <4>2. CASE x # s
        <5>1. q.session[x].active = r.session[x].active
          BY <1>6, <1>11, <4>2
        <5>2. r.session[x].active # m \/ r.session[x].active = NoMessage
          BY <1>11, <1>12, <4>2 DEF Sound, ActiveRuns, Sessions
        <5> QED
          BY <1>11, <5>1, <5>2 DEF Sound, ActiveRuns, Sessions
      <4> QED
        BY <4>1, <4>2
    <3> QED
      BY <3>2, <3>3 DEF ActiveRuns, Sessions
  <2>4. CancelsHeld(q)
    BY <1>5, <1>10, <1>11 DEF Sound, CancelsHeld
  <2>5. Rooted(q)
    BY <1>6, <1>11 DEF Sound, Rooted, Sessions
  <2> QED
    BY <1>10, <2>1, <2>2, <2>3, <2>4, <2>5 DEF Sound
<1>14. \A x \in Ids : IF x = m THEN LifeIn(r, x) = "running" /\ LifeIn(q, x) = outcome
                      ELSE LifeIn(q, x) = LifeIn(r, x)
  BY <1>5, <1>10, <1>11 DEF LifeIn
<1>15. LivesMove(r, q, m) /\ Fences(r, q)
  BY <1>14 DEF LivesMove, Fences, MayMove, Mail!Endings
<1>16. Stays(r, q)
  BY <1>1, <1>5, <1>10, <1>11, <1>12 DEF Stays, Sessions
<1>17. Obeys(r, q, m)
  BY <1>5, <1>10, <1>11 DEF Obeys
<1>18. Advances(r, q, m)
  BY <1>15, <1>16, <1>17 DEF Advances
<1> QED
  BY <1>4, <1>13, <1>14, <1>15, <1>18 DEF q

LEMMA SettledSound ==
    ASSUME NEW r, Sound(r), NEW m \in DOMAIN r.mail, r.mail[m].status = "running",
           NEW outcome \in {"completed", "failed", "cancelled"}, NEW tokens \in Int,
           r.mail[m].cancel => outcome = "cancelled"
    PROVE  /\ Sound(Settled(r, m, outcome, tokens))
           /\ Advances(r, Settled(r, m, outcome, tokens), m)
           /\ Fences(r, Settled(r, m, outcome, tokens))
           /\ LifeIn(Settled(r, m, outcome, tokens), m) = outcome
<1> DEFINE q == Ended(r, m, outcome, tokens)
           p == StopExhausted(q)
<1>1. Settled(r, m, outcome, tokens) = IF Exhausted(q) THEN p ELSE q
  BY SettledIs
<1>2. /\ Sound(q) /\ Advances(r, q, m) /\ Fences(r, q) /\ LifeIn(q, m) = outcome
      /\ \A x \in Ids : x # m => LifeIn(q, x) = LifeIn(r, x)
  BY EndedSound
<1>3. m \in Ids
  BY SnapshotFields DEF Sound
<1> HIDE DEF q
<1>4. Stopping(q, p)
  BY <1>2, StopExhaustedStops
<1> HIDE DEF p
<1>5. /\ Sound(p)
      /\ \A x \in Ids : \/ LifeIn(p, x) = LifeIn(q, x)
                        \/ LifeIn(q, x) = "pending" /\ LifeIn(p, x) = "cancelled"
  BY <1>2, <1>4, StoppingSound
<1>6. Advances(r, p, m) /\ Fences(r, p)
  <2>1. \A x \in Ids : LifeIn(q, x) = "pending" => LifeIn(r, x) = "pending"
    BY <1>2
  <2> QED
    BY <1>2, <1>4, <2>1, StoppingAdvances
<1>7. LifeIn(p, m) = outcome
  BY <1>2, <1>3, <1>5
<1> QED
  BY <1>1, <1>2, <1>5, <1>6, <1>7

-----------------------------------------------------------------------------
(* The fence of a recovery.                                                *)

LEMMA RotatedSound ==
    ASSUME NEW r, NEW p, Sound(r), Sound(p), Advances(r, p, NoMessage)
    PROVE  /\ Sound(Rotated(p))
           /\ Advances(r, Rotated(p), NoMessage)
           /\ Fences(r, Rotated(p))
           /\ Rotated(p).epoch = p.epoch + 1
<1> DEFINE q == Rotated(p)
           letter(m) == IF p.mail[m].status = "pending"
                        THEN [p.mail[m] EXCEPT !.job = p.epoch + 1]
                        ELSE p.mail[m]
           letters == [m \in DOMAIN p.mail |-> letter(m)]
           epoch == p.epoch + 1
<1>1. p \in Snapshot /\ p.epoch \in Nat /\ r.epoch \in Nat /\ r.epoch <= p.epoch
  BY SnapshotFields DEF Sound, Advances, Stays
<1>2. q = [p EXCEPT !.epoch = epoch, !.mail = letters]
  BY <1>1 DEF Rotated, Snapshot
<1>3. /\ DOMAIN p.mail \in SUBSET Ids
      /\ \A m \in DOMAIN p.mail : p.mail[m] \in Message
  BY <1>1, SnapshotFields
<1>4. \A m \in DOMAIN p.mail :
        /\ letter(m) \in Message /\ letter(m).session = p.mail[m].session
        /\ letter(m).status = p.mail[m].status /\ letter(m).cancel = p.mail[m].cancel
  <2> TAKE m \in DOMAIN p.mail
  <2> DEFINE e == p.mail[m]
             f == [e EXCEPT !.job = epoch]
  <2>1. e \in Message /\ epoch \in Nat
    BY <1>1, <1>3
  <2>2. letter(m) = IF e.status = "pending" THEN f ELSE e
    OBVIOUS
  <2> HIDE DEF e, epoch
  <2>3. /\ f \in Message /\ f.session = e.session
        /\ f.status = e.status /\ f.cancel = e.cancel
    BY <2>1 DEF Message
  <2> HIDE DEF f, letter
  <2>4. /\ letter(m) \in Message /\ letter(m).session = e.session
        /\ letter(m).status = e.status /\ letter(m).cancel = e.cancel
    BY <2>1, <2>2, <2>3
  <2> QED
    BY <2>4 DEF e
<1>5. letters \in Table(Message)
  <2> DEFINE D == DOMAIN p.mail
  <2>1. /\ letters = [m \in D |-> letters[m]] /\ \A m \in D : letters[m] \in Message
        /\ D \in SUBSET Ids
    BY <1>3, <1>4
  <2> HIDE DEF letters, D
  <2> QED
    BY <2>1, EntriesReplaced
<1>6. /\ q \in Snapshot /\ q.epoch = epoch /\ q.status = p.status
      /\ q.admittedSubcalls = p.admittedSubcalls /\ q.mail = letters
      /\ q.session = p.session
  <2>1. epoch \in Nat
    BY <1>1
  <2> HIDE DEF q, letters, epoch
  <2> QED
    BY <1>1, <1>2, <1>5, <2>1 DEF Snapshot
<1> HIDE DEF q, letter
<1>7. /\ DOMAIN q.mail = DOMAIN p.mail
      /\ \A m \in DOMAIN p.mail : /\ q.mail[m].session = p.mail[m].session
                                  /\ q.mail[m].status = p.mail[m].status
                                  /\ q.mail[m].cancel = p.mail[m].cancel
  BY <1>4, <1>6
<1> HIDE DEF letters
<1>8. Sound(q)
  <2>1. Numbered(q) /\ Housed(q)
    BY <1>6, <1>7 DEF Sound, Numbered, Housed, Sessions
  <2>2. ActiveRuns(q)
    BY <1>6, <1>7 DEF Sound, ActiveRuns, Sessions
  <2>3. CancelsHeld(q) /\ Rooted(q)
    BY <1>6, <1>7 DEF Sound, CancelsHeld, Rooted, Sessions
  <2> QED
    BY <1>6, <2>1, <2>2, <2>3 DEF Sound
<1>9. \A m \in Ids : LifeIn(q, m) = LifeIn(p, m)
  BY <1>6, <1>7 DEF LifeIn
<1>10. LivesMove(r, q, NoMessage)
  BY <1>9 DEF Advances, LivesMove
<1>11. Stays(r, q)
  BY <1>1, <1>6, <1>7 DEF Advances, Stays, Sessions
<1>12. Obeys(r, q, NoMessage)
  BY <1>6, <1>7 DEF Advances, Obeys
<1>13. Fences(r, q)
  BY <1>1, <1>6 DEF Fences
<1>14. q.epoch = p.epoch + 1
  BY <1>6
<1> QED
  BY <1>8, <1>10, <1>11, <1>12, <1>13, <1>14 DEF Advances, q

\* The snapshot of a fence: as it stands where nothing ran, and marked as
\* interrupted otherwise.
Swept(r) ==
  LET running == InStatus(r, "running") IN
  [r EXCEPT
    !.mail = [m \in DOMAIN @ |->
      IF m \in running
      THEN [@[m] EXCEPT !.status = "outcome_unknown", !.cancel = FALSE] ELSE @[m]],
    !.reserved = @ - ReservedBy(r, running), !.unknown = @ + ReservedBy(r, running),
    !.session = [s \in DOMAIN @ |->
      IF Mailbox(r, s) \cap running = {} THEN @[s]
      ELSE [@[s] EXCEPT !.active = NoMessage, !.status = "interrupted"]]]

Marked(r) == [Swept(r) EXCEPT !.status = "interrupted"]

LEMMA InterruptedIs ==
    ASSUME NEW r
    PROVE  Interrupted(r) =
             IF InStatus(r, "running") = {} \/ r.status = "cancelled" THEN Swept(r)
             ELSE IF Committed(Marked(r)) + MaxTokensPerMessage > MaxTokens
                  THEN StopExhausted(Marked(r)) ELSE Marked(r)
BY DEF Interrupted, Swept, Marked

LEMMA SweptSound ==
    ASSUME NEW r, Sound(r), NEW q \in {Swept(r), Marked(r)},
           r.status = "cancelled" => q = Swept(r)
    PROVE  /\ Sound(q) /\ q.epoch = r.epoch
           /\ \A m \in Ids : IF LifeIn(r, m) = "running"
                              THEN LifeIn(q, m) = "outcome_unknown"
                              ELSE LifeIn(q, m) = LifeIn(r, m)
           /\ Advances(r, q, NoMessage)
<1> DEFINE running == InStatus(r, "running")
           letter(m) == IF m \in running
                        THEN [r.mail[m] EXCEPT !.status = "outcome_unknown",
                                               !.cancel = FALSE]
                        ELSE r.mail[m]
           home(s) == IF Mailbox(r, s) \cap running = {} THEN r.session[s]
                      ELSE [r.session[s] EXCEPT !.active = NoMessage,
                                                !.status = "interrupted"]
           letters == [m \in DOMAIN r.mail |-> letter(m)]
           homes == [s \in DOMAIN r.session |-> home(s)]
           lost == ReservedBy(r, running)
           fenced == Swept(r)
           marked == Marked(r)
<1>1. /\ r \in Snapshot /\ r.reserved \in Int /\ r.unknown \in Int
      /\ r.epoch \in Nat /\ r.admittedSubcalls \in Nat
  BY SnapshotFields DEF Sound
<1>2. /\ DOMAIN r.mail \in SUBSET Ids /\ DOMAIN r.session \in SUBSET Ids
      /\ \A s \in DOMAIN r.session : r.session[s] \in SessionRecord
      /\ \A m \in DOMAIN r.mail : r.mail[m] \in Message
  BY <1>1, SnapshotFields
<1>3. /\ fenced = [r EXCEPT !.mail = letters, !.reserved = @ - lost,
                            !.unknown = @ + lost, !.session = homes]
      /\ marked = [fenced EXCEPT !.status = "interrupted"]
  BY <1>1 DEF Swept, Marked, Snapshot
<1> HIDE DEF fenced, marked
<1>4. lost \in Int
  <2>1. IsFiniteSet(Ids)
    BY LimitsAssumption, FS_Interval DEF Ids
  <2>2. IsFiniteSet({m \in running : r.mail[m].reserved})
    BY <1>2, <2>1, FS_Subset DEF InStatus
  <2>3. Cardinality({m \in running : r.mail[m].reserved}) \in Nat
    BY <2>2, FS_CardinalityType
  <2> HIDE DEF running
  <2> QED
    BY <2>3, LimitsAssumption DEF ReservedBy
<1>5. \A m \in DOMAIN r.mail :
        /\ letter(m) \in Message /\ letter(m).session = r.mail[m].session
        /\ r.mail[m].status = "running" =>
             letter(m).status = "outcome_unknown" /\ ~letter(m).cancel
        /\ r.mail[m].status # "running" => letter(m) = r.mail[m]
  <2> TAKE m \in DOMAIN r.mail
  <2> DEFINE e == r.mail[m]
             f == [e EXCEPT !.status = "outcome_unknown", !.cancel = FALSE]
  <2>1. e \in Message
    BY <1>2
  <2>2. letter(m) = IF e.status = "running" THEN f ELSE e
    BY DEF InStatus
  <2> HIDE DEF e
  <2>3. /\ f \in Message /\ f.session = e.session
        /\ f.status = "outcome_unknown" /\ ~f.cancel
    BY <2>1 DEF Message, Statuses, Mail!Endings
  <2> HIDE DEF f, letter
  <2>4. /\ letter(m) \in Message /\ letter(m).session = e.session
        /\ e.status = "running" => letter(m).status = "outcome_unknown" /\ ~letter(m).cancel
        /\ e.status # "running" => letter(m) = e
    BY <2>1, <2>2, <2>3
  <2> QED
    BY <2>4 DEF e
<1>6. \A s \in DOMAIN r.session :
        /\ home(s) \in SessionRecord /\ home(s).parent = r.session[s].parent
        /\ home(s).active = NoMessage
  <2> TAKE s \in DOMAIN r.session
  <2> DEFINE e == r.session[s]
             f == [e EXCEPT !.active = NoMessage, !.status = "interrupted"]
  <2>1. e \in SessionRecord
    BY <1>2
  <2>2. home(s) = IF Mailbox(r, s) \cap running = {} THEN e ELSE f
    OBVIOUS
  <2>3. Mailbox(r, s) \cap running = {} => e.active = NoMessage
    BY DEF Sound, ActiveRuns, Mailbox, InStatus, Sessions
  <2> HIDE DEF e
  <2>4. f \in SessionRecord /\ f.parent = e.parent /\ f.active = NoMessage
    BY <2>1 DEF SessionRecord, SessionStatuses, NoMessage
  <2> HIDE DEF f, home, running
  <2>5. /\ home(s) \in SessionRecord /\ home(s).parent = e.parent
        /\ home(s).active = NoMessage
    BY <2>1, <2>2, <2>3, <2>4
  <2> QED
    BY <2>5 DEF e
<1>7. letters \in Table(Message) /\ homes \in Table(SessionRecord)
  <2> DEFINE D == DOMAIN r.mail
             E == DOMAIN r.session
  <2>1. /\ letters = [m \in D |-> letters[m]] /\ \A m \in D : letters[m] \in Message
        /\ D \in SUBSET Ids
    BY <1>2, <1>5
  <2>2. /\ homes = [s \in E |-> homes[s]] /\ \A s \in E : homes[s] \in SessionRecord
        /\ E \in SUBSET Ids
    BY <1>2, <1>6
  <2> HIDE DEF letters, homes, D, E
  <2> QED
    BY <2>1, <2>2, EntriesReplaced
<1>8. ASSUME NEW p \in {fenced, marked}
      PROVE  /\ p \in Snapshot /\ p.epoch = r.epoch
             /\ p.status = r.status \/ p.status = "interrupted"
             /\ p.admittedSubcalls = r.admittedSubcalls
             /\ p.mail = letters /\ p.session = homes
             /\ p = fenced => p.status = r.status
  <2> DEFINE a == r.reserved - lost
             b == r.unknown + lost
  <2>1. a \in Int /\ b \in Int
    BY <1>1, <1>4
  <2>2. fenced = [r EXCEPT !.mail = letters, !.reserved = a, !.unknown = b,
                           !.session = homes]
    BY <1>3
  <2> HIDE DEF letters, homes, lost, a, b
  <2>3. /\ fenced \in Snapshot /\ fenced.epoch = r.epoch /\ fenced.status = r.status
        /\ fenced.admittedSubcalls = r.admittedSubcalls
        /\ fenced.mail = letters /\ fenced.session = homes
    BY <1>1, <1>7, <2>1, <2>2 DEF Snapshot
  <2>4. /\ marked \in Snapshot /\ marked.epoch = r.epoch
        /\ marked.status = "interrupted"
        /\ marked.admittedSubcalls = r.admittedSubcalls
        /\ marked.mail = letters /\ marked.session = homes
    BY <1>3, <2>3 DEF Snapshot
  <2> QED
    BY <2>3, <2>4
<1>9. /\ q \in Snapshot /\ q.epoch = r.epoch
      /\ q.status = r.status \/ q.status = "interrupted"
      /\ q.admittedSubcalls = r.admittedSubcalls
      /\ q.mail = letters /\ q.session = homes
      /\ r.status = "cancelled" => q.status = "cancelled"
  <2>1. q \in {fenced, marked} /\ (r.status = "cancelled" => q = fenced)
    BY DEF fenced, marked
  <2> HIDE DEF letters, homes
  <2> QED
    BY <1>8, <2>1
<1> HIDE DEF letter, home
<1>10. /\ DOMAIN q.mail = DOMAIN r.mail /\ DOMAIN q.session = DOMAIN r.session
       /\ \A m \in DOMAIN r.mail : q.mail[m] = letter(m)
       /\ \A s \in DOMAIN r.session : q.session[s] = home(s)
  BY <1>9
<1> HIDE DEF letters, homes, running
<1>11. Numbered(q) /\ Housed(q)
  BY <1>5, <1>9, <1>10 DEF Sound, Numbered, Housed, Sessions
<1>12. ActiveRuns(q)
  <2>1. \A m \in DOMAIN q.mail : q.mail[m].status # "running"
    BY <1>5, <1>10
  <2>2. \A s \in DOMAIN r.session : q.session[s].active = NoMessage
    BY <1>6, <1>10 DEF NoMessage
  <2> QED
    BY <1>10, <2>1, <2>2 DEF ActiveRuns, Sessions
<1>13. CancelsHeld(q)
  BY <1>5, <1>9, <1>10 DEF Sound, CancelsHeld
<1>14. Rooted(q)
  <2>1. \A s \in DOMAIN r.session : q.session[s].parent = r.session[s].parent
    BY <1>6, <1>10
  <2> QED
    BY <1>10, <2>1 DEF Sound, Rooted, Sessions
<1>15. Sound(q)
  BY <1>9, <1>11, <1>12, <1>13, <1>14 DEF Sound
<1>16. \A m \in Ids : IF LifeIn(r, m) = "running"
                     THEN LifeIn(q, m) = "outcome_unknown"
                     ELSE LifeIn(q, m) = LifeIn(r, m)
  BY <1>5, <1>9, <1>10 DEF LifeIn
<1>17. LivesMove(r, q, NoMessage)
  BY <1>16 DEF LivesMove, MayMove, Mail!Endings
<1>18. Stays(r, q)
  BY <1>1, <1>5, <1>9, <1>10 DEF Stays, Sessions
<1>19. Obeys(r, q, NoMessage)
  BY <1>2, <1>9, IdsAreNumbers DEF Obeys, NoMessage
<1> QED
  BY <1>9, <1>15, <1>16, <1>17, <1>18, <1>19 DEF Advances

LEMMA InterruptedSound ==
    ASSUME NEW r, Sound(r)
    PROVE  /\ Sound(Interrupted(r))
           /\ Advances(r, Interrupted(r), NoMessage)
           /\ Interrupted(r).epoch = r.epoch
<1> DEFINE idle == InStatus(r, "running") = {} \/ r.status = "cancelled"
           exhausted == Committed(Marked(r)) + MaxTokensPerMessage > MaxTokens
<1>1. Interrupted(r) = IF idle THEN Swept(r)
                       ELSE IF exhausted THEN StopExhausted(Marked(r)) ELSE Marked(r)
  BY InterruptedIs
<1>2. /\ Sound(Swept(r)) /\ Swept(r).epoch = r.epoch
      /\ Advances(r, Swept(r), NoMessage)
  BY SweptSound
<1>3. CASE ~idle
  <2> DEFINE p == Marked(r)
             q == StopExhausted(p)
  <2>1. /\ Sound(p) /\ p.epoch = r.epoch
        /\ \A m \in Ids : IF LifeIn(r, m) = "running"
                           THEN LifeIn(p, m) = "outcome_unknown"
                           ELSE LifeIn(p, m) = LifeIn(r, m)
        /\ Advances(r, p, NoMessage)
    BY <1>3, SweptSound
  <2> HIDE DEF p
  <2>2. Stopping(p, q)
    BY <2>1, StopExhaustedStops
  <2> HIDE DEF q
  <2>3. Sound(q) /\ Advances(r, q, NoMessage) /\ q.epoch = r.epoch
    BY <2>1, <2>2, StoppingSound, StoppingAdvances DEF Stopping
  <2> HIDE DEF idle, exhausted
  <2> QED
    BY <1>1, <1>3, <2>1, <2>3 DEF p, q
<1> HIDE DEF idle, exhausted
<1> QED
  BY <1>1, <1>2, <1>3

-----------------------------------------------------------------------------
(* A disposal.                                                             *)

LEMMA DisposedSound ==
    ASSUME NEW r, Sound(r), NEW target \in Sessions(r)
    PROVE  /\ Sound(Disposed(r, target))
           /\ Advances(r, Disposed(r, target), NoMessage)
           /\ Fences(r, Disposed(r, target))
<1> DEFINE S == Under(r, target)
           gone == {m \in DOMAIN r.mail : r.mail[m].session \in S}
           parent == r.session[target].parent
           spent == r.session[target].usage + r.session[target].descendantUsage
           running == ReservedBy(r, gone \cap InStatus(r, "running"))
           unknown == ReservedBy(r, gone \cap InStatus(r, "outcome_unknown"))
           home(s) == IF s = parent
                      THEN [r.session[s] EXCEPT !.retired = @ + spent]
                      ELSE r.session[s]
           homes == [s \in DOMAIN r.session \ S |-> home(s)]
           letters == [m \in DOMAIN r.mail \ gone |-> r.mail[m]]
           q == Disposed(r, target)
<1>1. /\ r \in Snapshot /\ r.reserved \in Int /\ r.unknown \in Int
      /\ r.epoch \in Nat /\ r.admittedSubcalls \in Nat
  BY SnapshotFields DEF Sound
<1>2. /\ DOMAIN r.mail \in SUBSET Ids /\ DOMAIN r.session \in SUBSET Ids
      /\ \A s \in DOMAIN r.session : r.session[s] \in SessionRecord
      /\ \A m \in DOMAIN r.mail : r.mail[m] \in Message
  BY <1>1, SnapshotFields
<1>3. \A M \in SUBSET DOMAIN r.mail : ReservedBy(r, M) \in Int
  <2>1. IsFiniteSet(Ids)
    BY LimitsAssumption, FS_Interval DEF Ids
  <2> TAKE M \in SUBSET DOMAIN r.mail
  <2>2. IsFiniteSet({m \in M : r.mail[m].reserved})
    BY <1>2, <2>1, FS_Subset
  <2>3. Cardinality({m \in M : r.mail[m].reserved}) \in Nat
    BY <2>2, FS_CardinalityType
  <2> QED
    BY <2>3, LimitsAssumption DEF ReservedBy
<1>4. /\ running \in Int /\ unknown \in Int
      /\ Cardinality(S) \in Int /\ Cardinality(gone) \in Int
  <2>1. IsFiniteSet(Ids)
    BY LimitsAssumption, FS_Interval DEF Ids
  <2>2. IsFiniteSet(S) /\ IsFiniteSet(gone)
    <3>1. S \subseteq Ids /\ gone \subseteq Ids
      BY <1>2, UnderIs DEF Sessions
    <3> HIDE DEF S, gone
    <3> QED
      BY <2>1, <3>1, FS_Subset
  <2>3. Cardinality(S) \in Nat /\ Cardinality(gone) \in Nat
    BY <2>2, FS_CardinalityType
  <2>4. gone \subseteq DOMAIN r.mail
    OBVIOUS
  <2> HIDE DEF S, gone
  <2>5. running \in Int /\ unknown \in Int
    BY <1>3, <2>4
  <2> QED
    BY <2>3, <2>5
<1>5. spent \in Int
  <2>1. r.session[target] \in SessionRecord
    BY <1>2 DEF Sessions
  <2> QED
    BY <2>1 DEF SessionRecord
<1>6. \A s \in DOMAIN r.session :
        /\ home(s) \in SessionRecord /\ home(s).parent = r.session[s].parent
        /\ home(s).active = r.session[s].active
  <2> HIDE DEF parent, spent
  <2> TAKE s \in DOMAIN r.session
  <2> DEFINE e == r.session[s]
             f == [e EXCEPT !.retired = e.retired + spent]
  <2>1. e \in SessionRecord
    BY <1>2
  <2>2. home(s) = IF s = parent THEN f ELSE e
    OBVIOUS
  <2> HIDE DEF e, home
  <2>3. e.retired + spent \in Int
    BY <1>5, <2>1 DEF SessionRecord
  <2>4. f \in SessionRecord /\ f.parent = e.parent /\ f.active = e.active
    BY <2>1, <2>3 DEF SessionRecord
  <2> HIDE DEF f
  <2>5. /\ home(s) \in SessionRecord /\ home(s).parent = e.parent
        /\ home(s).active = e.active
    BY <2>1, <2>2, <2>4
  <2> QED
    BY <2>5 DEF e
<1>7. letters \in Table(Message) /\ homes \in Table(SessionRecord)
  <2> DEFINE D == DOMAIN r.mail \ gone
             E == DOMAIN r.session \ S
  <2>1. /\ letters = [m \in D |-> letters[m]] /\ \A m \in D : letters[m] \in Message
        /\ D \in SUBSET Ids
    BY <1>2
  <2>2. /\ homes = [s \in E |-> homes[s]] /\ \A s \in E : homes[s] \in SessionRecord
        /\ E \in SUBSET Ids
    BY <1>2, <1>6
  <2> HIDE DEF letters, homes, D, E
  <2> QED
    BY <2>1, <2>2, EntriesReplaced
<1>8. /\ q \in Snapshot /\ q.epoch = r.epoch /\ q.status = r.status
      /\ q.admittedSubcalls = r.admittedSubcalls
      /\ q.mail = letters /\ q.session = homes
  <2> DEFINE a == IF parent = Root THEN r.retiredUsage + spent ELSE r.retiredUsage
             b == r.admittedChildren - Cardinality(S)
             c == r.retiredSubcalls + Cardinality(gone)
             d == r.reserved - running
             e == r.unknown + running
             f == r.retiredUnknown + running + unknown
  <2>1. /\ a \in Int /\ b \in Int /\ c \in Int /\ d \in Int /\ e \in Int /\ f \in Int
    <3>1. /\ r.retiredUsage \in Int /\ r.admittedChildren \in Int
          /\ r.retiredSubcalls \in Int /\ r.retiredUnknown \in Int
      BY <1>1 DEF Snapshot
    <3> HIDE DEF S, gone, running, unknown, spent, parent
    <3> QED
      BY <1>1, <1>4, <1>5, <3>1
  <2>2. q = [r EXCEPT !.session = homes, !.mail = letters, !.retiredUsage = a,
                      !.admittedChildren = b, !.retiredSubcalls = c,
                      !.reserved = d, !.unknown = e, !.retiredUnknown = f]
    BY <1>1 DEF Disposed, Snapshot
  <2> HIDE DEF q, letters, homes, a, b, c, d, e, f
  <2> QED
    BY <1>1, <1>7, <2>1, <2>2 DEF Snapshot
<1> HIDE DEF q, home, parent, spent, running, unknown
<1>9. /\ DOMAIN q.mail = DOMAIN r.mail \ gone /\ Sessions(q) = Sessions(r) \ S
      /\ \A m \in DOMAIN q.mail : q.mail[m] = r.mail[m]
      /\ \A s \in Sessions(q) : /\ q.session[s].parent = r.session[s].parent
                                /\ q.session[s].active = r.session[s].active
  BY <1>6, <1>8 DEF Sessions
<1>10. \A m \in DOMAIN r.mail : m \in gone <=> r.mail[m].session \in S
  OBVIOUS
<1> HIDE DEF letters, homes, gone, S
<1>11. Sound(q)
  <2>1. Numbered(q)
    BY <1>8, <1>9 DEF Sound, Numbered
  <2>2. Housed(q)
    BY <1>9, <1>10 DEF Sound, Housed
  <2>3. ActiveRuns(q)
    BY <1>9, <1>10 DEF Sound, ActiveRuns, Housed
  <2>4. CancelsHeld(q)
    BY <1>8, <1>9 DEF Sound, CancelsHeld
  <2>5. Rooted(q)
    <3>1. \A s \in Sessions(r) \ S : r.session[s].parent \in (Sessions(r) \ S) \cup {Root}
      BY RestRooted DEF S
    <3> QED
      BY <1>9, <3>1 DEF Sound, Rooted
  <2> QED
    BY <1>8, <2>1, <2>2, <2>3, <2>4, <2>5 DEF Sound
<1>12. \A m \in Ids : \/ LifeIn(q, m) = LifeIn(r, m)
                      \/ LifeIn(r, m) # "absent" /\ LifeIn(q, m) = "removed"
  <2> TAKE m \in Ids
  <2>1. CASE m \in gone /\ m \in DOMAIN r.mail
    <3>1. m <= r.admittedSubcalls /\ r.mail[m].status # "absent"
      BY <1>2, <2>1 DEF Sound, Numbered, Message, Statuses, Mail!Endings
    <3> QED
      BY <1>8, <1>9, <2>1, <3>1 DEF LifeIn
  <2>2. CASE ~(m \in gone /\ m \in DOMAIN r.mail)
    BY <1>8, <1>9, <2>2 DEF LifeIn
  <2> QED
    BY <2>1, <2>2
<1>13. LivesMove(r, q, NoMessage) /\ Fences(r, q)
  BY <1>12 DEF LivesMove, Fences, MayMove
<1>14. Stays(r, q)
  BY <1>1, <1>8, <1>9, <1>10 DEF Stays
<1>15. Obeys(r, q, NoMessage)
  BY <1>2, <1>8, IdsAreNumbers DEF Obeys, NoMessage
<1> QED
  BY <1>11, <1>13, <1>14, <1>15 DEF Advances, q

-----------------------------------------------------------------------------
(* The hosts.  An attempt that claimed a message and has not left it is a  *)
(* holder: it alone may run the agent on that message.                     *)

Jobs == [msg : Ids, epoch : Nat]

Attempt ==
  [at : {"dispatched", "skipped", "claimed", "forwarding", "settled"},
   aborted : BOOLEAN, revoked : BOOLEAN, session : Nat, stop : SUBSET Jobs]

AttemptsTyped ==
  /\ DOMAIN attempts = Hosts
  /\ \A h \in Hosts : \A j \in DOMAIN attempts[h] : attempts[h][j] \in Attempt

Holder(h, j) ==
  j \in DOMAIN attempts[h] /\ attempts[h][j].at \in {"claimed", "forwarding"}

\* What a holder knows of its message, whatever became of it meanwhile: it
\* runs, was fenced by a later epoch, or left with its session.
HolderFits(h, j) ==
  LET m == j.msg
      s == attempts[h][j].session
  IN  /\ m \in Ids /\ s \in Nat /\ s <= registry.admittedSubcalls
      /\ j.epoch \in Nat /\ j.epoch <= registry.epoch
      /\ LifeIn(registry, m) \in {"running", "outcome_unknown", "removed"}
      /\ LifeIn(registry, m) = "outcome_unknown" => j.epoch < registry.epoch
      /\ IF m \in DOMAIN registry.mail THEN registry.mail[m].session = s
         ELSE s \notin Sessions(registry)
      /\ forwards[m] = IF attempts[h][j].at = "claimed" THEN 0 ELSE 1

HoldersFit == \A h \in Hosts : \A j \in DOMAIN attempts[h] :
  Holder(h, j) => HolderFits(h, j)

HoldersAlone ==
  \A g, h \in Hosts : \A i \in DOMAIN attempts[g], j \in DOMAIN attempts[h] :
    Holder(g, i) /\ Holder(h, j) /\ i.msg = j.msg => g = h /\ i = j

\* The agent was not run on what was not claimed, and never twice.
RunsCounted ==
  /\ forwards \in [Ids -> {0, 1}]
  /\ \A m \in Ids : LifeIn(registry, m) \in {"absent", "pending"} => forwards[m] = 0

MailInvariant ==
  /\ Sound(registry) /\ AttemptsTyped
  /\ HoldersFit /\ HoldersAlone /\ RunsCounted

\* Epochs: a host owns one that the registry reached; while its recovery is
\* under way, an earlier one than the fence it saved.
EpochsKnown ==
  /\ owned \in [Hosts -> Nat]
  /\ recovery \in [Hosts -> [at : {"idle", "asked", "fenced", "lost", "draining"},
                             epoch : Nat]]
  /\ \A h \in Hosts :
       /\ owned[h] <= registry.epoch
       /\ recovery[h].at = "fenced" =>
            owned[h] < recovery[h].epoch /\ recovery[h].epoch <= registry.epoch

\* A host drains as a whole: attempts of the epoch it owns, or attempts of
\* earlier ones that are all revoked; and no two run one session.
Drained(h) ==
  /\ \A j \in DOMAIN attempts[h] :
       /\ j.epoch \in Nat
       /\ IF attempts[h][j].revoked THEN j.epoch < registry.epoch
          ELSE j.epoch = owned[h]
  /\ \A i, j \in DOMAIN attempts[h] :
       /\ attempts[h][i].revoked => attempts[h][j].revoked
       /\ i # j /\ Holder(h, i) /\ Holder(h, j) =>
            attempts[h][i].session # attempts[h][j].session

DrainInvariant ==
  EpochsKnown /\ (unfenced \/ \A h \in Hosts : Drained(h))

HostInvariant == MailInvariant /\ DrainInvariant

-----------------------------------------------------------------------------
(* What a step does, in general.  The registry moves as a mutation moves   *)
(* it, and attempts are at most aborted, settled or left.                  *)

Moved(done) ==
  /\ Sound(registry') /\ Advances(registry, registry', done)
  /\ Fences(registry, registry')
  /\ LifeIn(registry', done) = "completed" => done = NoMessage \/ forwards[done] = 1

\* f is what a step may leave of the attempts of h, unless it claims: who
\* holds a message held it before.
HeldAt(h, f) ==
  \A j \in DOMAIN f :
    /\ f[j] \in Attempt
    /\ f[j].at \in {"claimed", "forwarding"} =>
         /\ j \in DOMAIN attempts[h]
         /\ f[j].at = attempts[h][j].at /\ f[j].session = attempts[h][j].session

Held == DOMAIN attempts' = Hosts /\ \A h \in Hosts : HeldAt(h, attempts'[h])

\* What most steps leave: no new attempt, and none is revoked.
QuietAt(h, f) ==
  /\ HeldAt(h, f)
  /\ \A j \in DOMAIN f :
       j \in DOMAIN attempts[h] /\ f[j].revoked = attempts[h][j].revoked

Quiet == DOMAIN attempts' = Hosts /\ \A h \in Hosts : QuietAt(h, attempts'[h])

NoneHolds(done) ==
  \A h \in Hosts : \A j \in DOMAIN attempts[h] : Holder(h, j) => j.msg # done

LEMMA SameSnapshot ==
    ASSUME HostInvariant, registry' = registry
    PROVE  Moved(NoMessage)
<1>1. Sound(registry)
  BY DEF HostInvariant, MailInvariant
<1>2. Advances(registry, registry, NoMessage) /\ Fences(registry, registry)
  BY <1>1, Unchanged
<1> QED
  BY <1>1, <1>2 DEF Moved

LEMMA QuietHere ==
    ASSUME AttemptsTyped, NEW h \in Hosts, NEW f, QuietAt(h, f),
           attempts' = [attempts EXCEPT ![h] = f]
    PROVE  Quiet
<1>1. \A g \in Hosts : attempts'[g] = IF g = h THEN f ELSE attempts[g]
  BY DEF AttemptsTyped
<1>2. ASSUME NEW g \in Hosts, g # h
      PROVE  QuietAt(g, attempts'[g])
  BY <1>1, <1>2 DEF QuietAt, HeldAt, AttemptsTyped
<1>3. QuietAt(h, attempts'[h])
  BY <1>1
<1> QED
  BY <1>2, <1>3 DEF Quiet, AttemptsTyped

LEMMA QuietSame ==
    ASSUME AttemptsTyped, attempts' = attempts
    PROVE  Quiet
BY DEF Quiet, QuietAt, HeldAt, AttemptsTyped

LEMMA AbortedQuiet ==
    ASSUME AttemptsTyped, NEW h \in Hosts, NEW jobs
    PROVE  QuietAt(h, Aborted(attempts[h], jobs))
<1> DEFINE a == attempts[h]
           f == Aborted(a, jobs)
<1>1. ASSUME NEW j \in DOMAIN a
      PROVE  /\ f[j] \in Attempt /\ f[j].revoked = a[j].revoked
             /\ f[j].at = a[j].at /\ f[j].session = a[j].session
  <2> DEFINE e == a[j]
             b == [e EXCEPT !.aborted = TRUE]
  <2>1. e \in Attempt
    BY DEF AttemptsTyped
  <2>2. f[j] = IF j \in jobs THEN b ELSE e
    BY DEF Aborted
  <2> HIDE DEF e, f
  <2>3. b \in Attempt /\ b.revoked = e.revoked /\ b.at = e.at /\ b.session = e.session
    BY <2>1 DEF Attempt
  <2> HIDE DEF b
  <2>4. f[j] \in Attempt /\ f[j].revoked = e.revoked /\ f[j].at = e.at
          /\ f[j].session = e.session
    BY <2>1, <2>2, <2>3
  <2> QED
    BY <2>4 DEF e
<1>2. DOMAIN f = DOMAIN a
  BY DEF Aborted
<1> HIDE DEF f
<1>3. QuietAt(h, f)
  BY <1>1, <1>2 DEF QuietAt, HeldAt
<1> QED
  BY <1>3 DEF f

LEMMA WithoutQuiet ==
    ASSUME NEW h \in Hosts, NEW f, QuietAt(h, f), NEW j
    PROVE  QuietAt(h, Without(f, j))
BY DEF QuietAt, HeldAt, Without

LEMMA SameQuiet ==
    ASSUME AttemptsTyped, NEW h \in Hosts
    PROVE  QuietAt(h, attempts[h])
BY DEF QuietAt, HeldAt, AttemptsTyped

LEMMA PerformQuiet ==
    ASSUME HostInvariant, NEW h \in Hosts, NEW call, Perform(h, call)
    PROVE  Quiet
<1>1. AttemptsTyped
  BY DEF HostInvariant, MailInvariant
<1>2. attempts' = [attempts EXCEPT ![h] = Aborted(attempts[h], call.stop)]
  BY DEF Perform
<1> QED
  BY <1>1, <1>2, AbortedQuiet, QuietHere

LEMMA FollowQuiet ==
    ASSUME HostInvariant, NEW h \in Hosts, NEW call, NEW cost, Follow(h, call, cost)
    PROVE  Quiet
<1>1. AttemptsTyped
  BY DEF HostInvariant, MailInvariant
<1> QED
  BY <1>1, PerformQuiet, QuietSame DEF Follow

\* A holder that is left alone goes on fitting, whatever the registry does.
LEMMA HolderKept ==
    ASSUME Sound(registry), NEW done, Moved(done), forwards' = forwards,
           NEW h, NEW j, HolderFits(h, j), j.msg # done,
           attempts'[h][j].at = attempts[h][j].at,
           attempts'[h][j].session = attempts[h][j].session
    PROVE  HolderFits(h, j)'
<1> DEFINE m == j.msg
           s == attempts[h][j].session
<1>1. Sound(registry')
  BY DEF Moved
<1>2. /\ registry.epoch \in Nat /\ registry'.epoch \in Nat
      /\ registry.epoch <= registry'.epoch
      /\ registry.admittedSubcalls \in Nat /\ registry'.admittedSubcalls \in Nat
      /\ registry.admittedSubcalls <= registry'.admittedSubcalls
  BY <1>1, SnapshotFields DEF Sound, Moved, Advances, Stays
<1>3. /\ m \in Ids /\ s \in Nat /\ s <= registry.admittedSubcalls
      /\ j.epoch \in Nat /\ j.epoch <= registry.epoch
      /\ LifeIn(registry, m) \in {"running", "outcome_unknown", "removed"}
      /\ LifeIn(registry, m) = "outcome_unknown" => j.epoch < registry.epoch
      /\ m \in DOMAIN registry.mail => registry.mail[m].session = s
      /\ m \notin DOMAIN registry.mail => s \notin Sessions(registry)
      /\ forwards[m] = IF attempts[h][j].at = "claimed" THEN 0 ELSE 1
  BY DEF HolderFits
<1>4. /\ LifeIn(registry', m) # LifeIn(registry, m) =>
           MayMove(LifeIn(registry, m), LifeIn(registry', m))
      /\ LifeIn(registry, m) = "running" =>
           LifeIn(registry', m) \in {"running", "outcome_unknown", "removed"}
  BY <1>3 DEF Moved, Advances, LivesMove
<1>5. LifeIn(registry', m) \in {"running", "outcome_unknown", "removed"}
  BY <1>3, <1>4 DEF MayMove
<1>6. LifeIn(registry', m) = "outcome_unknown" => j.epoch < registry'.epoch
  <2>1. LifeIn(registry', m) = "outcome_unknown" =>
          LifeIn(registry, m) \in {"running", "outcome_unknown"}
    BY <1>3, <1>4 DEF MayMove
  <2>2. LifeIn(registry, m) = "running" /\ LifeIn(registry', m) = "outcome_unknown"
          => registry.epoch < registry'.epoch
    BY <1>3 DEF Moved, Fences
  <2> QED
    BY <1>2, <1>3, <2>1, <2>2
<1>7. m \in DOMAIN registry'.mail => registry'.mail[m].session = s
  <2>1. m \in DOMAIN registry'.mail => m \in DOMAIN registry.mail
    BY <1>1, <1>3, <1>4, LifeType DEF MayMove
  <2> QED
    BY <1>3, <2>1 DEF Moved, Advances, Stays
<1>8. m \notin DOMAIN registry'.mail => s \notin Sessions(registry')
  <2>1. \A x \in Sessions(registry') :
          x \in Sessions(registry) \/ registry.admittedSubcalls < x
    BY DEF Moved, Advances, Stays
  <2>2. m \in DOMAIN registry.mail /\ m \notin DOMAIN registry'.mail =>
          s \notin Sessions(registry')
    BY <1>3 DEF Moved, Advances, Stays
  <2>3. s \notin Sessions(registry) => s \notin Sessions(registry')
    BY <1>2, <1>3, <2>1
  <2> QED
    BY <1>3, <2>2, <2>3
<1>9. s <= registry'.admittedSubcalls /\ j.epoch <= registry'.epoch
  BY <1>2, <1>3
<1> QED
  BY <1>3, <1>5, <1>6, <1>7, <1>8, <1>9 DEF HolderFits

LEMMA RunsKept ==
    ASSUME NEW done, Moved(done), RunsCounted, forwards' = forwards
    PROVE  RunsCounted'
<1>1. \A m \in Ids : LifeIn(registry', m) \in {"absent", "pending"} =>
        LifeIn(registry, m) \in {"absent", "pending"}
  BY DEF Moved, Advances, LivesMove, MayMove, Mail!Endings
<1> QED
  BY <1>1 DEF RunsCounted

\* The holders of messages stay the ones they were.
LEMMA MailKept ==
    ASSUME MailInvariant, NEW done, Moved(done), Held, forwards' = forwards,
           done = NoMessage \/ NoneHolds(done)'
    PROVE  MailInvariant'
<1>1. AttemptsTyped'
  BY DEF Held, HeldAt, AttemptsTyped
<1>2. ASSUME NEW h \in Hosts, NEW j \in DOMAIN attempts'[h], Holder(h, j)'
      PROVE  /\ j \in DOMAIN attempts[h] /\ Holder(h, j)
             /\ attempts'[h][j].at = attempts[h][j].at
             /\ attempts'[h][j].session = attempts[h][j].session
  BY <1>2 DEF Held, HeldAt, Holder
<1>3. HoldersAlone'
  BY <1>2 DEF MailInvariant, HoldersAlone
<1>4. ASSUME NEW h \in Hosts, NEW j \in DOMAIN attempts'[h], Holder(h, j)'
      PROVE  HolderFits(h, j)'
  <2>1. /\ j \in DOMAIN attempts[h] /\ Holder(h, j) /\ HolderFits(h, j)
        /\ attempts'[h][j].at = attempts[h][j].at
        /\ attempts'[h][j].session = attempts[h][j].session
    BY <1>2, <1>4 DEF MailInvariant, HoldersFit
  <2>2. j.msg # done
    <3>1. j.msg \in Ids
      BY <2>1 DEF HolderFits
    <3>2. CASE done = NoMessage
      BY <3>1, <3>2, IdsAreNumbers DEF NoMessage
    <3>3. CASE NoneHolds(done)'
      BY <1>4, <3>3 DEF NoneHolds
    <3> QED
      BY <3>2, <3>3
  <2> QED
    BY <2>1, <2>2, HolderKept DEF MailInvariant
<1>5. HoldersFit'
  BY <1>4 DEF HoldersFit
<1>6. RunsCounted'
  BY RunsKept DEF MailInvariant
<1> QED
  BY <1>1, <1>3, <1>5, <1>6 DEF MailInvariant, Moved

\* What a host drains, when a step leaves the attempts of the others.
LEMMA DrainHere ==
    ASSUME DrainInvariant, EpochsKnown', NEW h \in Hosts,
           \A g \in Hosts \ {h} : attempts'[g] = attempts[g] /\ owned'[g] = owned[g],
           unfenced' = unfenced, unfenced \/ Drained(h)',
           registry.epoch \in Nat, registry'.epoch \in Nat,
           registry.epoch <= registry'.epoch
    PROVE  DrainInvariant'
<1>1. ASSUME NEW g \in Hosts \ {h}, Drained(g)
      PROVE  Drained(g)'
  BY <1>1 DEF Drained, Holder
<1> QED
  BY <1>1 DEF DrainInvariant

LEMMA DrainKept ==
    ASSUME DrainInvariant, EpochsKnown', Quiet, owned' = owned, unfenced' = unfenced,
           registry.epoch \in Nat, registry'.epoch \in Nat,
           registry.epoch <= registry'.epoch
    PROVE  DrainInvariant'
<1>1. ASSUME NEW h \in Hosts, Drained(h)
      PROVE  Drained(h)'
  <2>1. \A j \in DOMAIN attempts'[h] :
          /\ j \in DOMAIN attempts[h]
          /\ attempts'[h][j].revoked = attempts[h][j].revoked
          /\ Holder(h, j)' =>
               Holder(h, j) /\ attempts'[h][j].session = attempts[h][j].session
    BY DEF Quiet, QuietAt, HeldAt, Holder
  <2>2. ASSUME NEW j \in DOMAIN attempts'[h]
        PROVE  /\ j.epoch \in Nat
               /\ IF attempts'[h][j].revoked THEN j.epoch < registry'.epoch
                  ELSE j.epoch = owned'[h]
    BY <1>1, <2>1 DEF Drained
  <2>3. ASSUME NEW i \in DOMAIN attempts'[h], NEW j \in DOMAIN attempts'[h]
        PROVE  /\ attempts'[h][i].revoked => attempts'[h][j].revoked
               /\ i # j /\ Holder(h, i)' /\ Holder(h, j)' =>
                    attempts'[h][i].session # attempts'[h][j].session
    BY <1>1, <2>1 DEF Drained
  <2> QED
    BY <2>2, <2>3 DEF Drained
<1> QED
  BY <1>1 DEF DrainInvariant

-----------------------------------------------------------------------------
(* What a step promises: the invariant, and what the two action properties *)
(* ask of it.                                                              *)

CancelsObeyed ==
  /\ \A m \in DOMAIN registry.mail \cap DOMAIN registry'.mail :
       registry.mail[m].cancel
         => registry'.mail[m].status \notin {"completed", "failed"}
  /\ registry.status = "cancelled"
       => /\ registry'.status = "cancelled"
          /\ InStatus(registry', "pending") = {}
          /\ InStatus(registry', "running")
               \subseteq InStatus(registry, "running")

StepGood ==
  HostInvariant' /\ [Mail!MailNext]_(Mail!mailVars) /\ CancelsObeyed

LEMMA MovedMails ==
    ASSUME Sound(registry), NEW done, Moved(done), forwards' = forwards
    PROVE  [Mail!MailNext]_(Mail!mailVars)
<1>1. \A m \in Ids : Life[m] = LifeIn(registry, m) /\ Life'[m] = LifeIn(registry', m)
  BY DEF Life, LifeIn
<1>2. Sound(registry')
  BY DEF Moved
<1>3. \A m \in Ids : Life[m] \in Mail!Lives /\ Life'[m] \in Mail!Lives
  BY <1>1, <1>2, LifeType
<1>4. Life' \in [Ids -> Mail!Lives]
  <2>1. Life' = [m \in Ids |-> Life'[m]]
    BY DEF Life
  <2> QED
    BY <1>3, <2>1
<1>5. ASSUME NEW m \in Ids, Life'[m] # Life[m]
      PROVE  /\ <<Life[m], Life'[m]>> \in Mail!Moves
             /\ Life'[m] = "completed" => forwards[m] = 1
  <2>1. MayMove(Life[m], Life'[m])
    BY <1>1, <1>5 DEF Moved, Advances, LivesMove
  <2>2. <<Life[m], Life'[m]>> \in Mail!Moves
    BY <1>3, <2>1, MoveAllowed
  <2>3. Life'[m] = "completed" => forwards[m] = 1
    <3>1. CASE m = done
      BY <1>1, <3>1, IdsAreNumbers DEF Moved, NoMessage
    <3>2. CASE m # done
      BY <1>1, <1>5, <3>2 DEF Moved, Advances, LivesMove
    <3> QED
      BY <3>1, <3>2
  <2> QED
    BY <2>2, <2>3
<1>6. Mail!Move
  BY <1>4, <1>5 DEF Mail!Move
<1> QED
  BY <1>6 DEF Mail!MailNext

LEMMA MovedObeys ==
    ASSUME Sound(registry), NEW done, Moved(done)
    PROVE  CancelsObeyed
<1>1. Sound(registry')
  BY DEF Moved
<1>2. /\ \A m \in DOMAIN registry.mail : /\ m \in Ids
                                         /\ LifeIn(registry, m) = registry.mail[m].status
      /\ \A m \in DOMAIN registry'.mail : /\ m \in Ids
                                          /\ LifeIn(registry', m) = registry'.mail[m].status
  BY <1>1, SnapshotFields, LifeType DEF Sound
<1>3. ASSUME NEW m \in DOMAIN registry.mail \cap DOMAIN registry'.mail,
             registry.mail[m].cancel
      PROVE  registry'.mail[m].status \notin {"completed", "failed"}
  <2>1. CASE m = done
    BY <1>3, <2>1 DEF Moved, Advances, Obeys
  <2>2. CASE m # done
    <3>1. LifeIn(registry', m) \in {"completed", "failed"} =>
            LifeIn(registry', m) = LifeIn(registry, m)
      BY <1>2, <2>2 DEF Moved, Advances, LivesMove
    <3> QED
      BY <1>2, <1>3, <3>1 DEF Sound, CancelsHeld
  <2> QED
    BY <2>1, <2>2
<1>4. ASSUME registry.status = "cancelled"
      PROVE  /\ registry'.status = "cancelled"
             /\ InStatus(registry', "pending") = {}
             /\ InStatus(registry', "running") \subseteq InStatus(registry, "running")
  <2>1. registry'.status = "cancelled"
    BY <1>4 DEF Moved, Advances, Obeys
  <2>2. /\ \A m \in DOMAIN registry.mail : registry.mail[m].status # "pending"
        /\ \A m \in DOMAIN registry'.mail : registry'.mail[m].status # "pending"
    BY <1>1, <1>4, <2>1 DEF Sound, CancelsHeld
  <2>3. ASSUME NEW m \in DOMAIN registry'.mail, registry'.mail[m].status = "running"
        PROVE  m \in DOMAIN registry.mail /\ registry.mail[m].status = "running"
    <3>1. m \in Ids /\ LifeIn(registry', m) = "running"
      BY <1>2, <2>3
    <3>2. LifeIn(registry, m) # "pending"
      BY <1>2, <2>2, <3>1, LifeType
    <3>3. LifeIn(registry, m) = "running"
      BY <3>1, <3>2 DEF Moved, Advances, LivesMove, MayMove, Mail!Endings
    <3> QED
      BY <3>1, <3>3, LifeType
  <2> QED
    BY <2>1, <2>2, <2>3 DEF InStatus
<1> QED
  BY <1>3, <1>4 DEF CancelsObeyed

LEMMA RegistryNumbers ==
    ASSUME HostInvariant, NEW done, Moved(done)
    PROVE  /\ registry.epoch \in Nat /\ registry'.epoch \in Nat
           /\ registry.epoch <= registry'.epoch
<1>1. Sound(registry) /\ Sound(registry')
  BY DEF HostInvariant, MailInvariant, Moved
<1> QED
  BY <1>1, SnapshotFields DEF Sound, Moved, Advances, Stays

LEMMA EpochsKept ==
    ASSUME HostInvariant, NEW done, Moved(done), owned' = owned, recovery' = recovery
    PROVE  EpochsKnown'
<1>1. /\ registry.epoch \in Nat /\ registry'.epoch \in Nat
      /\ registry.epoch <= registry'.epoch
  BY RegistryNumbers
<1>2. EpochsKnown
  BY DEF HostInvariant, DrainInvariant
<1>3. \A h \in Hosts : owned[h] \in Nat /\ recovery[h].epoch \in Nat
  BY <1>2 DEF EpochsKnown
<1> QED
  BY <1>1, <1>2, <1>3 DEF EpochsKnown

\* A recovery that is set: it is not fenced, or the registry has its epoch.
LEMMA RecoverySet ==
    ASSUME HostInvariant, NEW done, Moved(done), owned' = owned, NEW h \in Hosts,
           NEW at \in {"idle", "asked", "fenced", "lost", "draining"},
           NEW epoch \in Nat,
           recovery' = [recovery EXCEPT ![h] = [at |-> at, epoch |-> epoch]],
           at = "fenced" => registry.epoch < epoch /\ epoch <= registry'.epoch
    PROVE  EpochsKnown'
<1>1. /\ registry.epoch \in Nat /\ registry'.epoch \in Nat
      /\ registry.epoch <= registry'.epoch
  BY RegistryNumbers
<1>2. EpochsKnown
  BY DEF HostInvariant, DrainInvariant
<1>3. \A g \in Hosts : owned[g] \in Nat /\ recovery[g].epoch \in Nat
  BY <1>2 DEF EpochsKnown
<1> DEFINE new == [at |-> at, epoch |-> epoch]
<1>4. new \in [at : {"idle", "asked", "fenced", "lost", "draining"}, epoch : Nat]
      /\ new.at = at /\ new.epoch = epoch
  OBVIOUS
<1>5. recovery' = [recovery EXCEPT ![h] = new]
  OBVIOUS
<1> HIDE DEF new
<1>6. /\ recovery' \in [Hosts -> [at : {"idle", "asked", "fenced", "lost", "draining"},
                                  epoch : Nat]]
      /\ recovery'[h] = new
      /\ \A g \in Hosts : g # h => recovery'[g] = recovery[g]
  BY <1>2, <1>4, <1>5 DEF EpochsKnown
<1>7. ASSUME NEW g \in Hosts
      PROVE  /\ owned[g] <= registry'.epoch
             /\ recovery'[g].at = "fenced" =>
                  owned[g] < recovery'[g].epoch /\ recovery'[g].epoch <= registry'.epoch
  <2>1. /\ owned[g] <= registry.epoch
        /\ recovery[g].at = "fenced" =>
             owned[g] < recovery[g].epoch /\ recovery[g].epoch <= registry.epoch
    BY <1>2 DEF EpochsKnown
  <2>2. CASE g = h
    BY <1>1, <1>3, <1>4, <1>6, <2>1, <2>2
  <2>3. CASE g # h
    BY <1>1, <1>3, <1>6, <2>1, <2>3
  <2> QED
    BY <2>2, <2>3
<1> QED
  BY <1>2, <1>6, <1>7 DEF EpochsKnown

LEMMA QuietStep ==
    ASSUME HostInvariant, NEW done, Moved(done), Quiet, EpochsKnown',
           done = NoMessage \/ NoneHolds(done)',
           UNCHANGED <<owned, forwards, unfenced>>
    PROVE  StepGood
<1>1. Sound(registry)
  BY DEF HostInvariant, MailInvariant
<1>2. Held
  BY DEF Quiet, QuietAt, Held
<1>3. MailInvariant'
  BY <1>2, MailKept DEF HostInvariant
<1>4. DrainInvariant'
  BY RegistryNumbers, DrainKept DEF HostInvariant
<1>5. [Mail!MailNext]_(Mail!mailVars) /\ CancelsObeyed
  BY <1>1, MovedMails, MovedObeys
<1> QED
  BY <1>3, <1>4, <1>5 DEF StepGood, HostInvariant

\* The same for a mutation that ends no run.
LEMMA Mutation ==
    ASSUME HostInvariant, NEW q, registry' = Reconciled(q), Sound(q),
           Advances(registry, q, NoMessage), Fences(registry, q)
    PROVE  Moved(NoMessage)
<1>1. /\ Sound(registry') /\ Advances(registry, registry', NoMessage)
      /\ Fences(registry, registry')
  BY ReconciledSound
<1> QED
  BY <1>1 DEF Moved

LEMMA MutationStep ==
    ASSUME HostInvariant, Moved(NoMessage), Quiet,
           UNCHANGED <<owned, recovery, forwards, unfenced>>
    PROVE  StepGood
<1>1. EpochsKnown'
  BY EpochsKept
<1> QED
  BY <1>1, QuietStep

-----------------------------------------------------------------------------
(* The steps of clients, and of calls that reach the scheduler late        *)

LEMMA SpawnStep == ASSUME HostInvariant, NEW h \in Hosts, Spawn(h) PROVE StepGood
<1>1. Sound(registry)
  BY DEF HostInvariant, MailInvariant
<1>2. PICK p \in Sessions(registry) \cup {Root} :
        MayAdmitChild(registry, p) /\ registry' = Reconciled(Spawned(registry, p))
  BY DEF Spawn
<1>3. Moved(NoMessage)
  BY <1>1, <1>2, SpawnedSound, Mutation
<1>4. Quiet
  BY FollowQuiet DEF Spawn
<1> QED
  BY <1>3, <1>4, MutationStep DEF Spawn, history

LEMMA SendStep == ASSUME HostInvariant, NEW h \in Hosts, Send(h) PROVE StepGood
<1>1. Sound(registry) /\ AttemptsTyped
  BY DEF HostInvariant, MailInvariant
<1>2. PICK s \in Sessions(registry), mode \in Modes :
        LET active == registry.session[s].active IN
        /\ MaySend(registry, s)
        /\ registry' = Reconciled(Sent(registry, s, mode))
        /\ IF active = NoMessage
           THEN Follow(h, Call({}, {}, registry.epoch), 0)
           ELSE IF mode = "steer" THEN Follow(h, Call(JobsOf({active}), {}, 0), 0)
           ELSE UNCHANGED <<queue, attempts, calls, disturbances>>
  BY DEF Send
<1>3. mode \in {"steer", "follow-up"}
  BY HostsAssumption
<1>4. Moved(NoMessage)
  BY <1>1, <1>2, <1>3, SentSound, Mutation
<1>5. Quiet
  BY <1>1, <1>2, FollowQuiet, QuietSame
<1> QED
  BY <1>4, <1>5, MutationStep DEF Send, history

LEMMA CancelStep == ASSUME HostInvariant, NEW h \in Hosts, Cancel(h) PROVE StepGood
<1>1. Sound(registry)
  BY DEF HostInvariant, MailInvariant
<1>2. PICK target \in Sessions(registry) \cup {Root} :
        /\ registry' = Reconciled(CancelledUnder(registry, target))
        /\ \E call : Follow(h, call, 1)
  BY DEF Cancel
<1>3. Moved(NoMessage)
  BY <1>1, <1>2, CancelledSound, Mutation
<1>4. Quiet
  BY <1>2, FollowQuiet
<1> QED
  BY <1>3, <1>4, MutationStep DEF Cancel

LEMMA DisposeStep == ASSUME HostInvariant, NEW h \in Hosts, Dispose(h) PROVE StepGood
<1>1. Sound(registry)
  BY DEF HostInvariant, MailInvariant
<1>2. PICK target \in Sessions(registry) :
        /\ registry' = Reconciled(Disposed(registry, target))
        /\ \E call : Follow(h, call, 1)
  BY DEF Dispose
<1>3. Moved(NoMessage)
  BY <1>1, <1>2, DisposedSound, Mutation
<1>4. Quiet
  BY <1>2, FollowQuiet
<1> QED
  BY <1>3, <1>4, MutationStep DEF Dispose

LEMMA ScheduleStep == ASSUME HostInvariant, NEW h \in Hosts, Schedule(h) PROVE StepGood
<1>1. Moved(NoMessage)
  BY SameSnapshot DEF Schedule
<1>2. Quiet
  BY PerformQuiet DEF Schedule
<1> QED
  BY <1>1, <1>2, MutationStep DEF Schedule, history

-----------------------------------------------------------------------------
(* The steps of a dispatch                                                 *)

LEMMA DropStep == ASSUME HostInvariant, NEW h \in Hosts, Drop(h) PROVE StepGood
<1>1. Moved(NoMessage)
  BY SameSnapshot DEF Drop
<1>2. Quiet
  BY QuietSame DEF Drop, HostInvariant, MailInvariant
<1> QED
  BY <1>1, <1>2, MutationStep DEF Drop

\* A holder's session is not the session of a message that may be claimed,
\* unless the holder is revoked, or belongs to another epoch.
LEMMA HolderElsewhere ==
    ASSUME MailInvariant, NEW h \in Hosts, NEW j \in DOMAIN attempts[h], Holder(h, j),
           NEW m, MayClaim(registry, m, j.epoch)
    PROVE  /\ j.msg # m
           /\ attempts[h][j].session # registry.mail[m].session
<1> DEFINE s == registry.mail[m].session
<1>1. HolderFits(h, j) /\ Sound(registry)
  BY DEF MailInvariant, HoldersFit
<1>2. /\ m \in DOMAIN registry.mail /\ registry.mail[m].status = "pending"
      /\ registry.session[s].active = NoMessage /\ registry.epoch = j.epoch
  BY DEF MayClaim
<1>3. m \in Ids /\ LifeIn(registry, m) = "pending" /\ s \in Sessions(registry)
  BY <1>1, <1>2, SnapshotFields, LifeType DEF Sound, Housed
<1>4. j.msg # m
  BY <1>1, <1>3 DEF HolderFits
<1>5. LifeIn(registry, j.msg) # "outcome_unknown"
  <2>1. registry.epoch \in Nat
    BY <1>1, SnapshotFields DEF Sound
  <2> QED
    BY <1>1, <1>2, <2>1 DEF HolderFits
<1>6. CASE LifeIn(registry, j.msg) = "running"
  <2>1. /\ j.msg \in Ids /\ j.msg \in DOMAIN registry.mail
        /\ registry.mail[j.msg].status = "running"
        /\ registry.mail[j.msg].session = attempts[h][j].session
    BY <1>1, <1>6, LifeType DEF HolderFits
  <2>2. registry.session[attempts[h][j].session].active = j.msg
    BY <1>1, <2>1 DEF Sound, ActiveRuns
  <2> QED
    BY <1>2, <1>4, <2>1, <2>2, IdsAreNumbers DEF NoMessage
<1>7. CASE LifeIn(registry, j.msg) = "removed"
  BY <1>1, <1>3, <1>4, <1>7, LifeType DEF HolderFits
<1> QED
  BY <1>1, <1>4, <1>5, <1>6, <1>7 DEF HolderFits

\* A job that may be claimed has the epoch of its host, which drains
\* nothing, unless a fence was lost: an attempt of that epoch is not revoked.
LEMMA ClaimGood ==
    ASSUME HostInvariant, NEW h \in Hosts, NEW j, MayClaim(registry, j.msg, j.epoch),
           registry' = Reconciled(Claimed(registry, j.msg)),
           NEW e \in Attempt, e.at = "claimed",
           e.session = registry.mail[j.msg].session,
           attempts' = [attempts EXCEPT ![h] = With(Without(attempts[h], j), j, e)],
           unfenced \/ (~e.revoked /\ j.epoch = owned[h] /\ ~Draining(h)),
           UNCHANGED <<owned, recovery, forwards, unfenced>>
    PROVE  StepGood
<1> DEFINE m == j.msg
           s == registry.mail[m].session
<1>1. Sound(registry) /\ AttemptsTyped /\ MailInvariant
  BY DEF HostInvariant, MailInvariant
<1>2. registry.epoch = j.epoch /\ registry.epoch \in Nat
  BY <1>1, SnapshotFields DEF MayClaim, Sound
<1>3. /\ Sound(Claimed(registry, m))
      /\ Advances(registry, Claimed(registry, m), NoMessage)
      /\ Fences(registry, Claimed(registry, m))
      /\ m \in DOMAIN Claimed(registry, m).mail /\ m \in DOMAIN registry.mail
      /\ Claimed(registry, m).mail[m].status = "running"
      /\ Claimed(registry, m).mail[m].session = s
      /\ registry.mail[m].status = "pending"
  BY <1>1, <1>2, ClaimedSound
<1>4. Moved(NoMessage)
  BY <1>3, Mutation
<1>5. /\ m \in Ids /\ s \in Sessions(registry) /\ LifeIn(registry, m) = "pending"
      /\ s \in Nat /\ s <= registry.admittedSubcalls
  <2>1. m \in Ids /\ s \in Sessions(registry) /\ LifeIn(registry, m) = "pending"
    BY <1>1, <1>3, SnapshotFields, LifeType DEF Sound, Housed
  <2>2. s \in 1 .. registry.admittedSubcalls
    BY <1>1, <2>1 DEF Sound, Numbered
  <2> QED
    BY <1>1, <2>1, <2>2, SnapshotFields DEF Sound
<1>6. /\ registry'.epoch \in Nat /\ registry.epoch <= registry'.epoch
      /\ registry.admittedSubcalls \in Nat /\ registry'.admittedSubcalls \in Nat
      /\ registry.admittedSubcalls <= registry'.admittedSubcalls
  BY <1>1, <1>4, SnapshotFields DEF Sound, Moved, Advances, Stays
<1>7. m \in DOMAIN registry'.mail /\ registry'.mail[m].status = "running"
      /\ registry'.mail[m].session = s /\ LifeIn(registry', m) = "running"
  <2>1. registry'.mail = Claimed(registry, m).mail
    <3> DEFINE q == Claimed(registry, m)
    <3>1. q \in Snapshot
      BY <1>3 DEF Sound
    <3> HIDE DEF q
    <3>2. Reconciled(q).mail = q.mail
      BY <3>1 DEF Reconciled, Snapshot
    <3> QED
      BY <3>2 DEF q
  <2> QED
    BY <1>3, <2>1 DEF LifeIn
<1>8. /\ DOMAIN attempts' = Hosts
      /\ \A g \in Hosts \ {h} : attempts'[g] = attempts[g]
      /\ DOMAIN attempts'[h] = (DOMAIN attempts[h] \ {j}) \cup {j}
      /\ attempts'[h][j] = e
      /\ \A i \in DOMAIN attempts[h] \ {j} : attempts'[h][i] = attempts[h][i]
  <2> DEFINE f == With(Without(attempts[h], j), j, e)
  <2>1. /\ DOMAIN f = (DOMAIN attempts[h] \ {j}) \cup {j} /\ f[j] = e
        /\ \A i \in DOMAIN attempts[h] \ {j} : f[i] = attempts[h][i]
    BY DEF With, Without
  <2> HIDE DEF f
  <2>2. attempts' = [attempts EXCEPT ![h] = f]
    BY DEF f
  <2> QED
    BY <1>1, <2>1, <2>2 DEF AttemptsTyped
<1>9. AttemptsTyped'
  BY <1>1, <1>8 DEF AttemptsTyped
<1>10. ASSUME NEW g \in Hosts, NEW i \in DOMAIN attempts'[g], Holder(g, i)',
              ~(g = h /\ i = j)
       PROVE  /\ i \in DOMAIN attempts[g] /\ Holder(g, i) /\ HolderFits(g, i)
              /\ attempts'[g][i] = attempts[g][i] /\ i.msg # m
  <2>1. i \in DOMAIN attempts[g] /\ attempts'[g][i] = attempts[g][i]
    BY <1>8, <1>10
  <2>2. Holder(g, i) /\ HolderFits(g, i)
    BY <1>1, <1>10, <2>1 DEF Holder, MailInvariant, HoldersFit
  <2>3. i.msg # m
    BY <1>5, <2>2 DEF HolderFits
  <2> QED
    BY <2>1, <2>2, <2>3
<1>11. HoldersAlone'
  BY <1>1, <1>10 DEF MailInvariant, HoldersAlone
<1>12. HolderFits(h, j)'
  <2>1. forwards[m] = 0
    BY <1>1, <1>5 DEF MailInvariant, RunsCounted
  <2> QED
    BY <1>2, <1>5, <1>6, <1>7, <1>8, <2>1 DEF HolderFits
<1>13. ASSUME NEW g \in Hosts, NEW i \in DOMAIN attempts'[g], Holder(g, i)'
       PROVE  HolderFits(g, i)'
  <2>1. CASE g = h /\ i = j
    BY <1>12, <2>1
  <2>2. CASE ~(g = h /\ i = j)
    <3>1. HolderFits(g, i) /\ attempts'[g][i] = attempts[g][i] /\ i.msg # NoMessage
      BY <1>10, <1>13, <2>2, IdsAreNumbers DEF HolderFits, NoMessage
    <3> QED
      BY <1>1, <1>4, <3>1, HolderKept
  <2> QED
    BY <2>1, <2>2
<1>14. HoldersFit' /\ RunsCounted'
  BY <1>1, <1>4, <1>13, RunsKept DEF HoldersFit, MailInvariant
<1>15. MailInvariant'
  BY <1>4, <1>9, <1>11, <1>14 DEF MailInvariant, Moved
<1>16. unfenced \/ Drained(h)'
  <2>1. SUFFICES ASSUME ~unfenced PROVE Drained(h)'
    OBVIOUS
  <2>2. /\ Drained(h) /\ ~e.revoked /\ j.epoch = owned[h]
        /\ \A i \in DOMAIN attempts[h] : ~attempts[h][i].revoked
    BY <2>1 DEF HostInvariant, DrainInvariant, Draining
  <2>3. ASSUME NEW i \in DOMAIN attempts'[h]
        PROVE  i.epoch \in Nat /\ ~attempts'[h][i].revoked /\ i.epoch = owned'[h]
    BY <1>2, <1>8, <2>2, <2>3 DEF Drained
  <2>4. ASSUME NEW i \in DOMAIN attempts'[h], i # j, Holder(h, i)'
        PROVE  attempts'[h][i].session # s
    <3>1. /\ i \in DOMAIN attempts[h] /\ Holder(h, i)
          /\ attempts'[h][i] = attempts[h][i]
      BY <1>10, <2>4
    <3>2. i.epoch = j.epoch
      BY <2>2, <3>1 DEF Drained
    <3> QED
      BY <1>1, <3>1, <3>2, HolderElsewhere
  <2>5. ASSUME NEW i \in DOMAIN attempts'[h], NEW k \in DOMAIN attempts'[h], i # k,
               Holder(h, i)', Holder(h, k)'
        PROVE  attempts'[h][i].session # attempts'[h][k].session
    <3>1. CASE i = j \/ k = j
      BY <1>8, <2>4, <2>5, <3>1
    <3>2. CASE i # j /\ k # j
      BY <1>10, <2>2, <2>5, <3>2 DEF Drained
    <3> QED
      BY <3>1, <3>2
  <2> QED
    BY <2>3, <2>5 DEF Drained
<1>17. DrainInvariant'
  <2>1. EpochsKnown'
    BY <1>4, EpochsKept
  <2> QED
    BY <1>2, <1>6, <1>8, <1>16, <2>1, DrainHere DEF HostInvariant
<1> QED
  BY <1>1, <1>4, <1>15, <1>17, MovedMails, MovedObeys DEF StepGood, HostInvariant

LEMMA NewAttemptType ==
    ASSUME NEW at \in {"dispatched", "skipped", "claimed"}, NEW s \in Nat
    PROVE  /\ NewAttempt(at, s) \in Attempt /\ NewAttempt(at, s).at = at
           /\ NewAttempt(at, s).session = s /\ ~NewAttempt(at, s).revoked
BY DEF NewAttempt, Attempt

\* A job that is claimed or skipped, of an attempt that waited for the store
\* or of none.
LEMMA ClaimOrSkipGood ==
    ASSUME HostInvariant, NEW h \in Hosts, NEW j, ClaimOrSkip(h, j),
           j \notin DOMAIN attempts[h] => j.epoch = owned[h] /\ ~Draining(h),
           UNCHANGED <<owned, recovery, forwards, unfenced>>
    PROVE  StepGood
<1> DEFINE s == registry.mail[j.msg].session
           old == IF j \in DOMAIN attempts[h] THEN attempts[h][j]
                  ELSE NewAttempt("claimed", s)
           e == [old EXCEPT !.at = "claimed", !.session = s]
<1>1. Sound(registry) /\ AttemptsTyped
  BY DEF HostInvariant, MailInvariant
<1>2. CASE MayClaim(registry, j.msg, j.epoch)
  <2>1. /\ registry' = Reconciled(Claimed(registry, j.msg))
        /\ attempts' = [attempts EXCEPT ![h] = With(Without(attempts[h], j), j, e)]
    BY <1>2 DEF ClaimOrSkip
  <2>2. s \in Nat
    <3>1. j.msg \in DOMAIN registry.mail
      BY <1>2 DEF MayClaim
    <3>2. s \in Ids
      BY <1>1, <3>1, SnapshotFields DEF Sound, Message
    <3> QED
      BY <3>2, IdsAreNumbers
  <2>3. old \in Attempt
    BY <1>1, <2>2, NewAttemptType DEF AttemptsTyped
  <2>4. e \in Attempt /\ e.at = "claimed" /\ e.session = s /\ e.revoked = old.revoked
    <3> HIDE DEF old, s
    <3> QED
      BY <2>2, <2>3 DEF Attempt
  <2>5. unfenced \/ (~e.revoked /\ j.epoch = owned[h] /\ ~Draining(h))
    <3>1. CASE j \notin DOMAIN attempts[h]
      BY <2>2, <2>4, <3>1, NewAttemptType
    <3>2. CASE j \in DOMAIN attempts[h] /\ ~unfenced
      <4>1. Drained(h)
        BY <3>2 DEF HostInvariant, DrainInvariant
      <4>2. registry.epoch = j.epoch /\ registry.epoch \in Nat
        BY <1>1, <1>2, SnapshotFields DEF MayClaim, Sound
      <4>3. ~attempts[h][j].revoked /\ j.epoch = owned[h]
        BY <3>2, <4>1, <4>2 DEF Drained
      <4>4. ~Draining(h)
        BY <3>2, <4>1, <4>3 DEF Drained, Draining
      <4> QED
        BY <2>4, <3>2, <4>3, <4>4
    <3> QED
      BY <3>1, <3>2
  <2> HIDE DEF e
  <2> QED
    BY <1>2, <2>1, <2>4, <2>5, ClaimGood
<1>3. CASE ~MayClaim(registry, j.msg, j.epoch)
  <2>1. /\ attempts' = [attempts EXCEPT ![h] = Without(attempts[h], j)]
        /\ registry' = registry
    BY <1>3 DEF ClaimOrSkip
  <2>2. Quiet
    BY <1>1, <2>1, SameQuiet, WithoutQuiet, QuietHere
  <2> QED
    BY <2>1, <2>2, SameSnapshot, MutationStep
<1> QED
  BY <1>2, <1>3

LEMMA DispatchesStep ==
    ASSUME HostInvariant, NEW h \in Hosts, Dispatch(h) PROVE StepGood
<1>1. PICK j \in queue[h] : Dispatchable(h, j) /\ ClaimOrSkip(h, j)
  BY DEF Dispatch
<1>2. j \notin DOMAIN attempts[h] /\ j.epoch = owned[h] /\ ~Draining(h)
  BY <1>1 DEF Dispatchable
<1>3. UNCHANGED <<owned, recovery, forwards, unfenced>>
  BY DEF Dispatch, history
<1> QED
  BY <1>1, <1>2, <1>3, ClaimOrSkipGood

LEMMA AnswerLateStep ==
    ASSUME HostInvariant, NEW h \in Hosts, AnswerLate(h) PROVE StepGood
<1>1. UNCHANGED <<owned, recovery, forwards, unfenced>> /\ AttemptsTyped
  BY DEF AnswerLate, history, HostInvariant, MailInvariant
<1>2. PICK j \in DOMAIN attempts[h] :
        \/ ClaimOrSkip(h, j)
        \/ /\ attempts' = [attempts EXCEPT ![h] = Without(attempts[h], j)]
           /\ UNCHANGED registry
  BY DEF AnswerLate
<1>3. CASE ClaimOrSkip(h, j)
  BY <1>1, <1>2, <1>3, ClaimOrSkipGood
<1>4. CASE /\ attempts' = [attempts EXCEPT ![h] = Without(attempts[h], j)]
           /\ UNCHANGED registry
  <2>1. Quiet
    BY <1>1, <1>4, SameQuiet, WithoutQuiet, QuietHere
  <2> QED
    BY <1>1, <1>4, <2>1, SameSnapshot, MutationStep
<1> QED
  BY <1>2, <1>3, <1>4

LEMMA DispatchSlowlyStep ==
    ASSUME HostInvariant, NEW h \in Hosts, DispatchSlowly(h) PROVE StepGood
<1>1. UNCHANGED <<registry, owned, recovery, forwards, unfenced>>
  BY DEF DispatchSlowly, history
<1>2. PICK j \in queue[h], at \in {"dispatched", "skipped"} :
        Dispatchable(h, j) /\ SetAttempt(h, j, NewAttempt(at, 0))
  <2>1. PICK j \in queue[h] :
          /\ Dispatchable(h, j)
          /\ \E at \in {"dispatched"} \cup
                 (IF MayClaim(registry, j.msg, j.epoch) THEN {} ELSE {"skipped"}) :
               SetAttempt(h, j, NewAttempt(at, 0))
    BY Zenon DEF DispatchSlowly
  <2>2. PICK at \in {"dispatched", "skipped"} : SetAttempt(h, j, NewAttempt(at, 0))
    BY <2>1
  <2> QED
    BY <2>1, <2>2
<1> DEFINE e == NewAttempt(at, 0)
<1>3. e \in Attempt /\ e.at = at /\ ~e.revoked
  BY NewAttemptType
<1> HIDE DEF e
<1>4. Sound(registry) /\ AttemptsTyped /\ Moved(NoMessage) /\ registry.epoch \in Nat
  BY <1>1, SameSnapshot, SnapshotFields DEF HostInvariant, MailInvariant, Sound
<1>5. /\ DOMAIN attempts' = Hosts
      /\ \A g \in Hosts \ {h} : attempts'[g] = attempts[g]
      /\ DOMAIN attempts'[h] = DOMAIN attempts[h] \cup {j}
      /\ attempts'[h][j] = e
      /\ \A i \in DOMAIN attempts[h] \ {j} : attempts'[h][i] = attempts[h][i]
  <2> DEFINE f == With(attempts[h], j, e)
  <2>1. /\ DOMAIN f = DOMAIN attempts[h] \cup {j} /\ f[j] = e
        /\ \A i \in DOMAIN attempts[h] \ {j} : f[i] = attempts[h][i]
    BY DEF With
  <2> HIDE DEF f
  <2>2. attempts' = [attempts EXCEPT ![h] = f]
    BY <1>2 DEF f, e, SetAttempt
  <2> QED
    BY <1>4, <2>1, <2>2 DEF AttemptsTyped
<1>6. Held
  <2>1. HeldAt(h, attempts'[h])
    BY <1>3, <1>4, <1>5 DEF HeldAt, AttemptsTyped
  <2>2. ASSUME NEW g \in Hosts \ {h}
        PROVE  HeldAt(g, attempts'[g])
    BY <1>4, <1>5 DEF HeldAt, AttemptsTyped
  <2> QED
    BY <1>5, <2>1, <2>2 DEF Held
<1>7. MailInvariant'
  BY <1>1, <1>4, <1>6, MailKept DEF HostInvariant
<1>8. ASSUME ~unfenced
      PROVE  Drained(h)'
  <2>1. /\ Drained(h) /\ owned[h] = j.epoch
        /\ \A i \in DOMAIN attempts[h] : ~attempts[h][i].revoked
    BY <1>2, <1>8 DEF HostInvariant, DrainInvariant, Draining, Dispatchable
  <2>2. owned[h] \in Nat
    BY DEF HostInvariant, DrainInvariant, EpochsKnown
  <2>3. ASSUME NEW i \in DOMAIN attempts'[h]
        PROVE  i.epoch \in Nat /\ ~attempts'[h][i].revoked /\ i.epoch = owned'[h]
    BY <1>1, <1>3, <1>5, <2>1, <2>2, <2>3 DEF Drained
  <2>4. ASSUME NEW i \in DOMAIN attempts'[h], Holder(h, i)'
        PROVE  /\ i \in DOMAIN attempts[h] /\ Holder(h, i)
               /\ attempts'[h][i].session = attempts[h][i].session
    BY <1>6, <2>4 DEF Held, HeldAt, Holder
  <2> QED
    BY <2>1, <2>3, <2>4 DEF Drained
<1>9. DrainInvariant'
  <2>1. EpochsKnown'
    BY <1>1, <1>4, EpochsKept
  <2> QED
    BY <1>1, <1>4, <1>5, <1>8, <2>1, DrainHere DEF HostInvariant
<1> QED
  BY <1>1, <1>4, <1>7, <1>9, MovedMails, MovedObeys DEF StepGood, HostInvariant

\* The one step that runs the agent.
LEMMA ForwardStep == ASSUME HostInvariant, NEW h \in Hosts, Forward(h) PROVE StepGood
<1>1. UNCHANGED <<registry, owned, recovery, unfenced>>
  BY DEF Forward
<1>2. PICK j \in DOMAIN attempts[h] :
        /\ attempts[h][j].at = "claimed"
        /\ SetAttempt(h, j, [attempts[h][j] EXCEPT !.at = "forwarding"])
        /\ forwards' = [forwards EXCEPT ![j.msg] = @ + 1]
  BY DEF Forward
<1> DEFINE old == attempts[h][j]
           e == [old EXCEPT !.at = "forwarding"]
           m == j.msg
<1>3. /\ Sound(registry) /\ AttemptsTyped /\ MailInvariant /\ Moved(NoMessage)
      /\ registry.epoch \in Nat
  BY <1>1, SameSnapshot, SnapshotFields DEF HostInvariant, MailInvariant, Sound
<1>4. /\ old \in Attempt /\ e \in Attempt /\ e.at = "forwarding"
      /\ e.session = old.session /\ e.revoked = old.revoked
  <2>1. old \in Attempt
    BY <1>3 DEF AttemptsTyped
  <2> HIDE DEF old
  <2> QED
    BY <2>1 DEF Attempt
<1>5. attempts' = [attempts EXCEPT ![h] = With(attempts[h], j, e)]
  BY <1>2 DEF SetAttempt
<1> HIDE DEF e
<1>6. /\ DOMAIN attempts' = Hosts
      /\ \A g \in Hosts \ {h} : attempts'[g] = attempts[g]
      /\ DOMAIN attempts'[h] = DOMAIN attempts[h]
      /\ attempts'[h][j] = e
      /\ \A i \in DOMAIN attempts[h] \ {j} : attempts'[h][i] = attempts[h][i]
  <2> DEFINE f == With(attempts[h], j, e)
  <2>1. /\ DOMAIN f = DOMAIN attempts[h] \cup {j} /\ f[j] = e
        /\ \A i \in DOMAIN attempts[h] \ {j} : f[i] = attempts[h][i]
    BY DEF With
  <2> HIDE DEF f
  <2>2. attempts' = [attempts EXCEPT ![h] = f]
    BY <1>5 DEF f
  <2> QED
    BY <1>3, <2>1, <2>2 DEF AttemptsTyped
<1>7. Holder(h, j) /\ HolderFits(h, j)
  BY <1>2, <1>3 DEF Holder, MailInvariant, HoldersFit
<1>8. /\ m \in Ids /\ forwards[m] = 0 /\ forwards \in [Ids -> {0, 1}]
      /\ LifeIn(registry, m) \in {"running", "outcome_unknown", "removed"}
  BY <1>2, <1>3, <1>7 DEF HolderFits, MailInvariant, RunsCounted
<1>9. /\ forwards' = [forwards EXCEPT ![m] = 1]
      /\ forwards' \in [Ids -> {0, 1}] /\ forwards'[m] = 1
      /\ \A x \in Ids \ {m} : forwards'[x] = forwards[x]
  BY <1>2, <1>8
<1>10. AttemptsTyped'
  BY <1>3, <1>4, <1>6 DEF AttemptsTyped
<1>11. ASSUME NEW g \in Hosts, NEW i \in DOMAIN attempts'[g]
       PROVE  /\ i \in DOMAIN attempts[g] /\ (Holder(g, i)' <=> Holder(g, i))
              /\ attempts'[g][i].session = attempts[g][i].session
              /\ attempts'[g][i].revoked = attempts[g][i].revoked
  BY <1>4, <1>6, <1>7 DEF Holder
<1>12. HoldersAlone'
  BY <1>3, <1>11 DEF MailInvariant, HoldersAlone
<1>13. ASSUME NEW g \in Hosts, NEW i \in DOMAIN attempts'[g], Holder(g, i)'
       PROVE  HolderFits(g, i)'
  <2>1. Holder(g, i) /\ HolderFits(g, i) /\ i \in DOMAIN attempts[g]
    BY <1>3, <1>11, <1>13 DEF MailInvariant, HoldersFit
  <2>2. CASE g = h /\ i = j
    BY <1>1, <1>4, <1>6, <1>7, <1>9, <2>2 DEF HolderFits
  <2>3. CASE ~(g = h /\ i = j)
    <3>1. i.msg # m
      BY <1>3, <1>7, <2>1, <2>3 DEF MailInvariant, HoldersAlone
    <3>2. attempts'[g][i] = attempts[g][i]
      BY <1>6, <1>11, <2>3
    <3>3. i.msg \in Ids /\ forwards'[i.msg] = forwards[i.msg]
      BY <1>9, <2>1, <3>1 DEF HolderFits
    <3> QED
      BY <1>1, <2>1, <3>2, <3>3 DEF HolderFits
  <2> QED
    BY <2>2, <2>3
<1>14. HoldersFit'
  BY <1>13 DEF HoldersFit
<1>15. RunsCounted'
  <2>1. \A x \in Ids : LifeIn(registry, x) \in {"absent", "pending"} => forwards[x] = 0
    BY <1>3 DEF MailInvariant, RunsCounted
  <2>2. \A x \in Ids : LifeIn(registry, x) \in {"absent", "pending"} => forwards'[x] = 0
    BY <1>8, <1>9, <2>1
  <2> QED
    BY <1>1, <1>9, <2>2 DEF RunsCounted
<1>16. MailInvariant'
  BY <1>1, <1>3, <1>10, <1>12, <1>14, <1>15 DEF MailInvariant
<1>17. ASSUME ~unfenced
       PROVE  Drained(h)'
  <2>1. Drained(h)
    BY <1>17 DEF HostInvariant, DrainInvariant
  <2> QED
    BY <1>1, <1>11, <2>1 DEF Drained
<1>18. DrainInvariant'
  <2>1. EpochsKnown'
    BY <1>1, <1>3, EpochsKept
  <2> QED
    BY <1>1, <1>3, <1>6, <1>17, <2>1, DrainHere DEF HostInvariant
<1>19. Mail!Run(m)
  <2>1. Life[m] = LifeIn(registry, m) /\ Life' = Life
    BY <1>1, <1>8 DEF Life, LifeIn
  <2> QED
    BY <1>8, <1>9, <2>1 DEF Mail!Run
<1> QED
  BY <1>3, <1>8, <1>16, <1>18, <1>19, MovedObeys
     DEF StepGood, HostInvariant, Mail!MailNext

\* The job of a message that the registry has.
LEMMA JobsTyped ==
    ASSUME Sound(registry), NEW M \in SUBSET DOMAIN registry.mail
    PROVE  JobsOf(M) \subseteq Jobs
<1>1. \A m \in M : m \in Ids /\ registry.mail[m] \in Message
  BY SnapshotFields DEF Sound
<1>2. \A m \in M : Job(m, registry.mail[m].job) \in Jobs
  BY <1>1 DEF Message, Job, Jobs
<1> QED
  BY <1>2 DEF JobsOf

\* An outcome that is saved ends the run of the message of its holder.
LEMMA SavedMoves ==
    ASSUME HostInvariant, NEW h \in Hosts, NEW j \in DOMAIN attempts[h],
           StillRunning(j), SaveOutcome(attempts[h][j], j.msg)
    PROVE  /\ Holder(h, j) /\ Moved(j.msg)
<1> DEFINE m == j.msg
           attempt == attempts[h][j]
<1>1. Sound(registry) /\ MailInvariant
  BY DEF HostInvariant, MailInvariant
<1>2. m \in DOMAIN registry.mail /\ registry.mail[m].status = "running"
  BY DEF StillRunning, InStatus
<1>3. Holder(h, j)
  BY DEF SaveOutcome, Holder
<1>4. m \in Ids /\ forwards[m] = IF attempt.at = "claimed" THEN 0 ELSE 1
  BY <1>1, <1>3 DEF MailInvariant, HoldersFit, HolderFits
<1>5. PICK outcome \in {"completed", "failed"}, tokens \in Int :
        /\ Save(attempt, m, outcome, tokens)
        /\ outcome = "completed" => attempt.at = "forwarding"
  <2>1. CASE attempt.at = "claimed" /\ Save(attempt, m, "failed", 0)
    BY <2>1
  <2>2. CASE /\ attempt.at = "forwarding"
             /\ \E outcome \in Outcomes, tokens \in Usages :
                  Save(attempt, m, outcome, tokens)
    <3>1. Outcomes \subseteq {"completed", "failed"} /\ Usages \subseteq Int
      BY HostsAssumption, UsagesAssumption
    <3> QED
      BY <2>2, <3>1
  <2> QED
    BY <2>1, <2>2 DEF SaveOutcome
<1> DEFINE discarded == registry.mail[m].cancel \/ attempt.aborted
           result == IF discarded THEN "cancelled" ELSE outcome
           q == Settled(registry, m, result, tokens)
<1>6. registry' = Reconciled(q)
  BY <1>5 DEF Save
<1>7. /\ result \in {"completed", "failed", "cancelled"}
      /\ registry.mail[m].cancel => result = "cancelled"
      /\ result = "completed" => outcome = "completed"
  OBVIOUS
<1> HIDE DEF result
<1>8. Sound(q) /\ Advances(registry, q, m) /\ Fences(registry, q) /\ LifeIn(q, m) = result
  BY <1>1, <1>2, <1>7, SettledSound
<1> HIDE DEF q
<1>9. Sound(registry') /\ Advances(registry, registry', m) /\ Fences(registry, registry')
  BY <1>6, <1>8, ReconciledSound
<1>10. LifeIn(registry', m) = result
  <2>1. registry'.mail = q.mail /\ registry'.admittedSubcalls = q.admittedSubcalls
    BY <1>6, <1>8 DEF Reconciled, Sound, Snapshot
  <2> QED
    BY <1>8, <2>1 DEF LifeIn
<1> QED
  BY <1>3, <1>4, <1>5, <1>7, <1>9, <1>10 DEF Moved

\* Then none holds the message: its one holder left, or is settled.
LEMMA LeftByHolder ==
    ASSUME HostInvariant, NEW h \in Hosts, NEW j \in DOMAIN attempts[h], Holder(h, j),
           Quiet, j \notin DOMAIN attempts'[h] \/ attempts'[h][j].at = "settled"
    PROVE  NoneHolds(j.msg)'
<1>1. ASSUME NEW g \in Hosts, NEW i \in DOMAIN attempts'[g], Holder(g, i)'
      PROVE  i.msg # j.msg
  <2>1. i \in DOMAIN attempts[g] /\ Holder(g, i)
    BY <1>1 DEF Quiet, QuietAt, HeldAt, Holder
  <2>2. ~(g = h /\ i = j)
    BY <1>1 DEF Holder
  <2> QED
    BY <2>1, <2>2 DEF HostInvariant, MailInvariant, HoldersAlone
<1> QED
  BY <1>1 DEF NoneHolds

LEMMA SavedStep ==
    ASSUME HostInvariant, NEW h \in Hosts, NEW j \in DOMAIN attempts[h],
           StillRunning(j), SaveOutcome(attempts[h][j], j.msg), Quiet,
           j \notin DOMAIN attempts'[h] \/ attempts'[h][j].at = "settled",
           UNCHANGED <<owned, recovery, forwards, unfenced>>
    PROVE  StepGood
<1>1. Holder(h, j) /\ Moved(j.msg)
  BY SavedMoves
<1>2. NoneHolds(j.msg)'
  BY <1>1, LeftByHolder
<1>3. EpochsKnown'
  BY <1>1, EpochsKept
<1> QED
  BY <1>1, <1>2, <1>3, QuietStep

LEMMA LeaveQuiet ==
    ASSUME HostInvariant, NEW h \in Hosts, NEW j, NEW stop,
           attempts' = [attempts EXCEPT ![h] = Without(Aborted(attempts[h], stop), j)]
    PROVE  Quiet /\ j \notin DOMAIN attempts'[h]
<1> DEFINE f == Without(Aborted(attempts[h], stop), j)
<1>1. AttemptsTyped
  BY DEF HostInvariant, MailInvariant
<1>2. QuietAt(h, f)
  BY <1>1, AbortedQuiet, WithoutQuiet
<1>3. j \notin DOMAIN f
  BY DEF Without
<1> HIDE DEF f
<1>4. attempts' = [attempts EXCEPT ![h] = f]
  BY DEF f
<1> QED
  BY <1>1, <1>2, <1>3, <1>4, QuietHere DEF AttemptsTyped

LEMMA GoneQuiet ==
    ASSUME HostInvariant, NEW h \in Hosts, NEW j,
           attempts' = [attempts EXCEPT ![h] = Without(attempts[h], j)]
    PROVE  Quiet /\ j \notin DOMAIN attempts'[h]
<1> DEFINE f == Without(attempts[h], j)
<1>1. AttemptsTyped
  BY DEF HostInvariant, MailInvariant
<1>2. QuietAt(h, f)
  BY <1>1, SameQuiet, WithoutQuiet
<1>3. j \notin DOMAIN f
  BY DEF Without
<1> HIDE DEF f
<1>4. attempts' = [attempts EXCEPT ![h] = f]
  BY DEF f
<1> QED
  BY <1>1, <1>2, <1>3, <1>4, QuietHere DEF AttemptsTyped

LEMMA CompleteStep ==
    ASSUME HostInvariant, NEW h \in Hosts, Complete(h) PROVE StepGood
<1>1. UNCHANGED <<owned, recovery, forwards, unfenced>>
  BY DEF Complete
<1>2. Sound(registry) /\ AttemptsTyped
  BY DEF HostInvariant, MailInvariant
<1>3. PICK j \in DOMAIN attempts[h] :
        \/ /\ StillRunning(j)
           /\ SaveOutcome(attempts[h][j], j.msg)
           /\ LET stop == StopSettled(registry', j.msg) IN
              \/ Leave(h, j, stop)
              \/ SetAttempt(h, j, [attempts[h][j] EXCEPT !.at = "settled",
                                                         !.stop = stop])
        \/ /\ attempts' = [attempts EXCEPT ![h] = Without(attempts[h], j)]
           /\ registry' = registry
  BY Zenon DEF Complete
<1> DEFINE stop == StopSettled(registry', j.msg)
           settled == SetAttempt(h, j, [attempts[h][j] EXCEPT !.at = "settled",
                                                              !.stop = stop])
<1>7. \/ /\ StillRunning(j) /\ SaveOutcome(attempts[h][j], j.msg)
         /\ Leave(h, j, stop) \/ settled
      \/ /\ attempts' = [attempts EXCEPT ![h] = Without(attempts[h], j)]
         /\ registry' = registry
  BY <1>3
<1>4. CASE /\ attempts' = [attempts EXCEPT ![h] = Without(attempts[h], j)]
           /\ registry' = registry
  BY <1>1, <1>4, GoneQuiet, SameSnapshot, MutationStep
<1>5. ASSUME Leave(h, j, stop), StillRunning(j),
             SaveOutcome(attempts[h][j], j.msg)
      PROVE  StepGood
  <2> HIDE DEF stop, settled
  <2>1. Quiet /\ j \notin DOMAIN attempts'[h]
    BY <1>5, LeaveQuiet DEF Leave
  <2> QED
    BY <1>1, <1>5, <2>1, SavedStep
<1>6. ASSUME settled, StillRunning(j), SaveOutcome(attempts[h][j], j.msg)
      PROVE  StepGood
  <2> DEFINE old == attempts[h][j]
             e == [old EXCEPT !.at = "settled", !.stop = stop]
             f == With(attempts[h], j, e)
  <2>1. stop \in SUBSET Jobs
    <3> DEFINE M == (InStatus(registry, "pending") \cup InStatus(registry, "running"))
                    \ {j.msg}
    <3>1. M \in SUBSET DOMAIN registry.mail
      BY DEF InStatus
    <3>2. stop = {} \/ stop = JobsOf(M)
      BY DEF StopSettled
    <3> HIDE DEF M, stop
    <3> QED
      BY <1>2, <3>1, <3>2, JobsTyped
  <2>2. /\ e \in Attempt /\ e.at = "settled" /\ e.revoked = old.revoked
    <3>1. old \in Attempt
      BY <1>2 DEF AttemptsTyped
    <3> HIDE DEF old, stop
    <3> QED
      BY <2>1, <3>1 DEF Attempt
  <2>3. attempts' = [attempts EXCEPT ![h] = f]
    BY <1>6 DEF SetAttempt
  <2> HIDE DEF e, stop, settled
  <2>4. /\ DOMAIN f = DOMAIN attempts[h] /\ f[j] = e
        /\ \A i \in DOMAIN attempts[h] \ {j} : f[i] = attempts[h][i]
    BY DEF With
  <2> HIDE DEF f
  <2>5. QuietAt(h, f)
    BY <1>2, <2>2, <2>4 DEF QuietAt, HeldAt, AttemptsTyped
  <2>6. Quiet
    BY <1>2, <2>3, <2>5, QuietHere
  <2>7. attempts'[h][j].at = "settled"
    BY <1>2, <2>2, <2>3, <2>4 DEF AttemptsTyped
  <2> QED
    BY <1>1, <1>6, <2>6, <2>7, SavedStep
<1> HIDE DEF stop, settled
<1> QED
  BY <1>4, <1>5, <1>6, <1>7

LEMMA FinishStep == ASSUME HostInvariant, NEW h \in Hosts, Finish(h) PROVE StepGood
<1>1. Moved(NoMessage)
  BY SameSnapshot DEF Finish
<1>2. PICK j, stop : Leave(h, j, stop)
  BY DEF Finish
<1>3. Quiet
  BY <1>2, LeaveQuiet DEF Leave
<1> QED
  BY <1>1, <1>3, MutationStep DEF Finish, history

-----------------------------------------------------------------------------
(* The steps of a recovery, and the faults                                 *)

LEMMA FencedMoves ==
    ASSUME HostInvariant, registry' = Fenced
    PROVE  Moved(NoMessage) /\ registry'.epoch = registry.epoch + 1
<1> DEFINE p == Interrupted(registry)
           q == Rotated(p)
<1>1. Sound(registry)
  BY DEF HostInvariant, MailInvariant
<1>2. Sound(p) /\ Advances(registry, p, NoMessage) /\ p.epoch = registry.epoch
  BY <1>1, InterruptedSound
<1> HIDE DEF p
<1>3. /\ Sound(q) /\ Advances(registry, q, NoMessage) /\ Fences(registry, q)
      /\ q.epoch = p.epoch + 1
  BY <1>1, <1>2, RotatedSound
<1>4. registry' = Reconciled(q)
  BY DEF Fenced, p
<1> HIDE DEF q
<1>5. registry'.epoch = q.epoch
  BY <1>3, <1>4 DEF Reconciled, Sound, Snapshot
<1> QED
  BY <1>2, <1>3, <1>4, <1>5, Mutation

LEMMA FenceStep == ASSUME HostInvariant, NEW h \in Hosts, Fence(h) PROVE StepGood
<1>1. Moved(NoMessage) /\ registry'.epoch = registry.epoch + 1 /\ registry.epoch \in Nat
  BY FencedMoves, RegistryNumbers DEF Fence
<1> DEFINE epoch == registry.epoch + 1
<1>2. recovery' = [recovery EXCEPT ![h] = [at |-> "fenced", epoch |-> epoch]]
  BY DEF Fence, SetRecovery
<1>3. EpochsKnown'
  <2>1. owned' = owned
    BY DEF Fence
  <2>2. epoch \in Nat /\ registry.epoch < epoch /\ epoch <= registry'.epoch
    BY <1>1
  <2> HIDE DEF epoch
  <2> QED
    BY <1>1, <1>2, <2>1, <2>2, RecoverySet
<1>4. Quiet
  BY QuietSame DEF Fence, HostInvariant, MailInvariant
<1> QED
  BY <1>1, <1>3, <1>4, QuietStep DEF Fence, history

LEMMA FenceAnswerLostStep ==
    ASSUME HostInvariant, NEW h \in Hosts, FenceAnswerLost(h) PROVE StepGood
<1>1. Moved(NoMessage)
  BY FencedMoves DEF FenceAnswerLost
<1>2. EpochsKnown'
  BY <1>1, RecoverySet DEF FenceAnswerLost, SetRecovery
<1>3. Quiet
  BY QuietSame DEF FenceAnswerLost, HostInvariant, MailInvariant
<1> QED
  BY <1>1, <1>2, <1>3, QuietStep DEF FenceAnswerLost, history

LEMMA ResumeStep == ASSUME HostInvariant, NEW h \in Hosts, Resume(h) PROVE StepGood
<1>1. Moved(NoMessage)
  BY SameSnapshot DEF Resume
<1>2. EpochsKnown'
  BY <1>1, RecoverySet DEF Resume, NoRecovery
<1>3. Quiet
  BY QuietSame DEF Resume, HostInvariant, MailInvariant
<1> QED
  BY <1>1, <1>2, <1>3, QuietStep DEF Resume, history

LEMMA LoadFailsStep == ASSUME HostInvariant, NEW h \in Hosts, LoadFails(h) PROVE StepGood
<1>1. Moved(NoMessage)
  BY SameSnapshot DEF LoadFails
<1>2. Quiet
  BY QuietSame DEF LoadFails, HostInvariant, MailInvariant
<1> QED
  BY <1>1, <1>2, MutationStep DEF LoadFails, history

LEMMA ClaimAnswerLostStep ==
    ASSUME HostInvariant, NEW h \in Hosts, ClaimAnswerLost(h) PROVE StepGood
<1>1. PICK j : /\ MayClaim(registry, j.msg, j.epoch)
               /\ registry' = Reconciled(Claimed(registry, j.msg))
  BY DEF ClaimAnswerLost
<1>2. Sound(registry) /\ j.epoch = registry.epoch
  BY <1>1 DEF HostInvariant, MailInvariant, MayClaim
<1>3. Moved(NoMessage)
  BY <1>1, <1>2, ClaimedSound, Mutation
<1>4. EpochsKnown'
  BY <1>3, RecoverySet DEF ClaimAnswerLost, SetRecovery
<1>5. Quiet
  BY QuietSame DEF ClaimAnswerLost, HostInvariant, MailInvariant
<1> QED
  BY <1>3, <1>4, <1>5, QuietStep DEF ClaimAnswerLost, history

LEMMA CompletionLostStep ==
    ASSUME HostInvariant, NEW h \in Hosts, CompletionLost(h) PROVE StepGood
<1>1. UNCHANGED <<owned, forwards, unfenced>>
  BY DEF CompletionLost
<1>2. PICK j \in DOMAIN attempts[h] :
        /\ StillRunning(j)
        /\ attempts' = [attempts EXCEPT ![h] = Without(attempts[h], j)]
        /\ \/ SetRecovery(h, "asked", 0) /\ registry' = registry
           \/ SaveOutcome(attempts[h][j], j.msg) /\ recovery' = recovery
  BY Zenon DEF CompletionLost
<1>3. Quiet /\ j \notin DOMAIN attempts'[h]
  BY <1>2, GoneQuiet
<1>4. CASE SetRecovery(h, "asked", 0) /\ registry' = registry
  <2>1. Moved(NoMessage)
    BY <1>4, SameSnapshot
  <2>2. EpochsKnown'
    BY <1>1, <1>4, <2>1, RecoverySet DEF SetRecovery
  <2> QED
    BY <1>1, <1>3, <2>1, <2>2, QuietStep
<1>5. CASE SaveOutcome(attempts[h][j], j.msg) /\ recovery' = recovery
  BY <1>1, <1>2, <1>3, <1>5, SavedStep
<1> QED
  BY <1>2, <1>4, <1>5

LEMMA CloseStep == ASSUME HostInvariant, NEW h \in Hosts, Close(h) PROVE StepGood
<1>1. Moved(NoMessage)
  BY SameSnapshot DEF Close
<1>2. AttemptsTyped
  BY DEF HostInvariant, MailInvariant
<1>3. \/ attempts' = [attempts EXCEPT ![h] = Aborted(attempts[h], DOMAIN attempts[h])]
      \/ attempts' = attempts
  BY DEF Close
<1>4. Quiet
  BY <1>2, <1>3, AbortedQuiet, QuietHere, QuietSame
<1> QED
  BY <1>1, <1>4, MutationStep DEF Close, history

\* A take-over revokes every attempt of the host, of whatever epoch.
LEMMA TakeOverStep == ASSUME HostInvariant, NEW h \in Hosts, TakeOver(h) PROVE StepGood
<1> DEFINE epoch == recovery[h].epoch
           revoked(e) == [e EXCEPT !.aborted = TRUE, !.revoked = TRUE]
           f == Revoked(attempts[h])
<1>1. UNCHANGED <<registry, forwards, unfenced>>
  BY DEF TakeOver, history
<1>2. /\ recovery[h].at = "fenced"
      /\ owned' = [owned EXCEPT ![h] = epoch]
      /\ attempts' = [attempts EXCEPT ![h] = f]
      /\ recovery' = [recovery EXCEPT ![h] = [at |-> "draining", epoch |-> epoch]]
  BY DEF TakeOver, SetRecovery
<1>3. /\ Sound(registry) /\ AttemptsTyped /\ EpochsKnown
      /\ Moved(NoMessage) /\ registry.epoch \in Nat
  BY <1>1, SameSnapshot, SnapshotFields
     DEF HostInvariant, MailInvariant, DrainInvariant, Sound
<1>4. /\ owned[h] \in Nat /\ epoch \in Nat /\ owned[h] < epoch /\ epoch <= registry.epoch
  <2> HIDE DEF f, revoked
  <2>1. recovery[h] \in [at : {"idle", "asked", "fenced", "lost", "draining"}, epoch : Nat]
    BY <1>3 DEF EpochsKnown
  <2>2. recovery[h].at = "fenced" => owned[h] < epoch /\ epoch <= registry.epoch
    BY <1>3 DEF EpochsKnown
  <2> QED
    BY <1>2, <1>3, <2>1, <2>2 DEF EpochsKnown
<1>5. \A e \in Attempt : /\ revoked(e) \in Attempt /\ revoked(e).at = e.at
                         /\ revoked(e).session = e.session /\ revoked(e).revoked
  BY DEF Attempt
<1>6. /\ DOMAIN f = DOMAIN attempts[h]
      /\ \A j \in DOMAIN f : /\ attempts[h][j] \in Attempt
                             /\ f[j] = revoked(attempts[h][j])
  BY <1>3 DEF AttemptsTyped, Revoked
<1> HIDE DEF f, revoked, epoch
<1>7. /\ DOMAIN attempts' = Hosts /\ attempts'[h] = f
      /\ \A g \in Hosts \ {h} : attempts'[g] = attempts[g] /\ owned'[g] = owned[g]
      /\ owned'[h] = epoch
  BY <1>2, <1>3 DEF AttemptsTyped, EpochsKnown
<1>8. Held
  <2>1. HeldAt(h, f)
    BY <1>5, <1>6 DEF HeldAt
  <2>2. ASSUME NEW g \in Hosts \ {h}
        PROVE  HeldAt(g, attempts'[g])
    BY <1>3, <1>7 DEF HeldAt, AttemptsTyped
  <2> QED
    BY <1>7, <2>1, <2>2 DEF Held
<1>9. MailInvariant'
  BY <1>1, <1>3, <1>8, MailKept DEF HostInvariant
<1>10. EpochsKnown'
  <2> DEFINE new == [at |-> "draining", epoch |-> epoch]
  <2>1. new \in [at : {"idle", "asked", "fenced", "lost", "draining"}, epoch : Nat]
        /\ new.at # "fenced"
    BY <1>4
  <2>2. recovery' = [recovery EXCEPT ![h] = new]
    BY <1>2
  <2> HIDE DEF new
  <2> QED
    BY <1>1, <1>2, <1>3, <1>4, <2>1, <2>2 DEF EpochsKnown
<1>11. ASSUME ~unfenced
       PROVE  Drained(h)'
  <2>1. Drained(h)
    BY <1>11 DEF HostInvariant, DrainInvariant
  <2>2. ASSUME NEW j \in DOMAIN attempts'[h]
        PROVE  /\ j \in DOMAIN attempts[h] /\ attempts'[h][j].revoked
               /\ attempts'[h][j].session = attempts[h][j].session
               /\ Holder(h, j)' => Holder(h, j)
    BY <1>5, <1>6, <1>7, <2>2 DEF Holder
  <2>3. ASSUME NEW j \in DOMAIN attempts'[h]
        PROVE  j.epoch \in Nat /\ j.epoch < registry'.epoch
    BY <1>1, <1>3, <1>4, <2>1, <2>2, <2>3 DEF Drained
  <2> QED
    BY <2>1, <2>2, <2>3 DEF Drained
<1>12. DrainInvariant'
  BY <1>1, <1>3, <1>7, <1>10, <1>11, DrainHere DEF HostInvariant
<1> QED
  BY <1>1, <1>3, <1>9, <1>12, MovedMails, MovedObeys DEF StepGood, HostInvariant

\* From here on the host may run a session twice at once.
LEMMA ResumeRecoveryJobStep ==
    ASSUME HostInvariant, NEW h \in Hosts, ResumeRecoveryJob(h) PROVE StepGood
<1>1. /\ UNCHANGED <<registry, attempts, forwards>> /\ unfenced'
      /\ owned' = [owned EXCEPT ![h] = registry.epoch]
      /\ recovery' = [recovery EXCEPT ![h] = [at |-> "draining", epoch |-> registry.epoch]]
  BY DEF ResumeRecoveryJob, SetRecovery
<1>2. /\ Sound(registry) /\ AttemptsTyped /\ EpochsKnown
      /\ Moved(NoMessage) /\ registry.epoch \in Nat
  BY <1>1, SameSnapshot, SnapshotFields
     DEF HostInvariant, MailInvariant, DrainInvariant, Sound
<1>3. Held
  BY <1>1, <1>2, QuietSame DEF Quiet, QuietAt, Held
<1>4. MailInvariant'
  BY <1>1, <1>2, <1>3, MailKept DEF HostInvariant
<1>5. EpochsKnown'
  <2> DEFINE new == [at |-> "draining", epoch |-> registry.epoch]
  <2>1. new \in [at : {"idle", "asked", "fenced", "lost", "draining"}, epoch : Nat]
        /\ new.at # "fenced"
    BY <1>2
  <2>2. recovery' = [recovery EXCEPT ![h] = new]
    BY <1>1
  <2> HIDE DEF new
  <2> QED
    BY <1>1, <1>2, <2>1, <2>2 DEF EpochsKnown
<1> QED
  BY <1>1, <1>2, <1>4, <1>5, MovedMails, MovedObeys
     DEF StepGood, HostInvariant, DrainInvariant

LEMMA CrashStep == ASSUME HostInvariant, NEW h \in Hosts, Crash(h) PROVE StepGood
<1>1. /\ UNCHANGED <<registry, forwards, unfenced>>
      /\ owned' = [owned EXCEPT ![h] = 0]
      /\ attempts' = [attempts EXCEPT ![h] = NoAttempts]
      /\ recovery' = [recovery EXCEPT ![h] = NoRecovery]
  BY DEF Crash, history
<1>2. /\ Sound(registry) /\ AttemptsTyped /\ EpochsKnown
      /\ Moved(NoMessage) /\ registry.epoch \in Nat
  BY <1>1, SameSnapshot, SnapshotFields
     DEF HostInvariant, MailInvariant, DrainInvariant, Sound
<1>3. DOMAIN NoAttempts = {}
  BY DEF NoAttempts
<1>4. /\ DOMAIN attempts' = Hosts /\ DOMAIN attempts'[h] = {}
      /\ \A g \in Hosts \ {h} : attempts'[g] = attempts[g] /\ owned'[g] = owned[g]
      /\ owned'[h] = 0
  BY <1>1, <1>2, <1>3 DEF AttemptsTyped, EpochsKnown
<1>5. Held
  <2>1. ASSUME NEW g \in Hosts
        PROVE  HeldAt(g, attempts'[g])
    BY <1>2, <1>4, <2>1 DEF HeldAt, AttemptsTyped
  <2> QED
    BY <1>4, <2>1 DEF Held
<1>6. MailInvariant'
  BY <1>1, <1>2, <1>5, MailKept DEF HostInvariant
<1>7. EpochsKnown'
  <2>1. NoRecovery \in [at : {"idle", "asked", "fenced", "lost", "draining"}, epoch : Nat]
        /\ NoRecovery.at # "fenced"
    BY DEF NoRecovery
  <2> QED
    BY <1>1, <1>2, <2>1 DEF EpochsKnown
<1>8. Drained(h)'
  BY <1>4 DEF Drained
<1>9. DrainInvariant'
  BY <1>1, <1>2, <1>4, <1>7, <1>8, DrainHere DEF HostInvariant
<1> QED
  BY <1>1, <1>2, <1>6, <1>9, MovedMails, MovedObeys DEF StepGood, HostInvariant

-----------------------------------------------------------------------------
(* What every step keeps, and what follows from it                         *)

LEMMA HostsStart == Init => HostInvariant /\ Mail!MailInit
<1> SUFFICES ASSUME Init
             PROVE  HostInvariant /\ Mail!MailInit
  OBVIOUS
<1>1. /\ registry = EmptyRegistry /\ forwards = [m \in Ids |-> 0]
      /\ attempts = [h \in Hosts |-> NoAttempts]
      /\ recovery = [h \in Hosts |-> NoRecovery]
      /\ \A h \in Hosts : owned[h] \in {0, 1}
      /\ DOMAIN owned = Hosts
      /\ owned = [h \in Hosts |-> owned[h]]
  BY DEF Init
<1>2. Sound(registry) /\ registry.epoch = 1
  BY <1>1, EmptySound DEF EmptyRegistry
<1>3. \A m \in Ids : LifeIn(registry, m) = "absent"
  BY <1>1, LimitsAssumption DEF LifeIn, EmptyRegistry, Ids
<1>4. \A h \in Hosts : DOMAIN attempts[h] = {}
  BY <1>1 DEF NoAttempts
<1>5. MailInvariant
  BY <1>1, <1>2, <1>4
     DEF MailInvariant, AttemptsTyped, HoldersFit, HoldersAlone, RunsCounted
<1>6. DrainInvariant
  <2>1. EpochsKnown
    BY <1>1, <1>2 DEF EpochsKnown, NoRecovery
  <2> QED
    BY <1>4, <2>1 DEF DrainInvariant, Drained
<1>7. Mail!MailInit
  <2>1. Life = [m \in Ids |-> "absent"]
    BY <1>3 DEF Life, LifeIn
  <2> QED
    BY <1>1, <2>1 DEF Mail!MailInit
<1> QED
  BY <1>5, <1>6, <1>7 DEF HostInvariant

LEMMA HostsStep == HostInvariant /\ [Next]_vars => StepGood
<1> SUFFICES ASSUME HostInvariant, [Next]_vars
             PROVE  StepGood
  OBVIOUS
<1>1. CASE UNCHANGED vars
  <2>1. UNCHANGED <<registry, attempts, owned, recovery, forwards, unfenced>>
    BY <1>1 DEF vars, hostVars, history
  <2>2. Moved(NoMessage) /\ Quiet
    BY <2>1, SameSnapshot, QuietSame DEF HostInvariant, MailInvariant
  <2> QED
    BY <2>1, <2>2, MutationStep
<1>2. ASSUME NEW h \in Hosts, ClientStep(h)
      PROVE  StepGood
  BY <1>2, SpawnStep, SendStep, CancelStep, DisposeStep DEF ClientStep
<1>3. ASSUME NEW h \in Hosts, DispatchStep(h)
      PROVE  StepGood
  BY <1>3, DropStep, DispatchesStep, DispatchSlowlyStep, AnswerLateStep,
     ForwardStep, CompleteStep, FinishStep DEF DispatchStep
<1>4. ASSUME NEW h \in Hosts, HostStep(h)
      PROVE  StepGood
  BY <1>4, ScheduleStep, FenceStep, TakeOverStep, ResumeStep DEF HostStep
<1>5. ASSUME NEW h \in Hosts, FaultStep(h)
      PROVE  StepGood
  BY <1>5, LoadFailsStep, ClaimAnswerLostStep, FenceAnswerLostStep,
     CompletionLostStep, ResumeRecoveryJobStep, CrashStep, CloseStep
     DEF FaultStep
<1> QED
  BY <1>1, <1>2, <1>3, <1>4, <1>5 DEF Next

(* The snapshot is sound, whoever may run a message holds it alone, and a  *)
(* host drains as a whole, whatever the hosts do.                          *)
THEOREM HostsAlways == Spec => []HostInvariant
<1>1. Init => HostInvariant
  BY HostsStart
<1>2. HostInvariant /\ [Next]_vars => HostInvariant'
  BY HostsStep DEF StepGood
<1> QED
  BY <1>1, <1>2, PTL DEF Spec

(* The hosts, whatever they share, lose and recover, keep what SessionMail *)
(* promises of every message: it runs at most once, ends at most once, is  *)
(* confirmed as completed only when it ran, and never runs again after a   *)
(* fence.                                                                  *)
THEOREM HostsKeepPromise == Spec => MailSpec
<1>1. Init => Mail!MailInit
  BY HostsStart
<1>2. HostInvariant /\ [Next]_vars => [Mail!MailNext]_(Mail!mailVars)
  BY HostsStep DEF StepGood
<1> QED
  BY <1>1, <1>2, HostsAlways, PTL DEF Spec, MailSpec, Mail!MailSpec

(* What was asked to cancel is never confirmed as completed or failed, and *)
(* a cancelled root starts nothing, in every step of the hosts.            *)
THEOREM CancellationIsFinal == Spec => CancellationFinal
<1>1. HostInvariant /\ [Next]_vars => CancelsObeyed
  BY HostsStep DEF StepGood
<1> QED
  BY <1>1, HostsAlways, PTL DEF Spec, CancellationFinal, CancelsObeyed

(* A host that took every epoch over with a drain never runs the agent of  *)
(* a session on two messages at once.                                      *)
THEOREM SessionsRunAlone == Spec => []DrainedBeforeReplaced
<1>1. HostInvariant => DrainedBeforeReplaced
  BY DEF HostInvariant, DrainInvariant, Drained, Holder, DrainedBeforeReplaced,
         Overlapping
<1> QED
  BY <1>1, HostsAlways, PTL

-----------------------------------------------------------------------------
(* The budget: what a root has spent, reserved and been charged changes    *)
(* only with a claim, which must fit, and with the usage of a run.         *)

LEMMA CommittedType ==
    ASSUME NEW r, Sound(r)
    PROVE  Committed(r) \in Int
BY SnapshotFields DEF Sound, Committed, Durable

\* Two snapshots that the same tokens are committed of.
Even(r, q) == r.usage = q.usage /\ r.unknown + r.reserved = q.unknown + q.reserved

LEMMA EvenCommitted ==
    ASSUME NEW r, Sound(r), NEW q, Sound(q), Even(r, q)
    PROVE  Committed(q) = Committed(r)
BY SnapshotFields DEF Sound, Committed, Durable, Even

LEMMA EvenMutations ==
    ASSUME NEW r, Sound(r)
    PROVE  /\ Even(r, Reconciled(r)) /\ Even(r, StopExhausted(r))
           /\ Even(r, Rotated(r))
           /\ \A p \in Nat : Even(r, Spawned(r, p)) /\ Even(r, CancelledUnder(r, p))
           /\ \A s \in Sessions(r), mode \in {"steer", "follow-up"} :
                Even(r, Sent(r, s, mode))
<1>1. r \in Snapshot
  BY DEF Sound
<1>2. Even(r, Reconciled(r))
  BY <1>1 DEF Even, Reconciled, Snapshot
<1>3. Even(r, StopExhausted(r))
  BY <1>1 DEF Even, StopExhausted, Snapshot
<1>4. Even(r, Rotated(r))
  BY <1>1 DEF Even, Rotated, Snapshot
<1>5. ASSUME NEW p \in Nat
      PROVE  Even(r, Spawned(r, p)) /\ Even(r, CancelledUnder(r, p))
  <2>1. Even(r, Spawned(r, p))
    BY <1>1 DEF Even, Spawned, Snapshot
  <2>2. Even(r, CancelledUnder(r, p))
    BY <1>1 DEF Even, CancelledUnder, Snapshot
  <2> QED
    BY <2>1, <2>2
<1>6. ASSUME NEW s \in Sessions(r), NEW mode \in {"steer", "follow-up"}
      PROVE  Even(r, Sent(r, s, mode))
  BY <1>1 DEF Even, Sent, Snapshot
<1> QED
  BY <1>2, <1>3, <1>4, <1>5, <1>6

\* How many tokens some messages hold reserved.
LEMMA ReservedNumber ==
    ASSUME NEW r, Sound(r), NEW M \in SUBSET DOMAIN r.mail
    PROVE  ReservedBy(r, M) \in Int
<1>1. IsFiniteSet(Ids)
  BY LimitsAssumption, FS_Interval DEF Ids
<1>2. M \subseteq Ids
  BY SnapshotFields DEF Sound
<1>3. IsFiniteSet({m \in M : r.mail[m].reserved})
  BY <1>1, <1>2, FS_Subset
<1>4. Cardinality({m \in M : r.mail[m].reserved}) \in Nat
  BY <1>3, FS_CardinalityType
<1> QED
  BY <1>4, LimitsAssumption DEF ReservedBy

\* A disposal charges what it was still running.
LEMMA DisposedEven ==
    ASSUME NEW r, Sound(r), NEW target \in Sessions(r)
    PROVE  Even(r, Disposed(r, target))
<1> DEFINE gone == {m \in DOMAIN r.mail : r.mail[m].session \in Under(r, target)}
           running == ReservedBy(r, gone \cap InStatus(r, "running"))
           q == Disposed(r, target)
<1>1. r \in Snapshot /\ r.reserved \in Int /\ r.unknown \in Int
  BY SnapshotFields DEF Sound
<1>2. running \in Int
  BY ReservedNumber
<1>3. /\ q.usage = r.usage /\ q.reserved = r.reserved - running
      /\ q.unknown = r.unknown + running
  BY <1>1 DEF Disposed, Snapshot
<1> HIDE DEF running, q
<1>4. Even(r, q)
  BY <1>1, <1>2, <1>3 DEF Even
<1> QED
  BY <1>4 DEF q

\* So does a fence.
LEMMA InterruptedEven ==
    ASSUME NEW r, Sound(r)
    PROVE  Even(r, Interrupted(r))
<1> DEFINE running == InStatus(r, "running")
           charge == ReservedBy(r, running)
           letters == [m \in DOMAIN r.mail |->
             IF m \in running
             THEN [r.mail[m] EXCEPT !.status = "outcome_unknown", !.cancel = FALSE]
             ELSE r.mail[m]]
           homes == [s \in DOMAIN r.session |->
             IF Mailbox(r, s) \cap running = {} THEN r.session[s]
             ELSE [r.session[s] EXCEPT !.active = NoMessage, !.status = "interrupted"]]
           fenced == [r EXCEPT !.mail = letters, !.reserved = @ - charge,
                               !.unknown = @ + charge, !.session = homes]
           marked == [fenced EXCEPT !.status = "interrupted"]
           q == Interrupted(r)
<1>1. r \in Snapshot /\ r.reserved \in Int /\ r.unknown \in Int
  BY SnapshotFields DEF Sound
<1>2. charge \in Int
  BY ReservedNumber DEF InStatus
<1>3. q \in {fenced, marked, StopExhausted(marked)}
  BY DEF Interrupted
<1> HIDE DEF charge, letters, homes, q
<1>4. Even(r, fenced) /\ Even(r, marked)
  BY <1>1, <1>2 DEF Even, Snapshot
<1>5. Even(r, StopExhausted(marked))
  <2>1. /\ StopExhausted(marked).usage = marked.usage
        /\ StopExhausted(marked).unknown = marked.unknown
        /\ StopExhausted(marked).reserved = marked.reserved
    BY <1>1 DEF StopExhausted, Snapshot
  <2> HIDE DEF marked
  <2> QED
    BY <1>4, <2>1 DEF Even
<1>6. Even(r, q)
  BY <1>3, <1>4, <1>5
<1> QED
  BY <1>6 DEF q

LEMMA ClaimedCommitted ==
    ASSUME NEW r, Sound(r), NEW m, MayClaim(r, m, r.epoch)
    PROVE  Committed(Claimed(r, m)) <= MaxTokens
<1> DEFINE q == Claimed(r, m)
<1>1. r \in Snapshot /\ r.reserved \in Int /\ r.unknown \in Int /\ r.usage \in Int
  BY SnapshotFields DEF Sound
<1>2. /\ q.usage = r.usage /\ q.unknown = r.unknown
      /\ q.reserved = r.reserved + MaxTokensPerMessage
  BY <1>1 DEF Claimed, Snapshot
<1>3. r.usage + r.unknown + r.reserved + MaxTokensPerMessage <= MaxTokens
  BY DEF MayClaim, Committed, Durable
<1> HIDE DEF q
<1>4. Committed(q) <= MaxTokens
  BY <1>1, <1>2, <1>3, LimitsAssumption DEF Committed, Durable
<1> QED
  BY <1>4 DEF q

LEMMA SettledCommitted ==
    ASSUME NEW r, Sound(r), NEW m \in DOMAIN r.mail, r.mail[m].status = "running",
           NEW outcome \in {"completed", "failed", "cancelled"}, NEW tokens \in Int,
           r.mail[m].cancel => outcome = "cancelled"
    PROVE  Committed(Settled(r, m, outcome, tokens))
             = Committed(r) + tokens - MaxTokensPerMessage
<1> DEFINE s == r.mail[m].session
           letter == [r.mail[m] EXCEPT !.status = outcome, !.reserved = FALSE,
                                       !.usage = tokens]
           rest == IF outcome # "cancelled" THEN outcome
                   ELSE IF Pending(r, s) # {} THEN "queued" ELSE "cancelled"
           homes == [t \in DOMAIN r.session |->
             IF t = s
             THEN [r.session[t] EXCEPT !.active = NoMessage,
                                       !.usage = r.session[t].usage + tokens,
                                       !.status = rest]
             ELSE IF s \in Under(r, t)
                  THEN [r.session[t] EXCEPT !.descendantUsage = @ + tokens]
             ELSE r.session[t]]
           letters == [r.mail EXCEPT ![m] = letter]
           ended == [r EXCEPT !.mail = letters, !.reserved = @ - MaxTokensPerMessage,
                              !.usage = @ + tokens, !.session = homes]
           q == Settled(r, m, outcome, tokens)
<1>1. r \in Snapshot /\ r.reserved \in Int /\ r.unknown \in Int /\ r.usage \in Int
  BY SnapshotFields DEF Sound
<1>2. q = IF Exhausted(ended) THEN StopExhausted(ended) ELSE ended
  BY DEF Settled
<1> HIDE DEF letters, homes, q
<1>3. /\ ended.usage = r.usage + tokens /\ ended.unknown = r.unknown
      /\ ended.reserved = r.reserved - MaxTokensPerMessage
  BY <1>1 DEF Snapshot
<1>4. /\ StopExhausted(ended).usage = ended.usage
      /\ StopExhausted(ended).unknown = ended.unknown
      /\ StopExhausted(ended).reserved = ended.reserved
  BY <1>1 DEF StopExhausted, Snapshot
<1> HIDE DEF ended
<1>5. /\ q.usage = ended.usage /\ q.unknown = ended.unknown
      /\ q.reserved = ended.reserved
  BY <1>2, <1>4
<1>6. Committed(q) = Committed(r) + tokens - MaxTokensPerMessage
  BY <1>1, <1>3, <1>5, LimitsAssumption DEF Committed, Durable
<1> QED
  BY <1>6 DEF q

BudgetInvariant ==
  /\ overrun \in Nat /\ BudgetHeld

LEMMA MaxOfTwo ==
    ASSUME NEW a \in Int
    PROVE  Max({0, a}) \in Nat /\ a <= Max({0, a})
<1> DEFINE top == IF a > 0 THEN a ELSE 0
<1>1. \E x \in {0, a} : \A y \in {0, a} : x >= y
  <2>1. top \in {0, a} /\ \A y \in {0, a} : top >= y
    OBVIOUS
  <2> QED
    BY <2>1
<1>2. Max({0, a}) \in {0, a} /\ \A y \in {0, a} : Max({0, a}) >= y
  BY <1>1 DEF Max
<1> QED
  BY <1>2

\* A step that commits the same tokens, or claims what fits.
LEMMA EvenStep ==
    ASSUME HostInvariant, BudgetInvariant, NEW q, Sound(q),
           registry' = Reconciled(q), overrun' = overrun,
           Even(registry, q) \/ Committed(q) <= MaxTokens
    PROVE  BudgetInvariant'
<1>1. Sound(registry) /\ Sound(registry') /\ Committed(registry) \in Int
  BY ReconciledSound, CommittedType DEF HostInvariant, MailInvariant
<1>2. Committed(registry') = Committed(q)
  BY <1>1, EvenMutations, EvenCommitted
<1>3. Committed(q) = Committed(registry) \/ Committed(q) <= MaxTokens
  BY <1>1, EvenCommitted
<1>4. Committed(q) \in Int
  BY CommittedType
<1> QED
  BY <1>1, <1>2, <1>3, <1>4, LimitsAssumption DEF BudgetInvariant, BudgetHeld

LEMMA SavedBudget ==
    ASSUME HostInvariant, BudgetInvariant, NEW j, StillRunning(j), NEW attempt,
           SaveOutcome(attempt, j.msg)
    PROVE  BudgetInvariant'
<1> DEFINE m == j.msg
<1>1. /\ Sound(registry) /\ Committed(registry) \in Int
      /\ m \in DOMAIN registry.mail /\ registry.mail[m].status = "running"
  BY CommittedType DEF HostInvariant, MailInvariant, StillRunning, InStatus
<1>2. PICK outcome \in {"completed", "failed"}, tokens \in Int :
        Save(attempt, m, outcome, tokens)
  <2>1. CASE Save(attempt, m, "failed", 0)
    BY <2>1
  <2>2. CASE \E outcome \in Outcomes, tokens \in Usages :
               Save(attempt, m, outcome, tokens)
    <3>1. Outcomes \subseteq {"completed", "failed"} /\ Usages \subseteq Int
      BY HostsAssumption, UsagesAssumption
    <3> QED
      BY <2>2, <3>1
  <2> QED
    BY <2>1, <2>2 DEF SaveOutcome
<1> DEFINE discarded == registry.mail[m].cancel \/ attempt.aborted
           result == IF discarded THEN "cancelled" ELSE outcome
           q == Settled(registry, m, result, tokens)
           excess == tokens - MaxTokensPerMessage
<1>3. registry' = Reconciled(q) /\ overrun' = overrun + Max({0, excess})
  BY <1>2 DEF Save
<1>4. /\ result \in {"completed", "failed", "cancelled"}
      /\ registry.mail[m].cancel => result = "cancelled"
  OBVIOUS
<1> HIDE DEF result
<1>5. Sound(q) /\ Committed(q) = Committed(registry) + tokens - MaxTokensPerMessage
  BY <1>1, <1>4, SettledSound, SettledCommitted
<1> HIDE DEF q
<1>6. Committed(registry') = Committed(q)
  <2>1. Sound(registry')
    BY <1>3, <1>5, ReconciledSound
  <2> QED
    BY <1>3, <1>5, <2>1, EvenMutations, EvenCommitted
<1>7. excess \in Int /\ Committed(registry') = Committed(registry) + excess
  BY <1>1, <1>5, <1>6, LimitsAssumption
<1> HIDE DEF excess
<1>8. Max({0, excess}) \in Nat /\ excess <= Max({0, excess})
  BY <1>7, MaxOfTwo
<1> QED
  BY <1>1, <1>3, <1>7, <1>8, LimitsAssumption DEF BudgetInvariant, BudgetHeld

LEMMA ClaimBudget ==
    ASSUME HostInvariant, BudgetInvariant, NEW j, MayClaim(registry, j.msg, j.epoch),
           registry' = Reconciled(Claimed(registry, j.msg)), overrun' = overrun
    PROVE  BudgetInvariant'
<1>1. Sound(registry) /\ j.epoch = registry.epoch
  BY DEF HostInvariant, MailInvariant, MayClaim
<1>2. /\ Sound(Claimed(registry, j.msg))
      /\ Committed(Claimed(registry, j.msg)) <= MaxTokens
  BY <1>1, ClaimedSound, ClaimedCommitted
<1> QED
  BY <1>2, EvenStep

LEMMA FenceBudget ==
    ASSUME HostInvariant, BudgetInvariant, registry' = Fenced, overrun' = overrun
    PROVE  BudgetInvariant'
<1> DEFINE p == Interrupted(registry)
           q == Rotated(p)
<1>1. Sound(registry)
  BY DEF HostInvariant, MailInvariant
<1>2. Sound(p) /\ Advances(registry, p, NoMessage) /\ Even(registry, p)
  BY <1>1, InterruptedSound, InterruptedEven
<1> HIDE DEF p
<1>3. Sound(q) /\ Even(p, q)
  BY <1>1, <1>2, RotatedSound, EvenMutations
<1>4. registry' = Reconciled(q)
  BY DEF Fenced, p
<1> HIDE DEF q
<1>5. Even(registry, q)
  BY <1>2, <1>3 DEF Even
<1> QED
  BY <1>3, <1>4, <1>5, EvenStep

LEMMA BudgetStep ==
    ASSUME HostInvariant, BudgetInvariant, [Next]_vars
    PROVE  BudgetInvariant'
<1>1. Sound(registry)
  BY DEF HostInvariant, MailInvariant
<1>2. CASE registry' = registry /\ overrun' = overrun
  BY <1>2 DEF BudgetInvariant, BudgetHeld
<1>3. CASE UNCHANGED vars
  BY <1>2, <1>3 DEF vars, history
<1>4. ASSUME NEW h \in Hosts, Spawn(h)
      PROVE  BudgetInvariant'
  <2>1. PICK p \in Sessions(registry) \cup {Root} :
          /\ MayAdmitChild(registry, p)
          /\ registry' = Reconciled(Spawned(registry, p))
    BY <1>4 DEF Spawn
  <2>2. p \in Nat
    BY <1>1, SnapshotFields, IdsAreNumbers DEF Sound, Sessions, Root
  <2>3. Sound(Spawned(registry, p)) /\ Even(registry, Spawned(registry, p))
    BY <1>1, <2>1, <2>2, SpawnedSound, EvenMutations
  <2> QED
    BY <1>4, <2>1, <2>3, EvenStep DEF Spawn, history
<1>5. ASSUME NEW h \in Hosts, Send(h)
      PROVE  BudgetInvariant'
  <2>1. PICK s \in Sessions(registry), mode \in Modes :
          /\ MaySend(registry, s)
          /\ registry' = Reconciled(Sent(registry, s, mode))
    BY <1>5 DEF Send
  <2>2. mode \in {"steer", "follow-up"}
    BY HostsAssumption
  <2>3. Sound(Sent(registry, s, mode)) /\ Even(registry, Sent(registry, s, mode))
    BY <1>1, <2>1, <2>2, SentSound, EvenMutations
  <2> QED
    BY <1>5, <2>1, <2>3, EvenStep DEF Send, history
<1>6. ASSUME NEW h \in Hosts, Cancel(h)
      PROVE  BudgetInvariant'
  <2>1. PICK target \in Sessions(registry) \cup {Root} :
          registry' = Reconciled(CancelledUnder(registry, target))
    BY <1>6 DEF Cancel
  <2>2. target \in Nat
    BY <1>1, SnapshotFields, IdsAreNumbers DEF Sound, Sessions, Root
  <2>3. /\ Sound(CancelledUnder(registry, target))
        /\ Even(registry, CancelledUnder(registry, target))
    BY <1>1, <2>2, CancelledSound, EvenMutations
  <2> QED
    BY <1>6, <2>1, <2>3, EvenStep DEF Cancel
<1>7. ASSUME NEW h \in Hosts, Dispose(h)
      PROVE  BudgetInvariant'
  <2>1. PICK target \in Sessions(registry) :
          registry' = Reconciled(Disposed(registry, target))
    BY <1>7 DEF Dispose
  <2>2. Sound(Disposed(registry, target)) /\ Even(registry, Disposed(registry, target))
    BY <1>1, DisposedSound, DisposedEven
  <2> QED
    BY <1>7, <2>1, <2>2, EvenStep DEF Dispose
<1>8. ASSUME NEW h \in Hosts, DispatchStep(h)
      PROVE  BudgetInvariant'
  <2>1. CASE Drop(h)
    BY <1>2, <2>1 DEF Drop
  <2>2. CASE Dispatch(h)
    BY <1>2, <2>2, ClaimBudget DEF Dispatch, ClaimOrSkip, history
  <2>3. CASE DispatchSlowly(h)
    BY <1>2, <2>3 DEF DispatchSlowly, history
  <2>4. CASE AnswerLate(h)
    BY <1>2, <2>4, ClaimBudget DEF AnswerLate, ClaimOrSkip, history
  <2>5. CASE Forward(h)
    BY <1>2, <2>5 DEF Forward
  <2>6. CASE Complete(h)
    <3>1. \E j : \/ /\ StillRunning(j)
                    /\ SaveOutcome(attempts[h][j], j.msg)
                 \/ registry' = registry /\ overrun' = overrun
      BY <2>6 DEF Complete
    <3> QED
      BY <1>2, <3>1, SavedBudget
  <2>7. CASE Finish(h)
    BY <1>2, <2>7 DEF Finish, history
  <2> QED
    BY <1>8, <2>1, <2>2, <2>3, <2>4, <2>5, <2>6, <2>7 DEF DispatchStep
<1>9. ASSUME NEW h \in Hosts, HostStep(h)
       PROVE  BudgetInvariant'
  <2>1. CASE Schedule(h)
    BY <1>2, <2>1 DEF Schedule, history
  <2>2. CASE Fence(h)
    BY <2>2, FenceBudget DEF Fence, history
  <2>3. CASE TakeOver(h)
    BY <1>2, <2>3 DEF TakeOver, history
  <2>4. CASE Resume(h)
    BY <1>2, <2>4 DEF Resume, history
  <2> QED
    BY <1>9, <2>1, <2>2, <2>3, <2>4 DEF HostStep
<1>10. ASSUME NEW h \in Hosts, FaultStep(h)
       PROVE  BudgetInvariant'
  <2>1. CASE LoadFails(h)
    BY <1>2, <2>1 DEF LoadFails, history
  <2>2. CASE ClaimAnswerLost(h)
    BY <2>2, ClaimBudget DEF ClaimAnswerLost, history
  <2>3. CASE FenceAnswerLost(h)
    BY <2>3, FenceBudget DEF FenceAnswerLost, history
  <2>4. CASE CompletionLost(h)
    <3>1. \E j : \/ /\ StillRunning(j)
                    /\ SaveOutcome(attempts[h][j], j.msg)
                 \/ registry' = registry /\ overrun' = overrun
      BY <2>4 DEF CompletionLost
    <3> QED
      BY <1>2, <3>1, SavedBudget
  <2>5. CASE ResumeRecoveryJob(h) \/ Crash(h) \/ Close(h)
    BY <1>2, <2>5 DEF ResumeRecoveryJob, Crash, Close, history
  <2> QED
    BY <1>10, <2>1, <2>2, <2>3, <2>4, <2>5 DEF FaultStep
<1> QED
  BY <1>3, <1>4, <1>5, <1>6, <1>7, <1>8, <1>9, <1>10 DEF Next, ClientStep

(* What a root has spent, reserved and been charged exceeds its budget by  *)
(* no more than its runs reported beyond their reservations, however hosts *)
(* crash, fence and dispose of what runs.                                  *)
THEOREM BudgetIsHeld == Spec => []BudgetHeld
<1>1. Init => BudgetInvariant
  <2> SUFFICES ASSUME Init PROVE BudgetInvariant
    OBVIOUS
  <2>1. Committed(registry) = 0 /\ overrun = 0
    BY DEF Init, EmptyRegistry, Committed, Durable
  <2> QED
    BY <2>1, LimitsAssumption DEF BudgetInvariant, BudgetHeld
<1>2. HostInvariant /\ BudgetInvariant /\ [Next]_vars => BudgetInvariant'
  BY BudgetStep
<1>3. BudgetInvariant => BudgetHeld
  BY DEF BudgetInvariant
<1> QED
  BY <1>1, <1>2, <1>3, HostsAlways, PTL DEF Spec

-----------------------------------------------------------------------------
(* validateSnapshot.  Its counts are cardinalities of sets of admission    *)
(* numbers, and its sums are sums over such sets.                          *)

LEMMA IdsFinite == \A M \in SUBSET Ids : IsFiniteSet(M) /\ Cardinality(M) \in Nat
<1>1. IsFiniteSet(Ids)
  BY LimitsAssumption, FS_Interval DEF Ids
<1> QED
  BY <1>1, FS_Subset, FS_CardinalityType

\* What a session and all under it reported, and what a message reported.
Share(r) == [s \in Sessions(r) |-> r.session[s].usage + r.session[s].descendantUsage]

Reports(r) == [m \in DOMAIN r.mail |-> r.mail[m].usage]

Reported(r, M) == {m \in M : r.mail[m].usage # NoUsage}

LEMMA SharesTyped ==
    ASSUME NEW r \in Snapshot
    PROVE  /\ \A s \in Sessions(r) :
                /\ Share(r)[s] = r.session[s].usage + r.session[s].descendantUsage
                /\ Share(r)[s] \in Int
           /\ \A m \in DOMAIN r.mail :
                Reports(r)[m] = r.mail[m].usage /\ Reports(r)[m] \in Int
<1>1. /\ \A s \in Sessions(r) : r.session[s] \in SessionRecord
      /\ \A m \in DOMAIN r.mail : r.mail[m] \in Message
  BY SnapshotFields DEF Sessions
<1>2. /\ \A s \in Sessions(r) :
           r.session[s].usage \in Int /\ r.session[s].descendantUsage \in Int
      /\ \A m \in DOMAIN r.mail : r.mail[m].usage \in Int
  BY <1>1 DEF SessionRecord, Message
<1> QED
  BY <1>2 DEF Share, Reports

LEMMA SubtreeUsageIs ==
    ASSUME NEW r \in Snapshot, NEW p
    PROVE  /\ SubtreeUsage(r, p) = Total(Share(r), Children(r, p))
           /\ SubtreeUsage(r, p) \in Int
<1> DEFINE S == Children(r, p)
           g == Share(r)
           part(s) == r.session[s].usage + r.session[s].descendantUsage
           Picked(s) == CHOOSE x \in s : TRUE
           Body(h) == [s \in SUBSET S |-> IF s = {} THEN 0
                                          ELSE part(Picked(s)) + h[s \ {Picked(s)}]]
           iter == CHOOSE h : h = Body(h)
<1>1. SubtreeUsage(r, p) = iter[S]
  BY DEF SubtreeUsage, MapThenSumSet, MapThenFoldSet
<1>2. S \in SUBSET Sessions(r)
  BY DEF Children
<1>3. IsFiniteSet(S) /\ \A s \in S : g[s] \in Int /\ g[s] = part(s)
  BY <1>2, IdsFinite, SnapshotFields, SharesTyped DEF Sessions
<1>4. \A s \in SUBSET S : s # {} => Picked(s) \in S
  OBVIOUS
<1> HIDE DEF Picked, g, S, part
<1>5. \A h : Body(h) = [s \in SUBSET S |-> IF s = {} THEN 0
                                           ELSE g[Picked(s)] + h[s \ {Picked(s)}]]
  BY <1>3, <1>4
<1> HIDE DEF Body
<1>6. \A h : Sums(h, g, S) <=> h = Body(h)
  BY <1>5 DEF Sums, Picked
<1>7. \E h : h = Body(h)
  BY <1>3, <1>6, SumsExist
<1>8. Sums(iter, g, S)
  BY <1>6, <1>7
<1> HIDE DEF iter
<1>9. iter[S] = Total(g, S) /\ Total(g, S) \in Int
  BY <1>3, <1>8, SumsTotal, TotalType
<1> QED
  BY <1>1, <1>9 DEF g, S

LEMMA UsedIs ==
    ASSUME NEW r \in Snapshot, NEW M \in SUBSET DOMAIN r.mail
    PROVE  /\ Used(r, M) = Total(Reports(r), Reported(r, M))
           /\ Used(r, M) \in Int
<1> DEFINE S == Reported(r, M)
           g == Reports(r)
           part(m) == r.mail[m].usage
           Picked(s) == CHOOSE x \in s : TRUE
           Body(h) == [s \in SUBSET S |-> IF s = {} THEN 0
                                          ELSE part(Picked(s)) + h[s \ {Picked(s)}]]
           iter == CHOOSE h : h = Body(h)
<1>1. Used(r, M) = iter[S]
  BY DEF Used, Reported, MapThenSumSet, MapThenFoldSet
<1>2. S \in SUBSET DOMAIN r.mail
  BY DEF Reported
<1>3. IsFiniteSet(S) /\ \A s \in S : g[s] \in Int /\ g[s] = part(s)
  BY <1>2, IdsFinite, SnapshotFields, SharesTyped
<1>4. \A s \in SUBSET S : s # {} => Picked(s) \in S
  OBVIOUS
<1> HIDE DEF Picked, g, S, part
<1>5. \A h : Body(h) = [s \in SUBSET S |-> IF s = {} THEN 0
                                           ELSE g[Picked(s)] + h[s \ {Picked(s)}]]
  BY <1>3, <1>4
<1> HIDE DEF Body
<1>6. \A h : Sums(h, g, S) <=> h = Body(h)
  BY <1>5 DEF Sums, Picked
<1>7. \E h : h = Body(h)
  BY <1>3, <1>6, SumsExist
<1>8. Sums(iter, g, S)
  BY <1>6, <1>7
<1> HIDE DEF iter
<1>9. iter[S] = Total(g, S) /\ Total(g, S) \in Int
  BY <1>3, <1>8, SumsTotal, TotalType
<1> QED
  BY <1>1, <1>9 DEF g, S

-----------------------------------------------------------------------------
(* Lines of descent.                                                       *)

\* Who is under a child of t is under t, and under no other child of t; and
\* a session under t, other than t, is under a child of t.
LEMMA UnderChildren ==
    ASSUME NEW r, Sound(r), NEW t \in Sessions(r) \cup {Root}, NEW s \in Sessions(r)
    PROVE  /\ s \in Under(r, s)
           /\ s \in Under(r, t) => t <= s
           /\ \A c \in Children(r, t) : s \in Under(r, c) => s \in Under(r, t) /\ s # t
           /\ \A c, d \in Children(r, t) :
                s \in Under(r, c) /\ s \in Under(r, d) => c = d
           /\ s \in Under(r, t) /\ s # t => \E c \in Children(r, t) : s \in Under(r, c)
<1> DEFINE n == r.admittedSubcalls
           Descends(x) ==
             /\ \A c \in Sessions(r) \cup {Root} : x \in Under(r, c) => c <= x
             /\ \A c \in Children(r, t) : x \in Under(r, c) => x \in Under(r, t)
             /\ \A c, d \in Children(r, t) :
                  x \in Under(r, c) /\ x \in Under(r, d) => c = d
             /\ x \in Under(r, t) /\ x # t => \E c \in Children(r, t) : x \in Under(r, c)
           G == {k \in Nat : \A x \in Sessions(r) \cap (1 .. k) : Descends(x)}
<1>1. Rooted(r) /\ n \in Nat /\ Sessions(r) \subseteq 1 .. n
  BY SnapshotFields DEF Sound, Numbered
<1>2. \A x \in Sessions(r) : x \in Nat /\ x # Root
  BY <1>1 DEF Root
<1>3. \A c \in Children(r, t) : c \in Sessions(r) /\ r.session[c].parent = t /\ t < c
  BY <1>1 DEF Children, Rooted
<1>4. \A x \in Sessions(r) :
        /\ x \in Under(r, x)
        /\ r.session[x].parent \in Sessions(r) \cup {Root} /\ r.session[x].parent < x
  BY <1>1, UnderIs DEF Rooted
<1>5. 0 \in G
  OBVIOUS
<1>6. ASSUME NEW k \in 0 .. (n - 1), k \in G
      PROVE  k + 1 \in G
  <2>1. ASSUME k + 1 \in Sessions(r)
        PROVE  Descends(k + 1)
    <3> DEFINE x == k + 1
               p == r.session[x].parent
    <3>1. p \in Nat /\ p < x /\ p \in Sessions(r) \cup {Root} /\ x \in Sessions(r)
      BY <1>2, <1>4, <2>1 DEF Root
    <3>2. p # Root => p \in Sessions(r) \cap (1 .. k)
      BY <1>2, <3>1 DEF Root
    <3>3. p # Root => Descends(p) /\ p \in Under(r, p)
      BY <1>4, <1>6, <3>2
    <3>4. x \in Nat
      BY <1>6
    <3>5. \A c : x \in Under(r, c) <=> x = c \/ p = c \/ (p # Root /\ p \in Under(r, c))
      BY <3>1, UnderIs
    <3> HIDE DEF x, p
    <3>6. \A c \in Sessions(r) \cup {Root} : x \in Under(r, c) => c <= x
      BY <1>2, <3>1, <3>3, <3>4, <3>5 DEF Root
    <3>7. ASSUME NEW c \in Children(r, t), x \in Under(r, c)
          PROVE  x \in Under(r, t)
      <4>1. r.session[c].parent = t /\ c \in Sessions(r) /\ c # Root
        BY <1>2, <1>3
      <4>2. CASE x = c
        BY <3>5, <4>1, <4>2 DEF p
      <4>3. CASE p = c
        BY <3>1, <3>5, <4>1, <4>3, UnderIs
      <4>4. CASE p # Root /\ p \in Under(r, c)
        BY <3>3, <3>5, <4>4
      <4> QED
        BY <3>5, <3>7, <4>2, <4>3, <4>4
    <3>8. ASSUME NEW c \in Children(r, t), NEW d \in Children(r, t),
                 x \in Under(r, c), x \in Under(r, d)
          PROVE  c = d
      <4>1. /\ c \in Sessions(r) /\ r.session[c].parent = t /\ t < c /\ c # Root
            /\ d \in Sessions(r) /\ r.session[d].parent = t /\ t < d /\ d # Root
        BY <1>2, <1>3
      <4>2. t \in Nat
        BY <1>2 DEF Root
      <4>3. CASE x # c /\ x # d
        <5>1. p # Root /\ p \in Under(r, c) /\ p \in Under(r, d)
          BY <3>3, <3>5, <3>8, <4>1, <4>3
        <5> QED
          BY <3>3, <5>1
      <4>4. CASE x = c
        <5>1. p = t
          BY <4>1, <4>4 DEF p
        <5>2. p # d
          BY <1>2, <4>1, <4>2, <5>1
        <5>3. ~(p # Root /\ p \in Under(r, d))
          <6>1. p # Root /\ p \in Under(r, d) => d <= p
            BY <3>3, <4>1
          <6>2. d \in Nat /\ t < d
            BY <1>2, <4>1
          <6> QED
            BY <4>2, <5>1, <6>1, <6>2
        <5>4. x = d
          BY <3>5, <3>8, <5>2, <5>3
        <5> QED
          BY <4>4, <5>4
      <4>5. CASE x = d
        <5>1. p = t
          BY <4>1, <4>5 DEF p
        <5>2. p # c
          BY <1>2, <4>1, <4>2, <5>1
        <5>3. ~(p # Root /\ p \in Under(r, c))
          <6>1. p # Root /\ p \in Under(r, c) => c <= p
            BY <3>3, <4>1
          <6>2. c \in Nat /\ t < c
            BY <1>2, <4>1
          <6> QED
            BY <4>2, <5>1, <6>1, <6>2
        <5>4. x = c
          BY <3>5, <3>8, <5>2, <5>3
        <5> QED
          BY <4>5, <5>4
      <4> QED
        BY <4>3, <4>4, <4>5
    <3>9. ASSUME x \in Under(r, t), x # t
          PROVE  \E c \in Children(r, t) : x \in Under(r, c)
      <4>1. CASE p = t
        <5>1. x \in Children(r, t) /\ x \in Under(r, x)
          BY <1>4, <3>1, <4>1 DEF Children, p
        <5> QED
          BY <5>1
      <4>2. CASE p # t
        <5>1. p # Root /\ p \in Under(r, t)
          BY <3>5, <3>9, <4>2
        <5>2. PICK c \in Children(r, t) : p \in Under(r, c)
          BY <3>3, <4>2, <5>1
        <5> QED
          BY <3>5, <5>1, <5>2
      <4> QED
        BY <4>1, <4>2
    <3>10. Descends(x)
      BY <3>6, <3>7, <3>8, <3>9
    <3> QED
      BY <3>10 DEF x
  <2>2. \A x \in Sessions(r) \cap (1 .. (k + 1)) :
          x = k + 1 \/ x \in Sessions(r) \cap (1 .. k)
    OBVIOUS
  <2> HIDE DEF Descends
  <2> QED
    BY <1>6, <2>1, <2>2
<1>7. n \in G
  <2> HIDE DEF G, n
  <2> QED
    BY <1>1, <1>5, <1>6, PrefixInduction
<1>8. Descends(s)
  <2> HIDE DEF Descends
  <2> QED
    BY <1>1, <1>7
<1>9. \A c \in Children(r, t) : s \in Under(r, c) => s # t
  <2> TAKE c \in Children(r, t)
  <2>1. t \in Nat /\ t < c /\ c \in Sessions(r) /\ c \in Nat
    BY <1>2, <1>3 DEF Root
  <2>2. s \in Under(r, c) => c <= s
    BY <1>8, <2>1
  <2> QED
    BY <1>2, <2>1, <2>2
<1> QED
  BY <1>4, <1>8, <1>9

-----------------------------------------------------------------------------
(* The books of a root: what validateSnapshot checks, part by part.        *)

ChildrenCounted(r) ==
  r.admittedChildren = Cardinality(Sessions(r)) /\ r.admittedChildren <= MaxChildren

Levelled(r) ==
  \A s \in Sessions(r) :
    /\ r.session[s].depth = Depth(r, r.session[s].parent) + 1
    /\ r.session[s].depth <= MaxDepth

BoxesHold(r) ==
  \A s \in Sessions(r) :
    /\ Cardinality(Mailbox(r, s)) <= MaxRetainedMessages
    /\ Cardinality(Pending(r, s)) <= MaxPendingMessages

StatusFits(r) ==
  \A s \in Sessions(r) :
    r.session[s].active # NoMessage <=> r.session[s].status \in {"running", "cancelling"}

MailboxesSummed(r) ==
  \A s \in Sessions(r) : r.session[s].usage = Used(r, Mailbox(r, s))

SubtreesSummed(r) ==
  /\ \A s \in Sessions(r) :
       r.session[s].descendantUsage = r.session[s].retired + SubtreeUsage(r, s)
  /\ r.usage = r.retiredUsage + SubtreeUsage(r, Root)

\* Beyond the check: what waits was not started, and what runs was.
MessagesFit(r) ==
  \A m \in DOMAIN r.mail :
    /\ ValidMessage(r, m)
    /\ r.mail[m].status = "pending" => ~r.mail[m].started
    /\ r.mail[m].status = "running" => r.mail[m].started

CallsCounted(r) ==
  r.admittedSubcalls = Cardinality(DOMAIN r.mail) + r.retiredSubcalls

Charged(r) ==
  /\ r.reserved = MaxTokensPerMessage * Cardinality(InStatus(r, "running"))
  /\ r.unknown = r.retiredUnknown
                  + MaxTokensPerMessage * Cardinality(InStatus(r, "outcome_unknown"))

RoomKept(r) == Cardinality(InStatus(r, "running")) <= MaxConcurrency

Books(r) ==
  /\ ChildrenCounted(r) /\ Levelled(r) /\ BoxesHold(r) /\ StatusFits(r)
  /\ MailboxesSummed(r) /\ SubtreesSummed(r) /\ MessagesFit(r)
  /\ CallsCounted(r) /\ Charged(r) /\ RoomKept(r)

\* What runs or ended unknown holds its reservation.
LEMMA ReservedInStatus ==
    ASSUME NEW r, MessagesFit(r), NEW status \in {"running", "outcome_unknown"},
           NEW M \in SUBSET InStatus(r, status)
    PROVE  ReservedBy(r, M) = MaxTokensPerMessage * Cardinality(M)
<1>1. {m \in M : r.mail[m].reserved} = M
  BY DEF MessagesFit, ValidMessage, InStatus
<1> QED
  BY <1>1 DEF ReservedBy

LEMMA BooksValid ==
    ASSUME NEW r, Sound(r), Books(r), r.budget = ExpectedBudget(r)
    PROVE  ValidSnapshot(r)
<1>1. ASSUME NEW s \in Sessions(r)
      PROVE  ValidSession(r, s)
  <2>1. r.session[s].parent \in Sessions(r) \cup {Root}
    BY DEF Sound, Rooted
  <2>2. Mailbox(r, s) \cap InStatus(r, "running") = {r.session[s].active} \ {NoMessage}
    <3>1. \A m \in DOMAIN r.mail : m # NoMessage
      BY SnapshotFields, IdsAreNumbers DEF Sound, NoMessage
    <3> QED
      BY <3>1 DEF Sound, ActiveRuns, Mailbox, InStatus
  <2>3. Mailbox(r, s) \cap InStatus(r, "running") # {}
          <=> r.session[s].status \in {"running", "cancelling"}
    BY <2>2 DEF Books, StatusFits
  <2> QED
    BY <2>1, <2>2, <2>3
       DEF Books, Levelled, BoxesHold, MailboxesSummed, SubtreesSummed, ValidSession
<1>2. \A m \in DOMAIN r.mail : r.mail[m].session \in Sessions(r) /\ ValidMessage(r, m)
  BY DEF Sound, Housed, Books, MessagesFit
<1>3. r.admittedSubcalls <= MaxSubcalls
  BY DEF Sound, Numbered
<1>4. /\ r.reserved = ReservedBy(r, InStatus(r, "running"))
      /\ r.unknown = r.retiredUnknown + ReservedBy(r, InStatus(r, "outcome_unknown"))
  BY ReservedInStatus DEF Books, Charged
<1> QED
  BY <1>1, <1>2, <1>3, <1>4
     DEF ValidSnapshot, Books, ChildrenCounted, SubtreesSummed, CallsCounted, RoomKept

-----------------------------------------------------------------------------
(* What keeps the books.                                                   *)

\* The tree of sessions and what it used.
SameTree(r, q) ==
  /\ Sessions(q) = Sessions(r) /\ q.admittedChildren = r.admittedChildren
  /\ q.usage = r.usage /\ q.retiredUsage = r.retiredUsage
  /\ \A s \in Sessions(r) :
       /\ q.session[s].parent = r.session[s].parent
       /\ q.session[s].depth = r.session[s].depth
       /\ q.session[s].usage = r.session[s].usage
       /\ q.session[s].descendantUsage = r.session[s].descendantUsage
       /\ q.session[s].retired = r.session[s].retired

\* A session whose children are the same used as much below it.
LEMMA SameChildren ==
    ASSUME NEW r \in Snapshot, NEW q \in Snapshot, NEW p,
           Children(q, p) = Children(r, p),
           \A s \in Children(r, p) :
             /\ q.session[s].usage = r.session[s].usage
             /\ q.session[s].descendantUsage = r.session[s].descendantUsage
    PROVE  SubtreeUsage(q, p) = SubtreeUsage(r, p)
<1> DEFINE S == Children(r, p)
<1>1. S \in SUBSET Sessions(r) /\ S \in SUBSET Sessions(q)
  BY DEF Children
<1>2. IsFiniteSet(S) /\ \A s \in S : Share(r)[s] \in Int /\ Share(r)[s] = Share(q)[s]
  BY <1>1, SharesTyped, IdsFinite, SnapshotFields DEF Sessions
<1>3. Total(Share(r), S) = Total(Share(q), S)
  BY <1>2, TotalSame
<1> QED
  BY <1>3, SubtreeUsageIs

LEMMA SameTreeKept ==
    ASSUME NEW r, NEW q, Sound(r), Sound(q), SameTree(r, q)
    PROVE  /\ ChildrenCounted(r) => ChildrenCounted(q)
           /\ Levelled(r) => Levelled(q)
           /\ SubtreesSummed(r) => SubtreesSummed(q)
<1>1. r \in Snapshot /\ q \in Snapshot
  BY DEF Sound
<1>2. ChildrenCounted(r) => ChildrenCounted(q)
  BY DEF SameTree, ChildrenCounted
<1>3. Levelled(r) => Levelled(q)
  <2>1. \A s \in Sessions(r) : r.session[s].parent \in Sessions(r) \cup {Root}
    BY DEF Sound, Rooted
  <2>2. \A p \in Sessions(r) \cup {Root} : Depth(q, p) = Depth(r, p)
    BY DEF SameTree, Depth
  <2> QED
    BY <2>1, <2>2 DEF SameTree, Levelled
<1>4. \A p : Children(q, p) = Children(r, p)
  BY DEF SameTree, Children
<1>5. \A p : SubtreeUsage(q, p) = SubtreeUsage(r, p)
  BY <1>1, <1>4, SameChildren DEF SameTree, Children
<1>6. SubtreesSummed(r) => SubtreesSummed(q)
  BY <1>5 DEF SameTree, SubtreesSummed
<1> QED
  BY <1>2, <1>3, <1>6

\* Boxes that are not fuller, and not more of what waits.
LEMMA BoxesKept ==
    ASSUME NEW r, NEW q, Sound(r), BoxesHold(r), Sessions(q) \subseteq Sessions(r),
           DOMAIN q.mail \subseteq DOMAIN r.mail,
           \A m \in DOMAIN q.mail :
             /\ q.mail[m].session = r.mail[m].session
             /\ q.mail[m].status = "pending" => r.mail[m].status = "pending"
    PROVE  BoxesHold(q)
<1>1. ASSUME NEW s \in Sessions(q)
      PROVE  /\ Cardinality(Mailbox(q, s)) <= MaxRetainedMessages
             /\ Cardinality(Pending(q, s)) <= MaxPendingMessages
  <2>1. Mailbox(q, s) \in SUBSET Mailbox(r, s) /\ Pending(q, s) \in SUBSET Pending(r, s)
    BY DEF Mailbox, Pending, InStatus
  <2>2. Mailbox(r, s) \in SUBSET Ids /\ Pending(r, s) \in SUBSET Ids
    BY SnapshotFields DEF Sound, Mailbox, Pending
  <2>3. /\ Cardinality(Mailbox(q, s)) <= Cardinality(Mailbox(r, s))
        /\ Cardinality(Pending(q, s)) <= Cardinality(Pending(r, s))
    BY <2>1, <2>2, IdsFinite, FS_Subset
  <2>4. /\ Cardinality(Mailbox(q, s)) \in Nat /\ Cardinality(Mailbox(r, s)) \in Nat
        /\ Cardinality(Pending(q, s)) \in Nat /\ Cardinality(Pending(r, s)) \in Nat
    BY <2>1, <2>2, IdsFinite
  <2>5. /\ Cardinality(Mailbox(r, s)) <= MaxRetainedMessages
        /\ Cardinality(Pending(r, s)) <= MaxPendingMessages
    BY DEF BoxesHold
  <2> QED
    BY <2>3, <2>4, <2>5, LimitsAssumption
<1> QED
  BY <1>1 DEF BoxesHold

\* The same reports add up to the same usage.
LEMMA SameReports ==
    ASSUME NEW r \in Snapshot, NEW q \in Snapshot,
           NEW M \in SUBSET DOMAIN r.mail, NEW N \in SUBSET DOMAIN q.mail,
           Reported(q, N) = Reported(r, M),
           \A m \in DOMAIN q.mail \cap DOMAIN r.mail : q.mail[m].usage = r.mail[m].usage
    PROVE  Used(q, N) = Used(r, M)
<1> DEFINE S == Reported(r, M)
<1>1. S \in SUBSET DOMAIN r.mail /\ S \in SUBSET DOMAIN q.mail
  BY DEF Reported
<1>2. /\ Used(r, M) = Total(Reports(r), S)
      /\ Used(q, N) = Total(Reports(q), S)
  BY UsedIs
<1> HIDE DEF S
<1>3. IsFiniteSet(S)
  BY <1>1, IdsFinite, SnapshotFields
<1>4. \A m \in S : Reports(r)[m] \in Int /\ Reports(r)[m] = Reports(q)[m]
  BY <1>1, SharesTyped
<1>5. Total(Reports(r), S) = Total(Reports(q), S)
  BY <1>3, <1>4, TotalSame
<1> QED
  BY <1>2, <1>5

\* The tree, the mailboxes and the reports: what a change of status leaves.
SameBoxes(r, q) ==
  /\ SameTree(r, q)
  /\ DOMAIN q.mail = DOMAIN r.mail /\ q.admittedSubcalls = r.admittedSubcalls
  /\ q.retiredSubcalls = r.retiredSubcalls /\ q.retiredUnknown = r.retiredUnknown
  /\ \A m \in DOMAIN r.mail :
       /\ q.mail[m].session = r.mail[m].session /\ q.mail[m].usage = r.mail[m].usage
       /\ q.mail[m].status = "pending" => r.mail[m].status = "pending"

LEMMA SameBoxesKept ==
    ASSUME NEW r, NEW q, Sound(r), Sound(q), Books(r), SameBoxes(r, q)
    PROVE  /\ ChildrenCounted(q) /\ Levelled(q) /\ SubtreesSummed(q)
           /\ BoxesHold(q) /\ MailboxesSummed(q) /\ CallsCounted(q)
<1>1. ChildrenCounted(q) /\ Levelled(q) /\ SubtreesSummed(q)
  BY SameTreeKept DEF SameBoxes, Books
<1>2. BoxesHold(q)
  BY BoxesKept DEF SameBoxes, SameTree, Books
<1>3. MailboxesSummed(q)
  <2>1. ASSUME NEW s \in Sessions(q)
        PROVE  q.session[s].usage = Used(q, Mailbox(q, s))
    <3>1. /\ s \in Sessions(r) /\ q.session[s].usage = r.session[s].usage
          /\ Reported(q, Mailbox(q, s)) = Reported(r, Mailbox(r, s))
      BY DEF SameBoxes, SameTree, Reported, Mailbox
    <3>2. \A m \in DOMAIN q.mail \cap DOMAIN r.mail : q.mail[m].usage = r.mail[m].usage
      BY DEF SameBoxes
    <3>3. Used(q, Mailbox(q, s)) = Used(r, Mailbox(r, s))
      BY <3>1, <3>2, SameReports DEF Sound, Mailbox
    <3> QED
      BY <3>1, <3>3 DEF Books, MailboxesSummed
  <2> QED
    BY <2>1 DEF MailboxesSummed
<1>4. CallsCounted(q)
  BY DEF SameBoxes, Books, CallsCounted
<1> QED
  BY <1>1, <1>2, <1>3, <1>4

-----------------------------------------------------------------------------
(* Mutations that only withdraw what waits.                                *)

Withdraws(r, q) ==
  /\ SameBoxes(r, q) /\ q.reserved = r.reserved /\ q.unknown = r.unknown
  /\ \A m \in DOMAIN r.mail :
       /\ q.mail[m].started = r.mail[m].started /\ q.mail[m].reserved = r.mail[m].reserved
       /\ \/ q.mail[m].status = r.mail[m].status
          \/ r.mail[m].status = "pending" /\ q.mail[m].status = "cancelled"

LEMMA WithdrawsKept ==
    ASSUME NEW r, NEW q, Sound(r), Sound(q), Books(r), Withdraws(r, q), StatusFits(q)
    PROVE  Books(q)
<1>1. /\ ChildrenCounted(q) /\ Levelled(q) /\ SubtreesSummed(q)
      /\ BoxesHold(q) /\ MailboxesSummed(q) /\ CallsCounted(q)
  BY SameBoxesKept DEF Withdraws
<1>2. MessagesFit(q)
  BY DEF Withdraws, SameBoxes, Books, MessagesFit, ValidMessage
<1>3. \A status \in {"running", "outcome_unknown"} :
        InStatus(q, status) = InStatus(r, status)
  BY DEF Withdraws, SameBoxes, InStatus
<1>4. Charged(q) /\ RoomKept(q)
  BY <1>3 DEF Withdraws, SameBoxes, Books, Charged, RoomKept
<1> QED
  BY <1>1, <1>2, <1>4 DEF Books

-----------------------------------------------------------------------------
(* The books after each mutation.                                          *)

\* A new status or a new active message leaves the rest of a session as it
\* was; a new status, job or cancel the rest of a message.
LEMMA StatusOnly ==
    ASSUME NEW e \in SessionRecord, NEW status
    PROVE  LET f == [e EXCEPT !.status = status] IN
           /\ f.parent = e.parent /\ f.depth = e.depth /\ f.usage = e.usage
           /\ f.descendantUsage = e.descendantUsage /\ f.retired = e.retired
           /\ f.active = e.active /\ f.status = status
BY DEF SessionRecord

LEMMA LetterOnly ==
    ASSUME NEW e \in Message, NEW x,
           NEW f, f \in {[e EXCEPT !.status = x], [e EXCEPT !.cancel = x],
                         [e EXCEPT !.job = x]}
    PROVE  /\ f.session = e.session /\ f.usage = e.usage
           /\ f.started = e.started /\ f.reserved = e.reserved
           /\ f.status \in {x, e.status}
BY DEF Message

\* The scalars that these mutations leave.
SameCounts(r, q) ==
  /\ q.admittedChildren = r.admittedChildren /\ q.usage = r.usage
  /\ q.retiredUsage = r.retiredUsage /\ q.admittedSubcalls = r.admittedSubcalls
  /\ q.retiredSubcalls = r.retiredSubcalls /\ q.retiredUnknown = r.retiredUnknown

LEMMA ReconciledBooks ==
    ASSUME NEW r, Sound(r), Books(r)
    PROVE  LET q == Reconciled(r) IN
           Sound(q) /\ Books(q) /\ q.budget = ExpectedBudget(q)
<1> DEFINE q == Reconciled(r)
<1>1. r \in Snapshot
  BY DEF Sound
<1>2. /\ q.session = r.session /\ q.mail = r.mail
      /\ q.reserved = r.reserved /\ q.unknown = r.unknown
      /\ SameCounts(r, q) /\ q.budget = ExpectedBudget(r)
  BY <1>1 DEF Reconciled, Snapshot, SameCounts
<1>3. Sound(q)
  BY ReconciledSound
<1> HIDE DEF q
<1>4. Withdraws(r, q)
  BY <1>2 DEF Withdraws, SameBoxes, SameTree, SameCounts, Sessions
<1>5. StatusFits(q)
  BY <1>2 DEF Books, StatusFits, Sessions
<1>6. Books(q)
  BY <1>3, <1>4, <1>5, WithdrawsKept
<1>7. ExpectedBudget(q) = ExpectedBudget(r)
  BY <1>2 DEF ExpectedBudget, Exhausted, Durable, SameCounts
<1> QED
  BY <1>2, <1>3, <1>6, <1>7 DEF q

LEMMA CancelledBooks ==
    ASSUME NEW r, Sound(r), Books(r), NEW target \in Sessions(r) \cup {Root}
    PROVE  Books(CancelledUnder(r, target))
<1> DEFINE q == CancelledUnder(r, target)
           S == Under(r, target)
           letter(m) == IF ~(r.mail[m].session \in S) THEN r.mail[m]
                        ELSE IF r.mail[m].status = "pending"
                             THEN [r.mail[m] EXCEPT !.status = "cancelled"]
                        ELSE IF r.mail[m].status = "running"
                             THEN [r.mail[m] EXCEPT !.cancel = TRUE]
                        ELSE r.mail[m]
           home(s) == IF s \notin S THEN r.session[s]
                      ELSE [r.session[s] EXCEPT
                             !.status = IF r.session[s].active # NoMessage
                                        THEN "cancelling" ELSE "cancelled"]
           letters == [m \in DOMAIN r.mail |-> letter(m)]
           homes == [s \in DOMAIN r.session |-> home(s)]
           status == IF target = Root THEN "cancelled" ELSE r.status
<1>1. r \in Snapshot
  BY DEF Sound
<1>2. q = [r EXCEPT !.status = status, !.mail = letters, !.session = homes]
  BY <1>1 DEF CancelledUnder, Snapshot
<1>3. /\ \A m \in DOMAIN r.mail : r.mail[m] \in Message
      /\ \A s \in DOMAIN r.session : r.session[s] \in SessionRecord
  BY <1>1, SnapshotFields
<1>4. \A m \in DOMAIN r.mail :
        /\ letter(m).session = r.mail[m].session /\ letter(m).usage = r.mail[m].usage
        /\ letter(m).started = r.mail[m].started
        /\ letter(m).reserved = r.mail[m].reserved
        /\ \/ letter(m).status = r.mail[m].status
           \/ r.mail[m].status = "pending" /\ letter(m).status = "cancelled"
  <2> TAKE m \in DOMAIN r.mail
  <2>1. r.mail[m] \in Message
    BY <1>3
  <2> QED
    BY <2>1 DEF Message
<1>5. \A s \in DOMAIN r.session :
        /\ home(s).parent = r.session[s].parent /\ home(s).depth = r.session[s].depth
        /\ home(s).usage = r.session[s].usage
        /\ home(s).descendantUsage = r.session[s].descendantUsage
        /\ home(s).retired = r.session[s].retired
        /\ home(s).active = r.session[s].active
        /\ \/ home(s).status = r.session[s].status
           \/ home(s).status = IF r.session[s].active # NoMessage
                               THEN "cancelling" ELSE "cancelled"
  BY <1>3, StatusOnly
<1> HIDE DEF letter, home
<1>6. /\ q.mail = letters /\ q.session = homes /\ SameCounts(r, q)
      /\ q.reserved = r.reserved /\ q.unknown = r.unknown
  <2> HIDE DEF letters, homes, status, q
  <2> QED
    BY <1>1, <1>2 DEF Snapshot, SameCounts
<1>7. Sound(q)
  BY CancelledSound
<1> HIDE DEF q
<1>8. Withdraws(r, q)
  BY <1>4, <1>5, <1>6 DEF Withdraws, SameBoxes, SameTree, SameCounts, Sessions
<1>9. StatusFits(q)
  BY <1>5, <1>6 DEF Books, StatusFits, Sessions
<1>10. Books(q)
  BY <1>7, <1>8, <1>9, WithdrawsKept
<1> QED
  BY <1>10 DEF q

LEMMA StopExhaustedBooks ==
    ASSUME NEW r, Sound(r), Books(r)
    PROVE  Books(StopExhausted(r))
<1> DEFINE q == StopExhausted(r)
           letter(m) == IF r.mail[m].status = "pending"
                             THEN [r.mail[m] EXCEPT !.status = "cancelled"]
                        ELSE IF r.mail[m].status = "running"
                             THEN [r.mail[m] EXCEPT !.cancel = TRUE]
                        ELSE r.mail[m]
           next(s) == IF r.session[s].active # NoMessage THEN "cancelling"
                      ELSE IF /\ r.session[s].active = NoMessage
                              /\ r.session[s].status = "queued" THEN "cancelled"
                      ELSE r.session[s].status
           home(s) == [r.session[s] EXCEPT !.status = next(s)]
           letters == [m \in DOMAIN r.mail |-> letter(m)]
           homes == [s \in DOMAIN r.session |-> home(s)]
<1>1. r \in Snapshot
  BY DEF Sound
<1>2. q = [r EXCEPT !.mail = letters, !.session = homes]
  BY <1>1 DEF StopExhausted, Snapshot
<1>3. /\ \A m \in DOMAIN r.mail : r.mail[m] \in Message
      /\ \A s \in DOMAIN r.session : r.session[s] \in SessionRecord
  BY <1>1, SnapshotFields
<1>4. \A m \in DOMAIN r.mail :
        /\ letter(m).session = r.mail[m].session /\ letter(m).usage = r.mail[m].usage
        /\ letter(m).started = r.mail[m].started
        /\ letter(m).reserved = r.mail[m].reserved
        /\ \/ letter(m).status = r.mail[m].status
           \/ r.mail[m].status = "pending" /\ letter(m).status = "cancelled"
  <2> TAKE m \in DOMAIN r.mail
  <2>1. r.mail[m] \in Message
    BY <1>3
  <2> QED
    BY <2>1 DEF Message
<1>5. \A s \in DOMAIN r.session :
        /\ home(s).parent = r.session[s].parent /\ home(s).depth = r.session[s].depth
        /\ home(s).usage = r.session[s].usage
        /\ home(s).descendantUsage = r.session[s].descendantUsage
        /\ home(s).retired = r.session[s].retired
        /\ home(s).active = r.session[s].active
        /\ home(s).status = next(s)
  <2> HIDE DEF next
  <2> QED
    BY <1>3, StatusOnly
<1> HIDE DEF letter, home
<1>6. /\ q.mail = letters /\ q.session = homes /\ SameCounts(r, q)
      /\ q.reserved = r.reserved /\ q.unknown = r.unknown
  <2> HIDE DEF letters, homes, q
  <2> QED
    BY <1>1, <1>2 DEF Snapshot, SameCounts
<1>7. Sound(q)
  BY StopExhaustedStops, StoppingSound
<1> HIDE DEF q
<1>8. Withdraws(r, q)
  <2> HIDE DEF next
  <2> QED
    BY <1>4, <1>5, <1>6 DEF Withdraws, SameBoxes, SameTree, SameCounts, Sessions
<1>9. StatusFits(q)
  BY <1>5, <1>6 DEF Books, StatusFits, Sessions
<1>10. Books(q)
  BY <1>7, <1>8, <1>9, WithdrawsKept
<1> QED
  BY <1>10 DEF q

LEMMA RotatedBooks ==
    ASSUME NEW r, Sound(r), Sound(Rotated(r)), Books(r)
    PROVE  Books(Rotated(r))
<1> DEFINE q == Rotated(r)
           letter(m) == IF r.mail[m].status = "pending"
                        THEN [r.mail[m] EXCEPT !.job = r.epoch + 1]
                        ELSE r.mail[m]
           letters == [m \in DOMAIN r.mail |-> letter(m)]
           epoch == r.epoch + 1
<1>1. r \in Snapshot
  BY DEF Sound
<1>2. q = [r EXCEPT !.epoch = epoch, !.mail = letters]
  BY <1>1 DEF Rotated, Snapshot
<1>3. \A m \in DOMAIN r.mail : r.mail[m] \in Message
  BY <1>1, SnapshotFields
<1>4. \A m \in DOMAIN r.mail :
        /\ letter(m).session = r.mail[m].session /\ letter(m).usage = r.mail[m].usage
        /\ letter(m).started = r.mail[m].started
        /\ letter(m).reserved = r.mail[m].reserved
        /\ letter(m).status = r.mail[m].status
  <2> TAKE m \in DOMAIN r.mail
  <2>1. r.mail[m] \in Message
    BY <1>3
  <2> QED
    BY <2>1 DEF Message
<1> HIDE DEF letter
<1>5. /\ q.mail = letters /\ q.session = r.session /\ SameCounts(r, q)
      /\ q.reserved = r.reserved /\ q.unknown = r.unknown
  <2> HIDE DEF letters, epoch, q
  <2> QED
    BY <1>1, <1>2 DEF Snapshot, SameCounts
<1>6. Sound(q)
  OBVIOUS
<1> HIDE DEF q
<1>7. Withdraws(r, q)
  BY <1>4, <1>5 DEF Withdraws, SameBoxes, SameTree, SameCounts, Sessions
<1>8. StatusFits(q)
  BY <1>5 DEF Books, StatusFits, Sessions
<1>9. Books(q)
  BY <1>6, <1>7, <1>8, WithdrawsKept
<1> QED
  BY <1>9 DEF q

LEMMA EmptyBooks == Books(EmptyRegistry) /\ EmptyRegistry.budget = ExpectedBudget(EmptyRegistry)
<1> DEFINE r == EmptyRegistry
<1>1. Sessions(r) = {} /\ DOMAIN r.mail = {}
  BY DEF EmptyRegistry, Sessions
<1>2. /\ r.admittedChildren = 0 /\ r.admittedSubcalls = 0 /\ r.retiredSubcalls = 0
      /\ r.usage = 0 /\ r.retiredUsage = 0 /\ r.reserved = 0 /\ r.unknown = 0
      /\ r.retiredUnknown = 0 /\ r.budget = "none"
  BY DEF EmptyRegistry
<1>3. r \in Snapshot
  BY EmptySound DEF Sound
<1> HIDE DEF r
<1>4. SubtreeUsage(r, Root) = 0
  <2>1. Children(r, Root) = {}
    BY <1>1 DEF Children
  <2> QED
    BY <1>3, <2>1, SubtreeUsageIs, TotalEmpty
<1>5. \A status : InStatus(r, status) = {}
  BY <1>1 DEF InStatus
<1>6. Cardinality({}) = 0
  BY FS_EmptySet
<1>7. ChildrenCounted(r) /\ CallsCounted(r)
  BY <1>1, <1>2, <1>6, LimitsAssumption DEF ChildrenCounted, CallsCounted
<1>8. Charged(r) /\ RoomKept(r)
  <2>1. MaxTokensPerMessage * 0 = 0 /\ 0 <= MaxConcurrency
    BY LimitsAssumption
  <2> QED
    BY <1>2, <1>5, <1>6, <2>1 DEF Charged, RoomKept
<1>9. /\ Levelled(r) /\ BoxesHold(r) /\ StatusFits(r) /\ MailboxesSummed(r)
      /\ SubtreesSummed(r) /\ MessagesFit(r)
  BY <1>1, <1>2, <1>4
     DEF Levelled, BoxesHold, StatusFits, MailboxesSummed, SubtreesSummed, MessagesFit
<1>10. r.budget = ExpectedBudget(r)
  BY <1>2, LimitsAssumption DEF ExpectedBudget, Exhausted, Durable
<1> QED
  BY <1>7, <1>8, <1>9, <1>10 DEF Books, r

\* A new active message and a new status leave the rest of a session.
LEMMA PlaceOnly ==
    ASSUME NEW e \in SessionRecord, NEW active, NEW status
    PROVE  LET f == [e EXCEPT !.active = active, !.status = status] IN
           /\ f.parent = e.parent /\ f.depth = e.depth /\ f.usage = e.usage
           /\ f.descendantUsage = e.descendantUsage /\ f.retired = e.retired
           /\ f.active = active /\ f.status = status
BY DEF SessionRecord

\* A message runs in each busy session, and in no other.
LEMMA RunningAtMostBusy ==
    ASSUME NEW r, Sound(r)
    PROVE  /\ Cardinality(InStatus(r, "running")) <= Cardinality(Busy(r))
           /\ Cardinality(InStatus(r, "running")) \in Nat
           /\ Cardinality(Busy(r)) \in Nat
<1> DEFINE S == InStatus(r, "running")
           T == Busy(r)
           f == [m \in S |-> r.mail[m].session]
<1>1. /\ DOMAIN r.mail \in SUBSET Ids /\ DOMAIN r.session \in SUBSET Ids
      /\ \A m \in DOMAIN r.mail : m # NoMessage
  BY SnapshotFields, IdsAreNumbers DEF Sound, NoMessage
<1>2. IsFiniteSet(S) /\ IsFiniteSet(T) /\ Cardinality(S) \in Nat /\ Cardinality(T) \in Nat
  BY <1>1, IdsFinite DEF InStatus, Busy, Sessions
<1>3. \A m \in S : f[m] \in T /\ r.session[f[m]].active = m
  BY <1>1 DEF Sound, ActiveRuns, Housed, InStatus, Busy
<1> HIDE DEF S, T
<1>4. f \in Injection(S, T)
  <2>1. f \in [S -> T] /\ \A x, y \in S : f[x] = f[y] => x = y
    BY <1>3
  <2> QED
    BY <2>1 DEF Injection, IsInjective
<1> HIDE DEF f
<1> QED
  BY <1>2, <1>4, FS_Injection DEF S, T

LEMMA ClaimedBooks ==
    ASSUME NEW r, Sound(r), Books(r), NEW m, MayClaim(r, m, r.epoch)
    PROVE  Books(Claimed(r, m))
<1> DEFINE q == Claimed(r, m)
           s == r.mail[m].session
           letter == [r.mail[m] EXCEPT !.status = "running", !.started = TRUE,
                                       !.reserved = TRUE]
           home == [r.session[s] EXCEPT !.active = m, !.status = "running"]
           letters == [r.mail EXCEPT ![m] = letter]
           homes == [r.session EXCEPT ![s] = home]
           reserved == r.reserved + MaxTokensPerMessage
<1>1. r \in Snapshot
  BY DEF Sound
<1>2. /\ m \in DOMAIN r.mail /\ r.mail[m].status = "pending" /\ s \in DOMAIN r.session
  BY DEF MayClaim, Sound, Housed, Sessions
<1>3. /\ \A x \in DOMAIN r.session : r.session[x] \in SessionRecord
      /\ \A x \in DOMAIN r.mail : r.mail[x] \in Message
      /\ DOMAIN r.mail \in SUBSET Ids /\ m # NoMessage
  BY <1>1, <1>2, SnapshotFields, IdsAreNumbers DEF NoMessage
<1>4. q = [r EXCEPT !.mail = letters, !.reserved = reserved, !.session = homes]
  BY <1>1, <1>2 DEF Claimed, Snapshot
<1>5. /\ letter.session = s /\ letter.usage = r.mail[m].usage /\ letter.status = "running"
      /\ letter.started /\ letter.reserved
  <2> DEFINE e == r.mail[m]
  <2>1. e \in Message
    BY <1>2, <1>3
  <2> QED
    BY <2>1 DEF Message
<1>6. /\ home.parent = r.session[s].parent /\ home.depth = r.session[s].depth
      /\ home.usage = r.session[s].usage
      /\ home.descendantUsage = r.session[s].descendantUsage
      /\ home.retired = r.session[s].retired
      /\ home.active = m /\ home.status = "running"
  <2> HIDE DEF s
  <2> QED
    BY <1>2, <1>3, PlaceOnly
<1> HIDE DEF letter, home
<1>7. /\ q.mail = letters /\ q.session = homes /\ SameCounts(r, q)
      /\ q.reserved = reserved /\ q.unknown = r.unknown
  <2> HIDE DEF letters, homes, reserved, q
  <2> QED
    BY <1>1, <1>4 DEF Snapshot, SameCounts
<1>8. Sound(q)
  BY ClaimedSound
<1> HIDE DEF q
<1>9. /\ DOMAIN q.mail = DOMAIN r.mail /\ q.mail[m] = letter
      /\ \A x \in DOMAIN r.mail : x # m => q.mail[x] = r.mail[x]
      /\ DOMAIN q.session = DOMAIN r.session /\ q.session[s] = home
      /\ \A x \in DOMAIN r.session : x # s => q.session[x] = r.session[x]
  BY <1>2, <1>7
<1> HIDE DEF letters, homes
<1>10. SameTree(r, q)
  BY <1>6, <1>7, <1>9 DEF SameTree, SameCounts, Sessions
<1>11. SameBoxes(r, q)
  BY <1>5, <1>7, <1>9, <1>10 DEF SameBoxes, SameCounts
<1>12. /\ ChildrenCounted(q) /\ Levelled(q) /\ SubtreesSummed(q)
       /\ BoxesHold(q) /\ MailboxesSummed(q) /\ CallsCounted(q)
  BY <1>8, <1>11, SameBoxesKept
<1>13. StatusFits(q)
  <2>1. \A x \in DOMAIN r.session :
          r.session[x].active # NoMessage <=> r.session[x].status \in {"running", "cancelling"}
    BY DEF Books, StatusFits, Sessions
  <2> QED
    BY <1>3, <1>6, <1>9, <2>1 DEF StatusFits, Sessions
<1>14. MessagesFit(q)
  <2>1. r.mail[m].usage = NoUsage
    BY <1>2 DEF Books, MessagesFit, ValidMessage
  <2>2. ValidMessage(q, m) /\ q.mail[m].status = "running" /\ q.mail[m].started
    BY <1>5, <1>9, <2>1 DEF ValidMessage
  <2>3. \A x \in DOMAIN r.mail : x # m => ValidMessage(q, x)
    BY <1>9 DEF Books, MessagesFit, ValidMessage
  <2> QED
    BY <1>9, <2>2, <2>3 DEF Books, MessagesFit
<1>15. /\ InStatus(q, "running") = InStatus(r, "running") \cup {m}
       /\ m \notin InStatus(r, "running")
       /\ InStatus(q, "outcome_unknown") = InStatus(r, "outcome_unknown")
  BY <1>2, <1>5, <1>9 DEF InStatus
<1>16. /\ Cardinality(InStatus(q, "running")) = Cardinality(InStatus(r, "running")) + 1
       /\ Cardinality(InStatus(r, "running")) \in Nat
  <2> DEFINE M == InStatus(r, "running")
  <2>1. M \in SUBSET Ids
    BY <1>3 DEF InStatus
  <2> HIDE DEF M
  <2>2. IsFiniteSet(M) /\ Cardinality(M) \in Nat
    BY <2>1, IdsFinite
  <2>3. m \notin M => Cardinality(M \cup {m}) = Cardinality(M) + 1
    BY <2>2, FS_AddElement
  <2> QED
    BY <1>15, <2>2, <2>3 DEF M
<1>17. Charged(q)
  <2> DEFINE n == Cardinality(InStatus(r, "running"))
  <2>1. r.reserved = MaxTokensPerMessage * n
    BY DEF Books, Charged
  <2>2. n \in Nat /\ MaxTokensPerMessage \in Nat
    BY <1>16, LimitsAssumption
  <2> HIDE DEF n
  <2>3. MaxTokensPerMessage * (n + 1) = MaxTokensPerMessage * n + MaxTokensPerMessage
    BY <2>2
  <2>4. q.reserved = MaxTokensPerMessage * (n + 1)
    BY <1>7, <2>1, <2>3
  <2>5. q.reserved = MaxTokensPerMessage * Cardinality(InStatus(q, "running"))
    BY <1>16, <2>4 DEF n
  <2> QED
    BY <1>7, <1>15, <2>5 DEF Books, Charged, SameCounts
<1>18. RoomKept(q)
  <2>1. /\ Cardinality(InStatus(r, "running")) <= Cardinality(Busy(r))
        /\ Cardinality(Busy(r)) \in Nat /\ Cardinality(Busy(r)) < MaxConcurrency
    BY RunningAtMostBusy DEF MayClaim
  <2> QED
    BY <1>16, <2>1, LimitsAssumption DEF RoomKept
<1> QED
  BY <1>12, <1>13, <1>14, <1>17, <1>18 DEF Books, q

\* A fence moves what was reserved for what ran to the unknown.
LEMMA SweptBooks ==
    ASSUME NEW r, Sound(r), Books(r), NEW q \in {Swept(r), Marked(r)},
           r.status = "cancelled" => q = Swept(r)
    PROVE  Books(q)
<1> DEFINE running == InStatus(r, "running")
           letter(m) == IF m \in running
                        THEN [r.mail[m] EXCEPT !.status = "outcome_unknown",
                                               !.cancel = FALSE]
                        ELSE r.mail[m]
           home(s) == IF Mailbox(r, s) \cap running = {} THEN r.session[s]
                      ELSE [r.session[s] EXCEPT !.active = NoMessage,
                                                !.status = "interrupted"]
           letters == [m \in DOMAIN r.mail |-> letter(m)]
           homes == [s \in DOMAIN r.session |-> home(s)]
           lost == ReservedBy(r, running)
           fenced == Swept(r)
           marked == Marked(r)
<1>1. r \in Snapshot /\ r.reserved \in Int /\ r.unknown \in Int
  BY SnapshotFields DEF Sound
<1>2. /\ \A s \in DOMAIN r.session : r.session[s] \in SessionRecord
      /\ \A m \in DOMAIN r.mail : r.mail[m] \in Message
      /\ DOMAIN r.mail \in SUBSET Ids
  BY <1>1, SnapshotFields
<1>3. /\ fenced = [r EXCEPT !.mail = letters, !.reserved = @ - lost,
                            !.unknown = @ + lost, !.session = homes]
      /\ marked = [fenced EXCEPT !.status = "interrupted"]
  BY <1>1 DEF Swept, Marked, Snapshot
<1> HIDE DEF fenced, marked
<1>4. \A m \in DOMAIN r.mail :
        /\ letter(m).session = r.mail[m].session /\ letter(m).usage = r.mail[m].usage
        /\ letter(m).started = r.mail[m].started
        /\ letter(m).reserved = r.mail[m].reserved
        /\ letter(m).status = IF r.mail[m].status = "running" THEN "outcome_unknown"
                              ELSE r.mail[m].status
  <2> TAKE m \in DOMAIN r.mail
  <2> DEFINE e == r.mail[m]
             f == [e EXCEPT !.status = "outcome_unknown", !.cancel = FALSE]
  <2>1. e \in Message
    BY <1>2
  <2>2. letter(m) = IF e.status = "running" THEN f ELSE e
    BY DEF InStatus
  <2>3. /\ f.session = e.session /\ f.usage = e.usage /\ f.started = e.started
        /\ f.reserved = e.reserved /\ f.status = "outcome_unknown"
    BY <2>1 DEF Message
  <2> HIDE DEF f, letter
  <2> QED
    BY <2>2, <2>3
<1>5. \A s \in DOMAIN r.session :
        /\ home(s).parent = r.session[s].parent /\ home(s).depth = r.session[s].depth
        /\ home(s).usage = r.session[s].usage
        /\ home(s).descendantUsage = r.session[s].descendantUsage
        /\ home(s).retired = r.session[s].retired
        /\ home(s).active = NoMessage
        /\ home(s).status \notin {"running", "cancelling"}
  <2> TAKE s \in DOMAIN r.session
  <2> DEFINE e == r.session[s]
             f == [e EXCEPT !.active = NoMessage, !.status = "interrupted"]
  <2>1. e \in SessionRecord
    BY <1>2
  <2>2. home(s) = IF Mailbox(r, s) \cap running = {} THEN e ELSE f
    OBVIOUS
  <2>3. Mailbox(r, s) \cap running = {} => e.active = NoMessage
    BY DEF Sound, ActiveRuns, Mailbox, InStatus, Sessions
  <2>4. e.active = NoMessage => e.status \notin {"running", "cancelling"}
    BY DEF Books, StatusFits, Sessions
  <2> HIDE DEF e, home, running
  <2>5. /\ f.parent = e.parent /\ f.depth = e.depth /\ f.usage = e.usage
        /\ f.descendantUsage = e.descendantUsage /\ f.retired = e.retired
        /\ f.active = NoMessage /\ f.status = "interrupted"
    BY <2>1, PlaceOnly
  <2> HIDE DEF f
  <2>6. /\ home(s).parent = e.parent /\ home(s).depth = e.depth
        /\ home(s).usage = e.usage
        /\ home(s).descendantUsage = e.descendantUsage
        /\ home(s).retired = e.retired /\ home(s).active = NoMessage
        /\ home(s).status \notin {"running", "cancelling"}
    BY <2>2, <2>3, <2>4, <2>5
  <2> QED
    BY <2>6 DEF e
<1>6. /\ q.mail = letters /\ q.session = homes /\ SameCounts(r, q)
      /\ q.reserved = r.reserved - lost /\ q.unknown = r.unknown + lost
  <2> DEFINE a == r.reserved - lost
             b == r.unknown + lost
  <2>1. fenced = [r EXCEPT !.mail = letters, !.reserved = a, !.unknown = b,
                           !.session = homes]
    BY <1>3
  <2>2. q \in {fenced, marked}
    BY DEF fenced, marked
  <2> HIDE DEF letters, homes, lost, a, b
  <2>3. /\ fenced.mail = letters /\ fenced.session = homes
        /\ fenced.reserved = a /\ fenced.unknown = b /\ SameCounts(r, fenced)
    BY <1>1, <2>1 DEF Snapshot, SameCounts
  <2>4. /\ marked.mail = letters /\ marked.session = homes
        /\ marked.reserved = a /\ marked.unknown = b /\ SameCounts(r, marked)
    BY <1>1, <1>3, <2>1 DEF Snapshot, SameCounts
  <2>5. /\ q.mail = letters /\ q.session = homes
        /\ q.reserved = a /\ q.unknown = b /\ SameCounts(r, q)
    BY <2>2, <2>3, <2>4
  <2> QED
    BY <2>5 DEF a, b
<1>7. Sound(q)
  BY SweptSound
<1> HIDE DEF letter, home
<1>8. /\ DOMAIN q.mail = DOMAIN r.mail /\ DOMAIN q.session = DOMAIN r.session
      /\ \A m \in DOMAIN r.mail : q.mail[m] = letter(m)
      /\ \A s \in DOMAIN r.session : q.session[s] = home(s)
  BY <1>6
<1> HIDE DEF letters, homes
<1>9. SameTree(r, q)
  BY <1>5, <1>6, <1>8 DEF SameTree, SameCounts, Sessions
<1>10. SameBoxes(r, q)
  BY <1>4, <1>6, <1>8, <1>9 DEF SameBoxes, SameCounts
<1>11. /\ ChildrenCounted(q) /\ Levelled(q) /\ SubtreesSummed(q)
       /\ BoxesHold(q) /\ MailboxesSummed(q) /\ CallsCounted(q)
  BY <1>7, <1>10, SameBoxesKept
<1>12. StatusFits(q)
  BY <1>5, <1>8 DEF StatusFits, Sessions
<1>13. MessagesFit(q)
  <2>1. ASSUME NEW m \in DOMAIN r.mail
        PROVE  /\ ValidMessage(q, m) /\ q.mail[m].status # "running"
               /\ q.mail[m].status = "pending" => ~q.mail[m].started
    BY <1>4, <1>8 DEF Books, MessagesFit, ValidMessage
  <2> QED
    BY <1>8, <2>1 DEF MessagesFit
<1>14. /\ InStatus(q, "running") = {}
       /\ InStatus(q, "outcome_unknown") = InStatus(r, "outcome_unknown") \cup running
       /\ InStatus(r, "outcome_unknown") \cap running = {}
  BY <1>4, <1>8 DEF InStatus
<1>15. Charged(q)
  <2> DEFINE U == InStatus(r, "outcome_unknown")
             M == InStatus(q, "outcome_unknown")
             j == Cardinality(U)
             k == Cardinality(running)
             n == Cardinality(M)
  <2>1. U \in SUBSET Ids /\ running \in SUBSET Ids
    BY <1>2 DEF InStatus
  <2>2. M = U \cup running /\ U \cap running = {}
    BY <1>14
  <2> HIDE DEF U, running, M
  <2>3. /\ IsFiniteSet(U) /\ IsFiniteSet(running) /\ j \in Nat /\ k \in Nat
    BY <2>1, IdsFinite
  <2>4. n = j + k
    <3>1. Cardinality(U \cap running) = 0
      BY <2>2, FS_EmptySet
    <3>2. Cardinality(U \cup running) = j + k - Cardinality(U \cap running)
      BY <2>3, FS_Union
    <3>3. n = Cardinality(U \cup running)
      BY <2>2
    <3> HIDE DEF n, j, k
    <3> QED
      BY <2>3, <3>1, <3>2, <3>3
  <2>5. /\ lost = MaxTokensPerMessage * k
        /\ r.reserved = MaxTokensPerMessage * k
        /\ r.unknown = r.retiredUnknown + MaxTokensPerMessage * j
    BY ReservedInStatus DEF Books, Charged, U, running
  <2> HIDE DEF j, k, n, lost
  <2>6. MaxTokensPerMessage * n = MaxTokensPerMessage * j + MaxTokensPerMessage * k
    BY <2>3, <2>4, LimitsAssumption
  <2>7. MaxTokensPerMessage * j \in Int /\ MaxTokensPerMessage * k \in Int
        /\ r.retiredUnknown \in Int
    BY <1>1, <2>3, LimitsAssumption DEF Snapshot
  <2>8. /\ q.reserved = 0
        /\ q.unknown = r.retiredUnknown + MaxTokensPerMessage * n
        /\ q.retiredUnknown = r.retiredUnknown
    BY <1>6, <2>5, <2>6, <2>7 DEF SameCounts
  <2>9. MaxTokensPerMessage * Cardinality(InStatus(q, "running")) = 0
    BY <1>14, FS_EmptySet, LimitsAssumption
  <2> QED
    BY <2>8, <2>9 DEF Charged, n, M
<1>16. RoomKept(q)
  BY <1>14, FS_EmptySet, LimitsAssumption DEF RoomKept
<1> QED
  BY <1>11, <1>12, <1>13, <1>15, <1>16 DEF Books

LEMMA InterruptedBooks ==
    ASSUME NEW r, Sound(r), Books(r)
    PROVE  Books(Interrupted(r))
<1> DEFINE idle == InStatus(r, "running") = {} \/ r.status = "cancelled"
           exhausted == Committed(Marked(r)) + MaxTokensPerMessage > MaxTokens
<1>1. Interrupted(r) = IF idle THEN Swept(r)
                       ELSE IF exhausted THEN StopExhausted(Marked(r)) ELSE Marked(r)
  BY InterruptedIs
<1>2. Books(Swept(r))
  BY SweptBooks
<1>3. CASE ~idle
  <2> DEFINE p == Marked(r)
  <2>1. Sound(p) /\ Books(p)
    BY <1>3, SweptSound, SweptBooks
  <2> HIDE DEF p
  <2>2. Books(StopExhausted(p))
    BY <2>1, StopExhaustedBooks
  <2> HIDE DEF idle, exhausted
  <2> QED
    BY <1>1, <1>3, <2>1, <2>2 DEF p
<1> HIDE DEF idle, exhausted
<1> QED
  BY <1>1, <1>2, <1>3

\* The books of what a completion reports: the message's session used the
\* tokens, and every session above it used them below itself.
Spends(r, q, s, tokens) ==
  /\ Sessions(q) = Sessions(r) /\ q.admittedChildren = r.admittedChildren
  /\ q.usage = r.usage + tokens /\ q.retiredUsage = r.retiredUsage
  /\ \A t \in Sessions(r) :
       /\ q.session[t].parent = r.session[t].parent
       /\ q.session[t].depth = r.session[t].depth
       /\ q.session[t].retired = r.session[t].retired
       /\ q.session[t].usage = IF t = s THEN r.session[t].usage + tokens
                               ELSE r.session[t].usage
       /\ q.session[t].descendantUsage =
            IF t # s /\ s \in Under(r, t) THEN r.session[t].descendantUsage + tokens
            ELSE r.session[t].descendantUsage

LEMMA SpendsKept ==
    ASSUME NEW r, NEW q, Sound(r), Sound(q), NEW s \in Sessions(r), NEW tokens \in Int,
           Spends(r, q, s, tokens), Books(r)
    PROVE  ChildrenCounted(q) /\ Levelled(q) /\ SubtreesSummed(q)
<1>1. r \in Snapshot /\ q \in Snapshot
  BY DEF Sound
<1>2. ChildrenCounted(q)
  BY DEF Spends, Books, ChildrenCounted
<1>3. Levelled(q)
  <2>1. \A t \in Sessions(r) : r.session[t].parent \in Sessions(r) \cup {Root}
    BY DEF Sound, Rooted
  <2>2. \A p \in Sessions(r) \cup {Root} : Depth(q, p) = Depth(r, p)
    BY DEF Spends, Depth
  <2>3. Levelled(r)
    BY DEF Books
  <2> QED
    BY <2>1, <2>2, <2>3 DEF Spends, Levelled
<1>4. \A c \in Sessions(r) :
        /\ Share(r)[c] \in Int
        /\ Share(q)[c] = IF s \in Under(r, c) THEN Share(r)[c] + tokens ELSE Share(r)[c]
  <2> TAKE c \in Sessions(r)
  <2>1. s \in Under(r, s)
    BY UnderChildren
  <2>2. /\ Share(r)[c] = r.session[c].usage + r.session[c].descendantUsage
        /\ Share(q)[c] = q.session[c].usage + q.session[c].descendantUsage
        /\ Share(r)[c] \in Int
    BY <1>1, SharesTyped DEF Spends
  <2>3. r.session[c].usage \in Int /\ r.session[c].descendantUsage \in Int
    BY <1>1, SnapshotFields DEF Sessions, SessionRecord
  <2>4. /\ q.session[c].usage = IF c = s THEN r.session[c].usage + tokens
                                ELSE r.session[c].usage
        /\ q.session[c].descendantUsage =
             IF c # s /\ s \in Under(r, c) THEN r.session[c].descendantUsage + tokens
             ELSE r.session[c].descendantUsage
    BY DEF Spends
  <2>5. CASE c = s
    BY <2>1, <2>2, <2>3, <2>4, <2>5
  <2>6. CASE c # s
    BY <2>2, <2>3, <2>4, <2>6
  <2> QED
    BY <2>5, <2>6
<1>5. ASSUME NEW t \in Sessions(r) \cup {Root}
      PROVE  SubtreeUsage(q, t) = IF s \in Under(r, t) /\ s # t
                                  THEN SubtreeUsage(r, t) + tokens
                                  ELSE SubtreeUsage(r, t)
  <2> DEFINE S == Children(r, t)
             f == Share(r)
             g == Share(q)
  <2>1. /\ SubtreeUsage(r, t) = Total(f, S) /\ SubtreeUsage(q, t) = Total(g, Children(q, t))
    BY <1>1, SubtreeUsageIs
  <2>2. Children(q, t) = S
    BY DEF Spends, Children
  <2>3. S \subseteq Sessions(r) /\ IsFiniteSet(S)
    <3>1. S \subseteq Sessions(r) /\ Sessions(r) \subseteq Ids
      BY <1>1, SnapshotFields DEF Children, Sessions
    <3> HIDE DEF S
    <3> QED
      BY <3>1, IdsFinite
  <2>4. \A c \in S : /\ f[c] \in Int
                     /\ g[c] = IF s \in Under(r, c) THEN f[c] + tokens ELSE f[c]
    BY <1>4, <2>3
  <2>5. CASE s \in Under(r, t) /\ s # t
    <3>1. PICK c \in S : s \in Under(r, c)
      BY <2>5, UnderChildren
    <3>2. \A d \in S : s \in Under(r, d) => d = c
      BY <3>1, UnderChildren
    <3> HIDE DEF S, f, g
    <3>3. \A d \in S : f[d] \in Int /\ g[d] = IF d = c THEN f[d] + tokens ELSE f[d]
      BY <2>4, <3>1, <3>2
    <3>4. Total(g, S) = Total(f, S) + tokens
      BY <2>3, <3>3, TotalChanged
    <3> QED
      BY <2>1, <2>2, <2>5, <3>4
  <2>6. CASE ~(s \in Under(r, t) /\ s # t)
    <3>1. \A c \in S : s \notin Under(r, c)
      BY <2>6, UnderChildren
    <3> HIDE DEF S, f, g
    <3>2. \A c \in S : f[c] \in Int /\ f[c] = g[c]
      BY <2>4, <3>1
    <3>3. Total(f, S) = Total(g, S)
      BY <2>3, <3>2, TotalSame
    <3> QED
      BY <2>1, <2>2, <2>6, <3>3
  <2> QED
    BY <2>5, <2>6
<1>6. SubtreesSummed(q)
  <2>1. ASSUME NEW t \in Sessions(q)
        PROVE  q.session[t].descendantUsage = q.session[t].retired + SubtreeUsage(q, t)
    <3>1. t \in Sessions(r)
      BY DEF Spends
    <3>2. r.session[t].descendantUsage = r.session[t].retired + SubtreeUsage(r, t)
      BY <3>1 DEF Books, SubtreesSummed
    <3>3. SubtreeUsage(r, t) \in Int /\ r.session[t].retired \in Int
      BY <1>1, <3>1, SubtreeUsageIs, SnapshotFields DEF Sessions, SessionRecord
    <3>4. /\ q.session[t].retired = r.session[t].retired
          /\ q.session[t].descendantUsage =
               IF t # s /\ s \in Under(r, t) THEN r.session[t].descendantUsage + tokens
               ELSE r.session[t].descendantUsage
      BY <3>1 DEF Spends
    <3>5. SubtreeUsage(q, t) = IF s \in Under(r, t) /\ s # t
                               THEN SubtreeUsage(r, t) + tokens ELSE SubtreeUsage(r, t)
      BY <1>5, <3>1
    <3> QED
      BY <3>2, <3>3, <3>4, <3>5
  <2>2. q.usage = q.retiredUsage + SubtreeUsage(q, Root)
    <3>1. s \in Under(r, Root) /\ s # Root
      BY <1>1, UnderRoot, SnapshotFields, IdsAreNumbers DEF Sessions, Root
    <3>2. r.usage = r.retiredUsage + SubtreeUsage(r, Root)
      BY DEF Books, SubtreesSummed
    <3>3. SubtreeUsage(r, Root) \in Int /\ r.retiredUsage \in Int
      BY <1>1, SubtreeUsageIs DEF Snapshot
    <3>4. SubtreeUsage(q, Root) = SubtreeUsage(r, Root) + tokens
      BY <1>5, <3>1
    <3> QED
      BY <3>2, <3>3, <3>4 DEF Spends
  <2> QED
    BY <2>1, <2>2 DEF SubtreesSummed
<1> QED
  BY <1>2, <1>3, <1>6

LEMMA EndedBooks ==
    ASSUME NEW r, Sound(r), Books(r),
           NEW m \in DOMAIN r.mail, r.mail[m].status = "running",
           NEW outcome \in {"completed", "failed", "cancelled"}, NEW tokens \in Nat,
           r.mail[m].cancel => outcome = "cancelled"
    PROVE  Books(Ended(r, m, outcome, tokens))
<1> DEFINE s == r.mail[m].session
           letter == [r.mail[m] EXCEPT !.status = outcome, !.reserved = FALSE,
                                       !.usage = tokens]
           rest == IF outcome # "cancelled" THEN outcome
                   ELSE IF Pending(r, s) # {} THEN "queued" ELSE "cancelled"
           home(t) == IF t = s
                      THEN [r.session[t] EXCEPT !.active = NoMessage,
                              !.usage = @ + tokens, !.status = rest]
                      ELSE IF s \in Under(r, t)
                           THEN [r.session[t] EXCEPT !.descendantUsage = @ + tokens]
                      ELSE r.session[t]
           letters == [r.mail EXCEPT ![m] = letter]
           homes == [t \in DOMAIN r.session |-> home(t)]
           reserved == r.reserved - MaxTokensPerMessage
           usage == r.usage + tokens
           q == Ended(r, m, outcome, tokens)
<1>1. r \in Snapshot /\ r.reserved \in Int
  BY SnapshotFields DEF Sound
<1>2. s \in DOMAIN r.session /\ r.session[s].active = m
  BY DEF Sound, Housed, ActiveRuns, Sessions
<1>3. /\ \A x \in DOMAIN r.session : r.session[x] \in SessionRecord
      /\ \A x \in DOMAIN r.mail : r.mail[x] \in Message
      /\ DOMAIN r.mail \in SUBSET Ids
  BY <1>1, SnapshotFields
<1>4. /\ letter.session = s /\ letter.usage = tokens /\ letter.status = outcome
      /\ letter.started = r.mail[m].started /\ ~letter.reserved
  <2> DEFINE e == r.mail[m]
  <2>1. e \in Message
    BY <1>3
  <2> QED
    BY <2>1 DEF Message
<1>5. \A t \in DOMAIN r.session :
        /\ home(t).parent = r.session[t].parent /\ home(t).depth = r.session[t].depth
        /\ home(t).retired = r.session[t].retired
        /\ home(t).usage = IF t = s THEN r.session[t].usage + tokens
                           ELSE r.session[t].usage
        /\ home(t).descendantUsage =
             IF t # s /\ s \in Under(r, t) THEN r.session[t].descendantUsage + tokens
             ELSE r.session[t].descendantUsage
        /\ home(t).active = IF t = s THEN NoMessage ELSE r.session[t].active
        /\ home(t).status = IF t = s THEN rest ELSE r.session[t].status
  <2> HIDE DEF rest, s
  <2> TAKE t \in DOMAIN r.session
  <2> DEFINE e == r.session[t]
             more == e.usage + tokens
             below == e.descendantUsage + tokens
             f == [e EXCEPT !.active = NoMessage, !.usage = more, !.status = rest]
             g == [e EXCEPT !.descendantUsage = below]
  <2>1. e \in SessionRecord
    BY <1>3
  <2>2. home(t) = IF t = s THEN f ELSE IF s \in Under(r, t) THEN g ELSE e
    OBVIOUS
  <2> HIDE DEF e, home, more, below
  <2>3. /\ f.parent = e.parent /\ f.depth = e.depth /\ f.retired = e.retired
        /\ f.usage = more /\ f.descendantUsage = e.descendantUsage
        /\ f.active = NoMessage /\ f.status = rest
    BY <2>1 DEF SessionRecord
  <2>4. /\ g.parent = e.parent /\ g.depth = e.depth /\ g.retired = e.retired
        /\ g.usage = e.usage /\ g.descendantUsage = below
        /\ g.active = e.active /\ g.status = e.status
    BY <2>1 DEF SessionRecord
  <2> HIDE DEF f, g
  <2>5. /\ home(t).parent = e.parent /\ home(t).depth = e.depth
        /\ home(t).retired = e.retired
        /\ home(t).usage = IF t = s THEN more ELSE e.usage
        /\ home(t).descendantUsage =
             IF t # s /\ s \in Under(r, t) THEN below ELSE e.descendantUsage
        /\ home(t).active = IF t = s THEN NoMessage ELSE e.active
        /\ home(t).status = IF t = s THEN rest ELSE e.status
    BY <2>2, <2>3, <2>4
  <2> QED
    BY <2>5 DEF e, more, below
<1>6. q = [r EXCEPT !.mail = letters, !.reserved = reserved, !.usage = usage,
                    !.session = homes]
  BY <1>1, <1>3 DEF Ended, Snapshot
<1> HIDE DEF letter, home
<1>7. /\ q.mail = letters /\ q.session = homes /\ q.reserved = reserved
      /\ q.usage = usage /\ q.unknown = r.unknown
      /\ q.admittedChildren = r.admittedChildren /\ q.retiredUsage = r.retiredUsage
      /\ q.admittedSubcalls = r.admittedSubcalls
      /\ q.retiredSubcalls = r.retiredSubcalls /\ q.retiredUnknown = r.retiredUnknown
  <2> HIDE DEF letters, homes, reserved, usage, q
  <2> QED
    BY <1>1, <1>6 DEF Snapshot
<1>8. Sound(q)
  BY EndedSound
<1> HIDE DEF q
<1>9. /\ DOMAIN q.mail = DOMAIN r.mail /\ q.mail[m] = letter
      /\ \A x \in DOMAIN r.mail : x # m => q.mail[x] = r.mail[x]
      /\ DOMAIN q.session = DOMAIN r.session
      /\ \A t \in DOMAIN r.session : q.session[t] = home(t)
  BY <1>7
<1> HIDE DEF letters, homes
<1>10. Spends(r, q, s, tokens)
  BY <1>5, <1>7, <1>9 DEF Spends, Sessions
<1>11. ChildrenCounted(q) /\ Levelled(q) /\ SubtreesSummed(q)
  BY <1>2, <1>8, <1>10, SpendsKept DEF Sessions
<1>12. CallsCounted(q)
  BY <1>7, <1>9 DEF Books, CallsCounted
<1>13. BoxesHold(q)
  <2>1. \A x \in DOMAIN q.mail :
             /\ q.mail[x].session = r.mail[x].session
             /\ q.mail[x].status = "pending" => r.mail[x].status = "pending"
    BY <1>4, <1>9
  <2> QED
    BY <1>9, <2>1, BoxesKept DEF Books, Sessions
<1>14. StatusFits(q)
  <2>1. \A t \in DOMAIN r.session :
          r.session[t].active # NoMessage <=> r.session[t].status \in {"running", "cancelling"}
    BY DEF Books, StatusFits, Sessions
  <2>2. rest \notin {"running", "cancelling"}
    OBVIOUS
  <2> HIDE DEF rest, s
  <2> QED
    BY <1>5, <1>9, <2>1, <2>2 DEF StatusFits, Sessions
<1>15. r.mail[m].usage = NoUsage /\ r.mail[m].started
  BY DEF Books, MessagesFit, ValidMessage
<1>16. MessagesFit(q)
  <2>1. ValidMessage(q, m) /\ q.mail[m].status \notin {"running", "pending"}
    <3> DEFINE e == q.mail[m]
    <3>1. e.status = outcome /\ e.usage # NoUsage
      BY <1>4, <1>9 DEF NoUsage
    <3>2. e.started
      BY <1>4, <1>9, <1>15
    <3>3. ~e.reserved
      BY <1>4, <1>9
    <3> HIDE DEF e
    <3>4. /\ e.status \in {"completed", "failed"} \/ (e.status = "cancelled" /\ e.started)
          /\ e.status \notin {"running", "pending", "outcome_unknown"}
      BY <3>1, <3>2
    <3> QED
      BY <3>1, <3>3, <3>4 DEF ValidMessage, e
  <2>2. \A x \in DOMAIN r.mail : x # m => ValidMessage(q, x)
    BY <1>9 DEF Books, MessagesFit, ValidMessage
  <2> QED
    BY <1>9, <2>1, <2>2 DEF Books, MessagesFit
<1>17. MailboxesSummed(q)
  <2> SUFFICES ASSUME NEW t \in Sessions(r)
               PROVE  q.session[t].usage = Used(q, Mailbox(q, t))
    BY <1>9 DEF MailboxesSummed, Sessions
  <2> DEFINE S == Reported(r, Mailbox(r, t))
             T == Reported(q, Mailbox(q, t))
  <2>1. r \in Snapshot /\ q \in Snapshot
    BY <1>8 DEF Sound
  <2>2. /\ Used(r, Mailbox(r, t)) = Total(Reports(r), S)
        /\ Used(q, Mailbox(q, t)) = Total(Reports(q), T)
    <3>1. Mailbox(r, t) \in SUBSET DOMAIN r.mail /\ Mailbox(q, t) \in SUBSET DOMAIN q.mail
      BY DEF Mailbox
    <3> QED
      BY <2>1, <3>1, UsedIs
  <2>3. /\ S \in SUBSET DOMAIN r.mail /\ m \notin S
        /\ T = IF t = s THEN S \cup {m} ELSE S
    <3>1. m \notin S /\ S \in SUBSET DOMAIN r.mail
      BY <1>15 DEF Reported, Mailbox
    <3>2. q.mail[m].usage # NoUsage /\ q.mail[m].session = s
      BY <1>4, <1>9 DEF NoUsage
    <3>3. \A x : x \in T <=> x \in S \/ (x = m /\ t = s)
      BY <1>9, <3>1, <3>2 DEF Reported, Mailbox
    <3> HIDE DEF S, T, s
    <3> QED
      BY <3>1, <3>3
  <2> HIDE DEF S, T
  <2>4. IsFiniteSet(S)
    BY <1>3, <2>3, IdsFinite
  <2>5. /\ \A x \in S : Reports(r)[x] \in Int /\ Reports(r)[x] = Reports(q)[x]
        /\ Reports(q)[m] = tokens
    <3>1. \A x \in DOMAIN r.mail : /\ Reports(r)[x] = r.mail[x].usage
                                   /\ Reports(q)[x] = q.mail[x].usage
                                   /\ Reports(r)[x] \in Int
      BY <1>9, <2>1, SharesTyped
    <3> QED
      BY <1>4, <1>9, <2>3, <3>1
  <2>6. Total(Reports(q), S) = Total(Reports(r), S) /\ Total(Reports(r), S) \in Int
    BY <2>4, <2>5, TotalSame, TotalType
  <2>7. Total(Reports(q), S \cup {m}) = tokens + Total(Reports(q), S)
    <3> DEFINE g == Reports(q)
    <3>1. g[m] \in Int /\ \A x \in S : g[x] \in Int
      BY <2>5
    <3>2. g[m] = tokens
      BY <2>5
    <3> HIDE DEF g
    <3>3. Total(g, S \cup {m}) = g[m] + Total(g, S)
      BY <2>3, <2>4, <3>1, TotalWith
    <3>4. Total(g, S \cup {m}) = tokens + Total(g, S)
      BY <3>2, <3>3
    <3> QED
      BY <3>4 DEF g
  <2>8. r.session[t].usage = Total(Reports(r), S)
    BY <2>2 DEF Books, MailboxesSummed
  <2>9. q.session[t].usage = IF t = s THEN r.session[t].usage + tokens
                             ELSE r.session[t].usage
    BY <1>10 DEF Spends
  <2> QED
    BY <2>2, <2>3, <2>6, <2>7, <2>8, <2>9
<1>18. /\ InStatus(q, "running") = InStatus(r, "running") \ {m}
       /\ m \in InStatus(r, "running")
       /\ InStatus(q, "outcome_unknown") = InStatus(r, "outcome_unknown")
  BY <1>4, <1>9 DEF InStatus
<1>19. /\ Cardinality(InStatus(q, "running")) = Cardinality(InStatus(r, "running")) - 1
       /\ Cardinality(InStatus(r, "running")) \in Nat
  <2> DEFINE M == InStatus(r, "running")
  <2>1. M \in SUBSET Ids
    BY <1>3 DEF InStatus
  <2> HIDE DEF M
  <2>2. IsFiniteSet(M) /\ Cardinality(M) \in Nat
    BY <2>1, IdsFinite
  <2>3. m \in M => Cardinality(M \ {m}) = Cardinality(M) - 1
    BY <2>2, FS_RemoveElement
  <2> QED
    BY <1>18, <2>2, <2>3 DEF M
<1>20. Charged(q)
  <2> DEFINE n == Cardinality(InStatus(r, "running"))
  <2>1. r.reserved = MaxTokensPerMessage * n
    BY DEF Books, Charged
  <2>2. n \in Nat /\ MaxTokensPerMessage \in Nat
    BY <1>19, LimitsAssumption
  <2> HIDE DEF n
  <2>3. MaxTokensPerMessage * (n - 1) = MaxTokensPerMessage * n - MaxTokensPerMessage
    BY <2>2
  <2>4. q.reserved = MaxTokensPerMessage * (n - 1)
    BY <1>7, <2>1, <2>3
  <2>5. q.reserved = MaxTokensPerMessage * Cardinality(InStatus(q, "running"))
    BY <1>19, <2>4 DEF n
  <2> QED
    BY <1>7, <1>18, <2>5 DEF Books, Charged
<1>21. RoomKept(q)
  BY <1>19, LimitsAssumption DEF Books, RoomKept
<1> QED
  BY <1>11, <1>12, <1>13, <1>14, <1>16, <1>17, <1>20, <1>21 DEF Books, q

LEMMA SettledBooks ==
    ASSUME NEW r, Sound(r), Books(r),
           NEW m \in DOMAIN r.mail, r.mail[m].status = "running",
           NEW outcome \in {"completed", "failed", "cancelled"}, NEW tokens \in Nat,
           r.mail[m].cancel => outcome = "cancelled"
    PROVE  Books(Settled(r, m, outcome, tokens))
<1> DEFINE q == Ended(r, m, outcome, tokens)
<1>1. Sound(q) /\ Books(q)
  BY EndedSound, EndedBooks
<1>2. Settled(r, m, outcome, tokens) = IF Exhausted(q) THEN StopExhausted(q) ELSE q
  BY SettledIs
<1> HIDE DEF q
<1>3. Books(StopExhausted(q))
  BY <1>1, StopExhaustedBooks
<1> QED
  BY <1>1, <1>2, <1>3

\* One more message waits, in the mailbox of s.
Mails(r, q, m, s) ==
  /\ m \notin DOMAIN r.mail /\ DOMAIN q.mail = DOMAIN r.mail \cup {m}
  /\ q.mail[m].session = s /\ q.mail[m].status = "pending" /\ q.mail[m].usage = NoUsage
  /\ ~q.mail[m].started /\ ~q.mail[m].reserved
  /\ \A x \in DOMAIN r.mail :
       /\ q.mail[x].session = r.mail[x].session /\ q.mail[x].usage = r.mail[x].usage
       /\ q.mail[x].started = r.mail[x].started /\ q.mail[x].reserved = r.mail[x].reserved
       /\ q.mail[x].status = r.mail[x].status
  /\ q.reserved = r.reserved /\ q.unknown = r.unknown
  /\ q.retiredUnknown = r.retiredUnknown /\ q.retiredSubcalls = r.retiredSubcalls
  /\ q.admittedSubcalls = r.admittedSubcalls + 1

LEMMA MailsKept ==
    ASSUME NEW r, NEW q, Sound(r), Sound(q), Books(r), NEW m, NEW s, Mails(r, q, m, s)
    PROVE  /\ MessagesFit(q) /\ CallsCounted(q) /\ Charged(q) /\ RoomKept(q)
           /\ \A t : /\ Used(q, Mailbox(q, t)) = Used(r, Mailbox(r, t))
                     /\ Mailbox(q, t) = IF t = s THEN Mailbox(r, t) \cup {m}
                                        ELSE Mailbox(r, t)
                     /\ Pending(q, t) = IF t = s THEN Pending(r, t) \cup {m}
                                        ELSE Pending(r, t)
<1>1. MessagesFit(q)
  <2>1. ValidMessage(q, m) /\ q.mail[m].status = "pending" /\ ~q.mail[m].started
    BY DEF Mails, ValidMessage
  <2>2. \A x \in DOMAIN r.mail :
          /\ ValidMessage(q, x)
          /\ q.mail[x].status = "pending" => ~q.mail[x].started
          /\ q.mail[x].status = "running" => q.mail[x].started
    BY DEF Mails, Books, MessagesFit, ValidMessage
  <2> QED
    BY <2>1, <2>2 DEF Mails, MessagesFit
<1>2. CallsCounted(q)
  <2> DEFINE D == DOMAIN r.mail
  <2>1. D \in SUBSET Ids /\ r.retiredSubcalls \in Int
    BY SnapshotFields DEF Sound, Snapshot
  <2>2. m \notin D /\ DOMAIN q.mail = D \cup {m}
    BY DEF Mails
  <2>3. r.admittedSubcalls = Cardinality(D) + r.retiredSubcalls
    BY DEF Books, CallsCounted
  <2> HIDE DEF D
  <2>4. IsFiniteSet(D) /\ Cardinality(D) \in Nat
    BY <2>1, IdsFinite
  <2>5. Cardinality(D \cup {m}) = Cardinality(D) + 1
    BY <2>2, <2>4, FS_AddElement
  <2>6. Cardinality(DOMAIN q.mail) = Cardinality(D) + 1
    BY <2>2, <2>5
  <2>7. q.admittedSubcalls = r.admittedSubcalls + 1 /\ q.retiredSubcalls = r.retiredSubcalls
    BY DEF Mails
  <2> QED
    BY <2>1, <2>3, <2>4, <2>6, <2>7 DEF CallsCounted
<1>3. \A status \in {"running", "outcome_unknown"} :
        InStatus(q, status) = InStatus(r, status)
  BY DEF Mails, InStatus
<1>4. Charged(q) /\ RoomKept(q)
  BY <1>3 DEF Mails, Books, Charged, RoomKept
<1>5. ASSUME NEW t
      PROVE  /\ Mailbox(q, t) = IF t = s THEN Mailbox(r, t) \cup {m} ELSE Mailbox(r, t)
             /\ Pending(q, t) = IF t = s THEN Pending(r, t) \cup {m} ELSE Pending(r, t)
  <2>1. /\ \A x : x \in Mailbox(q, t) <=> x \in Mailbox(r, t) \/ (t = s /\ x = m)
        /\ \A x : x \in Pending(q, t) <=> x \in Pending(r, t) \/ (t = s /\ x = m)
    BY DEF Mails, Mailbox, Pending, InStatus
  <2> QED
    BY <2>1
<1>6. ASSUME NEW t
      PROVE  Used(q, Mailbox(q, t)) = Used(r, Mailbox(r, t))
  <2>1. Reported(q, Mailbox(q, t)) = Reported(r, Mailbox(r, t))
    BY DEF Mails, Reported, Mailbox
  <2>2. \A x \in DOMAIN q.mail \cap DOMAIN r.mail : q.mail[x].usage = r.mail[x].usage
    BY DEF Mails
  <2> QED
    BY <2>1, <2>2, SameReports DEF Sound, Mailbox
<1> QED
  BY <1>1, <1>2, <1>4, <1>5, <1>6

LEMMA NewMessageHolds ==
    ASSUME NEW r \in Snapshot, NEW s, NEW mode
    PROVE  LET note == NewMessage(r, s, mode) IN
           /\ note.session = s /\ note.status = "pending" /\ note.usage = NoUsage
           /\ ~note.started /\ ~note.reserved
BY DEF NewMessage

\* One more message in a mailbox that had room for it.
LEMMA BoxesFilled ==
    ASSUME NEW r, NEW q, Sound(r), Sound(q), Books(r), NEW m, NEW s, Mails(r, q, m, s),
           Cardinality(Pending(r, s)) < MaxPendingMessages,
           Cardinality(Mailbox(r, s)) < MaxRetainedMessages,
           \A t \in Sessions(q) : t \in Sessions(r) \/ t = s
    PROVE  BoxesHold(q)
<1>1. ASSUME NEW t \in Sessions(q)
      PROVE  /\ Cardinality(Mailbox(q, t)) <= MaxRetainedMessages
             /\ Cardinality(Pending(q, t)) <= MaxPendingMessages
  <2> DEFINE M == Mailbox(r, t)
             P == Pending(r, t)
  <2>1. M \in SUBSET Ids /\ P \in SUBSET Ids /\ m \notin M /\ m \notin P
    BY SnapshotFields DEF Sound, Mailbox, Pending, Mails
  <2>2. /\ Mailbox(q, t) = IF t = s THEN M \cup {m} ELSE M
        /\ Pending(q, t) = IF t = s THEN P \cup {m} ELSE P
    BY MailsKept
  <2>3. /\ t = s => Cardinality(M) < MaxRetainedMessages /\ Cardinality(P) < MaxPendingMessages
        /\ t # s => Cardinality(M) <= MaxRetainedMessages /\ Cardinality(P) <= MaxPendingMessages
    BY DEF Books, BoxesHold
  <2> HIDE DEF M, P
  <2>4. /\ IsFiniteSet(M) /\ Cardinality(M) \in Nat
        /\ IsFiniteSet(P) /\ Cardinality(P) \in Nat
    BY <2>1, IdsFinite
  <2>5. /\ Cardinality(M \cup {m}) = Cardinality(M) + 1
        /\ Cardinality(P \cup {m}) = Cardinality(P) + 1
    BY <2>1, <2>4, FS_AddElement
  <2>6. CASE t = s
    BY <2>2, <2>3, <2>4, <2>5, <2>6, LimitsAssumption
  <2>7. CASE t # s
    BY <2>2, <2>3, <2>7
  <2> QED
    BY <2>6, <2>7
<1> QED
  BY <1>1 DEF BoxesHold

LEMMA SentBooks ==
    ASSUME NEW r, Sound(r), Books(r), NEW s \in Sessions(r),
           NEW mode \in {"steer", "follow-up"}, MaySend(r, s)
    PROVE  Books(Sent(r, s, mode))
<1> DEFINE q == Sent(r, s, mode)
           m == r.admittedSubcalls + 1
           note == NewMessage(r, s, mode)
           active == r.session[s].active
           mail == With(r.mail, m, note)
           steers == mode = "steer" /\ active # NoMessage
           asked == [r.mail[active] EXCEPT !.cancel = TRUE]
           status == IF steers THEN "cancelling"
                     ELSE IF active = NoMessage THEN "queued"
                     ELSE r.session[s].status
           left == [r.session[s] EXCEPT !.status = status]
           letters == IF steers THEN [mail EXCEPT ![active] = asked] ELSE mail
           homes == [r.session EXCEPT ![s] = left]
<1>1. r \in Snapshot
  BY DEF Sound
<1>2. m \notin DOMAIN r.mail
  BY NextId DEF MaySend
<1>3. /\ \A x \in DOMAIN r.session : r.session[x] \in SessionRecord
      /\ \A x \in DOMAIN r.mail : r.mail[x] \in Message
      /\ s \in DOMAIN r.session
  BY <1>1, SnapshotFields DEF Sessions
<1>4. /\ note.session = s /\ note.status = "pending" /\ note.usage = NoUsage
      /\ ~note.started /\ ~note.reserved
  BY <1>1, NewMessageHolds
<1>5. active # NoMessage => active \in DOMAIN r.mail
  BY DEF Sound, ActiveRuns
<1>6. /\ DOMAIN mail = DOMAIN r.mail \cup {m} /\ mail[m] = note
      /\ \A x \in DOMAIN r.mail : mail[x] = r.mail[x]
  <2> HIDE DEF note, m
  <2> QED
    BY <1>2 DEF With
<1>7. steers => /\ asked.session = r.mail[active].session
                /\ asked.usage = r.mail[active].usage
                /\ asked.started = r.mail[active].started
                /\ asked.reserved = r.mail[active].reserved
                /\ asked.status = r.mail[active].status
  <2> DEFINE e == r.mail[active]
  <2>1. steers => e \in Message
    BY <1>3, <1>5
  <2> QED
    BY <2>1 DEF Message
<1>8. /\ left.parent = r.session[s].parent /\ left.depth = r.session[s].depth
      /\ left.usage = r.session[s].usage
      /\ left.descendantUsage = r.session[s].descendantUsage
      /\ left.retired = r.session[s].retired
      /\ left.active = active /\ left.status = status
  <2> HIDE DEF status
  <2> QED
    BY <1>3, StatusOnly
<1>9. q = [r EXCEPT !.admittedSubcalls = m, !.mail = letters, !.session = homes]
  <2>1. steers => [mail EXCEPT ![active].cancel = TRUE] = [mail EXCEPT ![active] = asked]
    BY <1>5, <1>6
  <2>2. [r.session EXCEPT ![s].status = IF steers THEN "cancelling"
                     ELSE IF active = NoMessage THEN "queued" ELSE @]
        = homes
    BY <1>3
  <2> QED
    BY <1>1, <2>1, <2>2 DEF Sent, Snapshot
<1> HIDE DEF asked, left
<1>10. /\ q.mail = letters /\ q.session = homes /\ q.admittedSubcalls = m
       /\ q.admittedChildren = r.admittedChildren /\ q.usage = r.usage
       /\ q.retiredUsage = r.retiredUsage /\ q.retiredSubcalls = r.retiredSubcalls
       /\ q.retiredUnknown = r.retiredUnknown
       /\ q.reserved = r.reserved /\ q.unknown = r.unknown
  <2> HIDE DEF letters, homes, m, q
  <2> QED
    BY <1>1, <1>9 DEF Snapshot
<1>11. Sound(q)
  BY SentSound
<1> HIDE DEF q
<1>12. /\ DOMAIN q.mail = DOMAIN r.mail \cup {m} /\ q.mail[m] = note
       /\ \A x \in DOMAIN r.mail : q.mail[x] = IF steers /\ x = active THEN asked
                                               ELSE r.mail[x]
  <2> HIDE DEF mail, m, note
  <2>1. steers => m # active /\ active \in DOMAIN r.mail
    BY <1>2, <1>5
  <2> QED
    BY <1>6, <1>10, <2>1
<1>13. /\ DOMAIN q.session = DOMAIN r.session /\ q.session[s] = left
       /\ \A x \in DOMAIN r.session : x # s => q.session[x] = r.session[x]
  BY <1>3, <1>10
<1> HIDE DEF letters, homes, mail, note
<1>14. Mails(r, q, m, s)
  BY <1>2, <1>4, <1>7, <1>10, <1>12 DEF Mails
<1> HIDE DEF m, active, steers
<1>15. SameTree(r, q)
  BY <1>8, <1>10, <1>13 DEF SameTree, Sessions
<1>16. ChildrenCounted(q) /\ Levelled(q) /\ SubtreesSummed(q)
  BY <1>11, <1>15, SameTreeKept DEF Books
<1>17. /\ MessagesFit(q) /\ CallsCounted(q) /\ Charged(q) /\ RoomKept(q)
       /\ \A t : Used(q, Mailbox(q, t)) = Used(r, Mailbox(r, t))
  BY <1>11, <1>14, MailsKept
<1>18. BoxesHold(q)
  BY <1>11, <1>13, <1>14, BoxesFilled DEF MaySend, Sessions
<1>19. MailboxesSummed(q)
  BY <1>15, <1>17 DEF Books, MailboxesSummed, SameTree
<1>20. StatusFits(q)
  <2>1. \A t \in DOMAIN r.session :
          r.session[t].active # NoMessage <=> r.session[t].status \in {"running", "cancelling"}
    BY DEF Books, StatusFits, Sessions
  <2> QED
    BY <1>3, <1>8, <1>13, <2>1 DEF StatusFits, Sessions, active, steers
<1> QED
  BY <1>16, <1>17, <1>18, <1>19, <1>20 DEF Books, q

LEMMA SpawnedBooks ==
    ASSUME NEW r, Sound(r), Books(r), NEW p \in Sessions(r) \cup {Root},
           MayAdmitChild(r, p)
    PROVE  Books(Spawned(r, p))
<1> DEFINE q == Spawned(r, p)
           s == r.admittedSubcalls + 1
           note == NewMessage(r, s, "follow-up")
           made == [parent |-> p, depth |-> Depth(r, p) + 1, status |-> "queued",
                    active |-> NoMessage, usage |-> 0, descendantUsage |-> 0,
                    retired |-> 0]
           children == r.admittedChildren + 1
           homes == With(r.session, s, made)
           letters == With(r.mail, s, note)
<1>1. r \in Snapshot
  BY DEF Sound
<1>2. /\ r.admittedSubcalls \in Nat /\ s \in Ids
      /\ s \notin DOMAIN r.mail /\ s \notin Sessions(r)
  BY NextId DEF MayAdmitChild
<1>3. p < s /\ s # Root /\ s # p
  BY <1>2, IdsAreNumbers DEF Sound, Numbered, Root
<1>4. /\ made.parent = p /\ made.depth = Depth(r, p) + 1 /\ made.status = "queued"
      /\ made.active = NoMessage /\ made.usage = 0 /\ made.descendantUsage = 0
      /\ made.retired = 0
  OBVIOUS
<1>5. /\ note.session = s /\ note.status = "pending" /\ note.usage = NoUsage
      /\ ~note.started /\ ~note.reserved
  BY <1>1, NewMessageHolds
<1>6. q = [r EXCEPT !.admittedSubcalls = s, !.admittedChildren = children,
                    !.session = homes, !.mail = letters]
  BY <1>1 DEF Spawned, Snapshot
<1>7. /\ q.mail = letters /\ q.session = homes /\ q.admittedSubcalls = s
      /\ q.admittedChildren = children /\ q.usage = r.usage
      /\ q.retiredUsage = r.retiredUsage /\ q.retiredSubcalls = r.retiredSubcalls
      /\ q.retiredUnknown = r.retiredUnknown
      /\ q.reserved = r.reserved /\ q.unknown = r.unknown
  <2> HIDE DEF letters, homes, s, children, q
  <2> QED
    BY <1>1, <1>6 DEF Snapshot
<1>8. Sound(q)
  BY SpawnedSound
<1>9. /\ Sessions(q) = Sessions(r) \cup {s} /\ DOMAIN q.mail = DOMAIN r.mail \cup {s}
      /\ q.session[s] = made /\ q.mail[s] = note
      /\ \A x \in Sessions(r) : q.session[x] = r.session[x]
      /\ \A x \in DOMAIN r.mail : q.mail[x] = r.mail[x]
  <2> HIDE DEF q, s, note, made
  <2> QED
    BY <1>2, <1>7 DEF With, Sessions
<1> HIDE DEF q, letters, homes, note, made
<1>10. Mails(r, q, s, s)
  BY <1>2, <1>5, <1>7, <1>9 DEF Mails
<1> HIDE DEF s
<1>11. /\ MessagesFit(q) /\ CallsCounted(q) /\ Charged(q) /\ RoomKept(q)
       /\ \A t : Used(q, Mailbox(q, t)) = Used(r, Mailbox(r, t))
  BY <1>8, <1>10, MailsKept
<1>12. Mailbox(r, s) = {} /\ Pending(r, s) = {}
  BY <1>2 DEF Sound, Housed, Mailbox, Pending
<1>13. BoxesHold(q)
  <2>1. Cardinality(Pending(r, s)) = 0 /\ Cardinality(Mailbox(r, s)) = 0
    BY <1>12, FS_EmptySet
  <2>2. 0 < MaxPendingMessages /\ 0 < MaxRetainedMessages
    BY LimitsAssumption
  <2> QED
    BY <1>8, <1>9, <1>10, <2>1, <2>2, BoxesFilled
<1>14. MailboxesSummed(q)
  <2>1. Used(r, Mailbox(r, s)) = 0
    <3>1. Reported(r, {}) = {} /\ {} \in SUBSET DOMAIN r.mail
      BY DEF Reported
    <3> QED
      BY <1>1, <1>12, <3>1, UsedIs, TotalEmpty
  <2> QED
    BY <1>4, <1>9, <1>11, <2>1 DEF Books, MailboxesSummed
<1>15. StatusFits(q)
  BY <1>4, <1>9 DEF Books, StatusFits
<1>16. ChildrenCounted(q)
  <2> DEFINE S == Sessions(r)
  <2>1. S \in SUBSET Ids /\ s \notin S
    BY <1>1, <1>2, SnapshotFields DEF Sessions
  <2>2. r.admittedChildren = Cardinality(S) /\ r.admittedChildren < MaxChildren
    BY DEF Books, ChildrenCounted, MayAdmitChild
  <2> HIDE DEF S
  <2>3. Cardinality(S \cup {s}) = Cardinality(S) + 1 /\ Cardinality(S) \in Nat
    BY <2>1, IdsFinite, FS_AddElement
  <2>4. Cardinality(Sessions(q)) = children /\ children <= MaxChildren
    BY <1>9, <2>2, <2>3, LimitsAssumption DEF S
  <2> QED
    BY <1>7, <2>4 DEF ChildrenCounted
<1>17. Levelled(q)
  <2>1. \A t \in Sessions(r) : r.session[t].parent \in Sessions(r) \cup {Root}
    BY DEF Sound, Rooted
  <2>2. \A x \in Sessions(r) \cup {Root} : Depth(q, x) = Depth(r, x)
    BY <1>9 DEF Depth
  <2>3. Levelled(r)
    BY DEF Books
  <2>4. Depth(r, p) \in Int /\ Depth(r, p) < MaxDepth
    <3>1. \A x \in Sessions(r) : r.session[x] \in SessionRecord
      BY <1>1, SnapshotFields DEF Sessions
    <3> QED
      BY <3>1 DEF Depth, SessionRecord, MayAdmitChild
  <2>5. q.session[s].depth = Depth(q, q.session[s].parent) + 1 /\ q.session[s].depth <= MaxDepth
    BY <1>4, <1>9, <2>2, <2>4, LimitsAssumption
  <2>6. \A t \in Sessions(r) : /\ q.session[t].depth = Depth(q, q.session[t].parent) + 1
                               /\ q.session[t].depth <= MaxDepth
    BY <1>9, <2>1, <2>2, <2>3 DEF Levelled
  <2> QED
    BY <1>9, <2>5, <2>6 DEF Levelled
<1>18. ASSUME NEW t \in Sessions(r) \cup {Root}
       PROVE  SubtreeUsage(q, t) = SubtreeUsage(r, t)
  <2> DEFINE S == Children(r, t)
             f == Share(r)
             g == Share(q)
  <2>1. /\ SubtreeUsage(r, t) = Total(f, S) /\ SubtreeUsage(q, t) = Total(g, Children(q, t))
    BY <1>1, <1>8, SubtreeUsageIs DEF Sound
  <2>2. Children(q, t) = IF t = p THEN S \cup {s} ELSE S
    <3>1. \A x : x \in Children(q, t) <=> x \in S \/ (x = s /\ t = p)
      BY <1>2, <1>4, <1>9 DEF Children
    <3> HIDE DEF S
    <3> QED
      BY <3>1
  <2>3. S \subseteq Sessions(r) /\ IsFiniteSet(S) /\ s \notin S
    <3>1. S \subseteq Sessions(r) /\ Sessions(r) \subseteq Ids /\ s \notin S
      BY <1>1, <1>2, SnapshotFields DEF Children, Sessions
    <3> HIDE DEF S
    <3> QED
      BY <3>1, IdsFinite
  <2>4. /\ \A x \in Sessions(r) : f[x] \in Int /\ f[x] = g[x]
        /\ g[s] = 0
    <3>1. /\ \A x \in Sessions(r) :
               /\ f[x] \in Int
               /\ f[x] = r.session[x].usage + r.session[x].descendantUsage
          /\ \A x \in Sessions(q) :
               g[x] = q.session[x].usage + q.session[x].descendantUsage
      BY <1>1, <1>8, SharesTyped DEF Sound
    <3> HIDE DEF f, g
    <3> QED
      BY <1>4, <1>9, <3>1
  <2> HIDE DEF S, f, g
  <2>5. \A x \in S : f[x] \in Int /\ g[x] \in Int /\ f[x] = g[x]
    BY <2>3, <2>4
  <2>6. Total(f, S) = Total(g, S) /\ Total(g, S) \in Int
    BY <2>3, <2>5, TotalSame, TotalType
  <2>7. Total(g, S \cup {s}) = g[s] + Total(g, S)
    BY <2>3, <2>4, <2>5, TotalWith
  <2> QED
    BY <2>1, <2>2, <2>4, <2>6, <2>7
<1>19. SubtreesSummed(q)
  <2>1. SubtreeUsage(q, s) = 0
    <3>1. Children(q, s) = {}
      BY <1>2, <1>3, <1>4, <1>9 DEF Children, Sound, Rooted
    <3> QED
      BY <1>8, <3>1, SubtreeUsageIs, TotalEmpty DEF Sound
  <2>2. q.session[s].descendantUsage = q.session[s].retired + SubtreeUsage(q, s)
    BY <1>4, <1>9, <2>1
  <2>3. \A t \in Sessions(r) :
          q.session[t].descendantUsage = q.session[t].retired + SubtreeUsage(q, t)
    BY <1>9, <1>18 DEF Books, SubtreesSummed
  <2>4. q.usage = q.retiredUsage + SubtreeUsage(q, Root)
    BY <1>7, <1>18 DEF Books, SubtreesSummed
  <2> QED
    BY <1>9, <2>2, <2>3, <2>4 DEF SubtreesSummed
<1> QED
  BY <1>11, <1>13, <1>14, <1>15, <1>16, <1>17, <1>19 DEF Books, q

\* A finite set and a part of it, and what is left without the part.
LEMMA PartCounts ==
    ASSUME NEW M \in SUBSET Ids, NEW P \in SUBSET Ids
    PROVE  /\ Cardinality(M \ P) = Cardinality(M) - Cardinality(M \cap P)
           /\ Cardinality(M) \in Nat /\ Cardinality(M \cap P) \in Nat
           /\ Cardinality(M \ P) \in Nat
<1>1. IsFiniteSet(M) /\ Cardinality(M) \in Nat
  BY IdsFinite
<1>2. Cardinality(M \cap P) \in Nat /\ Cardinality(M \ P) \in Nat
  BY IdsFinite
<1> QED
  BY <1>1, <1>2, FS_Difference

LEMMA DisposedBooks ==
    ASSUME NEW r, Sound(r), Books(r), NEW target \in Sessions(r)
    PROVE  Books(Disposed(r, target))
<1> DEFINE S == Under(r, target)
           gone == {m \in DOMAIN r.mail : r.mail[m].session \in S}
           parent == r.session[target].parent
           spent == r.session[target].usage + r.session[target].descendantUsage
           running == ReservedBy(r, gone \cap InStatus(r, "running"))
           unknown == ReservedBy(r, gone \cap InStatus(r, "outcome_unknown"))
           home(s) == IF s = parent
                      THEN [r.session[s] EXCEPT !.retired = @ + spent]
                      ELSE r.session[s]
           homes == [s \in DOMAIN r.session \ S |-> home(s)]
           letters == [m \in DOMAIN r.mail \ gone |-> r.mail[m]]
           q == Disposed(r, target)
           a == IF parent = Root THEN r.retiredUsage + spent ELSE r.retiredUsage
           b == r.admittedChildren - Cardinality(S)
           c == r.retiredSubcalls + Cardinality(gone)
           d == r.reserved - running
           e == r.unknown + running
           f == r.retiredUnknown + running + unknown
<1>1. /\ r \in Snapshot /\ r.reserved \in Int /\ r.unknown \in Int
      /\ r.retiredUsage \in Int /\ r.admittedChildren \in Int
      /\ r.retiredSubcalls \in Int /\ r.retiredUnknown \in Int
  BY DEF Sound, Snapshot
<1>2. /\ \A s \in DOMAIN r.session : r.session[s] \in SessionRecord
      /\ DOMAIN r.mail \in SUBSET Ids /\ DOMAIN r.session \in SUBSET Ids
  BY <1>1, SnapshotFields
<1>3. spent \in Int
  <2>1. r.session[target] \in SessionRecord
    BY <1>2 DEF Sessions
  <2> QED
    BY <2>1 DEF SessionRecord
<1>4. \A s \in DOMAIN r.session :
        /\ home(s).parent = r.session[s].parent /\ home(s).depth = r.session[s].depth
        /\ home(s).usage = r.session[s].usage
        /\ home(s).descendantUsage = r.session[s].descendantUsage
        /\ home(s).retired = IF s = parent THEN r.session[s].retired + spent
                             ELSE r.session[s].retired
        /\ home(s).active = r.session[s].active
        /\ home(s).status = r.session[s].status
  <2> HIDE DEF parent, spent
  <2> TAKE s \in DOMAIN r.session
  <2> DEFINE x == r.session[s]
             more == x.retired + spent
             y == [x EXCEPT !.retired = more]
  <2>1. x \in SessionRecord
    BY <1>2
  <2>2. home(s) = IF s = parent THEN y ELSE x
    OBVIOUS
  <2> HIDE DEF x, more, home
  <2>3. /\ y.parent = x.parent /\ y.depth = x.depth /\ y.usage = x.usage
        /\ y.descendantUsage = x.descendantUsage /\ y.retired = more
        /\ y.active = x.active /\ y.status = x.status
    BY <2>1 DEF SessionRecord
  <2> HIDE DEF y
  <2>4. /\ home(s).parent = x.parent /\ home(s).depth = x.depth
        /\ home(s).usage = x.usage /\ home(s).descendantUsage = x.descendantUsage
        /\ home(s).retired = IF s = parent THEN more ELSE x.retired
        /\ home(s).active = x.active /\ home(s).status = x.status
    BY <2>2, <2>3
  <2> QED
    BY <2>4 DEF x, more
<1>5. q = [r EXCEPT !.session = homes, !.mail = letters, !.retiredUsage = a,
                    !.admittedChildren = b, !.retiredSubcalls = c,
                    !.reserved = d, !.unknown = e, !.retiredUnknown = f]
  BY <1>1 DEF Disposed, Snapshot
<1>6. /\ q.mail = letters /\ q.session = homes /\ q.retiredUsage = a
      /\ q.admittedChildren = b /\ q.retiredSubcalls = c /\ q.reserved = d
      /\ q.unknown = e /\ q.retiredUnknown = f /\ q.usage = r.usage
      /\ q.admittedSubcalls = r.admittedSubcalls
  <2> HIDE DEF q, letters, homes, a, b, c, d, e, f
  <2> QED
    BY <1>1, <1>5 DEF Snapshot
<1>7. Sound(q)
  BY DisposedSound
<1> HIDE DEF q, home
<1>8. /\ DOMAIN q.mail = DOMAIN r.mail \ gone /\ Sessions(q) = Sessions(r) \ S
      /\ \A m \in DOMAIN q.mail : q.mail[m] = r.mail[m]
      /\ \A s \in Sessions(q) : q.session[s] = home(s)
  BY <1>6 DEF Sessions
<1> HIDE DEF letters, homes
<1>9. /\ S \subseteq Sessions(r) /\ target \in S /\ target # Root
      /\ gone \subseteq DOMAIN r.mail
  BY <1>2, UnderIs, IdsAreNumbers DEF Sessions, Root
<1>10. \A m \in DOMAIN r.mail : m \in gone <=> r.mail[m].session \in S
  OBVIOUS
<1>11. parent \in (Sessions(r) \ S) \cup {Root}
  <2>1. parent \in Sessions(r) \cup {Root} /\ parent < target
    BY DEF Sound, Rooted
  <2>2. parent \in Sessions(r) /\ parent \in S => target <= parent
    BY UnderChildren
  <2>3. target \in Nat /\ parent \in Nat
    <3>1. \A x \in Sessions(r) : x \in Nat
      BY <1>2, IdsAreNumbers DEF Sessions
    <3> HIDE DEF parent
    <3> QED
      BY <2>1, <3>1 DEF Root
  <2> QED
    BY <2>1, <2>2, <2>3
<1> HIDE DEF S, gone, parent, spent
<1>12. ChildrenCounted(q)
  <2> DEFINE T == Sessions(r)
  <2>1. T \in SUBSET Ids /\ S \in SUBSET Ids /\ T \cap S = S
    BY <1>2, <1>9 DEF Sessions
  <2>2. r.admittedChildren = Cardinality(T) /\ r.admittedChildren <= MaxChildren
    BY DEF Books, ChildrenCounted
  <2>3. Sessions(q) = T \ S
    BY <1>8
  <2> HIDE DEF T
  <2>4. /\ Cardinality(T \ S) = Cardinality(T) - Cardinality(S)
        /\ Cardinality(T) \in Nat /\ Cardinality(S) \in Nat
    BY <2>1, PartCounts
  <2> QED
    BY <1>6, <2>2, <2>3, <2>4, LimitsAssumption DEF ChildrenCounted
<1>13. Levelled(q)
  <2>1. \A t \in Sessions(q) : r.session[t].parent \in Sessions(q) \cup {Root}
    BY <1>8, RestRooted DEF S
  <2>2. \A x \in Sessions(q) \cup {Root} : Depth(q, x) = Depth(r, x)
    BY <1>4, <1>8 DEF Depth, Sessions
  <2>3. Levelled(r)
    BY DEF Books
  <2> QED
    BY <1>4, <1>8, <2>1, <2>2, <2>3 DEF Levelled, Sessions
<1>14. BoxesHold(q)
  <2>1. /\ Sessions(q) \subseteq Sessions(r) /\ DOMAIN q.mail \subseteq DOMAIN r.mail
        /\ \A m \in DOMAIN q.mail :
             /\ q.mail[m].session = r.mail[m].session
             /\ q.mail[m].status = "pending" => r.mail[m].status = "pending"
    BY <1>8
  <2> QED
    BY <2>1, BoxesKept DEF Books
<1>15. StatusFits(q)
  BY <1>4, <1>8 DEF Books, StatusFits, Sessions
<1>16. MailboxesSummed(q)
  <2>1. ASSUME NEW s \in Sessions(q)
        PROVE  q.session[s].usage = Used(q, Mailbox(q, s))
    <3>1. s \in Sessions(r) /\ s \notin S
      BY <1>8
    <3>2. Reported(q, Mailbox(q, s)) = Reported(r, Mailbox(r, s))
      <4>1. \A m : m \in Mailbox(q, s) <=> m \in Mailbox(r, s)
        BY <1>8, <1>10, <3>1 DEF Mailbox
      <4>2. \A m \in Mailbox(q, s) : q.mail[m] = r.mail[m]
        BY <1>8 DEF Mailbox
      <4> QED
        BY <4>1, <4>2 DEF Reported
    <3>3. \A m \in DOMAIN q.mail \cap DOMAIN r.mail : q.mail[m].usage = r.mail[m].usage
      BY <1>8
    <3>4. Used(q, Mailbox(q, s)) = Used(r, Mailbox(r, s))
      BY <1>7, <3>2, <3>3, SameReports DEF Sound, Mailbox
    <3> QED
      BY <1>4, <1>8, <3>1, <3>4 DEF Books, MailboxesSummed, Sessions
  <2> QED
    BY <2>1 DEF MailboxesSummed
<1>17. MessagesFit(q)
  BY <1>8 DEF Books, MessagesFit, ValidMessage
<1>18. CallsCounted(q)
  <2> DEFINE D == DOMAIN r.mail
  <2>1. D \in SUBSET Ids /\ gone \in SUBSET Ids /\ D \cap gone = gone
    BY <1>2, <1>9
  <2>2. r.admittedSubcalls = Cardinality(D) + r.retiredSubcalls
    BY DEF Books, CallsCounted
  <2>3. DOMAIN q.mail = D \ gone
    BY <1>8
  <2> HIDE DEF D
  <2>4. /\ Cardinality(D \ gone) = Cardinality(D) - Cardinality(gone)
        /\ Cardinality(D) \in Nat /\ Cardinality(gone) \in Nat
    BY <2>1, PartCounts
  <2> QED
    BY <1>1, <1>6, <2>2, <2>3, <2>4 DEF CallsCounted
<1>19. \A status : InStatus(q, status) = InStatus(r, status) \ gone
  BY <1>8 DEF InStatus
<1>20. ASSUME NEW status \in {"running", "outcome_unknown"}
       PROVE  /\ Cardinality(InStatus(q, status)) =
                   Cardinality(InStatus(r, status)) - Cardinality(gone \cap InStatus(r, status))
              /\ Cardinality(InStatus(r, status)) \in Nat
              /\ Cardinality(gone \cap InStatus(r, status)) \in Nat
              /\ ReservedBy(r, gone \cap InStatus(r, status)) =
                   MaxTokensPerMessage * Cardinality(gone \cap InStatus(r, status))
  <2> DEFINE M == InStatus(r, status)
  <2>1. M \in SUBSET Ids /\ gone \in SUBSET Ids
    BY <1>2, <1>9 DEF InStatus
  <2>2. InStatus(q, status) = M \ gone
    BY <1>19
  <2>3. ReservedBy(r, gone \cap M) = MaxTokensPerMessage * Cardinality(gone \cap M)
    BY ReservedInStatus DEF Books
  <2> HIDE DEF M
  <2>4. gone \cap M = M \cap gone
    OBVIOUS
  <2>5. /\ Cardinality(M \ gone) = Cardinality(M) - Cardinality(gone \cap M)
        /\ Cardinality(M) \in Nat /\ Cardinality(gone \cap M) \in Nat
    BY <2>1, <2>4, PartCounts
  <2>6. /\ Cardinality(InStatus(q, status)) = Cardinality(M) - Cardinality(gone \cap M)
        /\ Cardinality(M) \in Nat /\ Cardinality(gone \cap M) \in Nat
        /\ ReservedBy(r, gone \cap M) = MaxTokensPerMessage * Cardinality(gone \cap M)
    BY <2>2, <2>3, <2>5
  <2> QED
    BY <2>6 DEF M
<1>21. Charged(q)
  <2> DEFINE i == Cardinality(InStatus(r, "running"))
             j == Cardinality(gone \cap InStatus(r, "running"))
             k == Cardinality(InStatus(r, "outcome_unknown"))
             l == Cardinality(gone \cap InStatus(r, "outcome_unknown"))
             K == MaxTokensPerMessage
  <2>1. /\ Cardinality(InStatus(q, "running")) = i - j
        /\ i \in Nat /\ j \in Nat /\ running = K * j
    BY <1>20
  <2>2. /\ Cardinality(InStatus(q, "outcome_unknown")) = k - l
        /\ k \in Nat /\ l \in Nat /\ unknown = K * l
    BY <1>20
  <2>3. r.reserved = K * i /\ r.unknown = r.retiredUnknown + K * k
    BY DEF Books, Charged
  <2>4. K \in Nat
    BY LimitsAssumption
  <2> HIDE DEF i, j, k, l, K, running, unknown
  <2>5. K * (i - j) = K * i - K * j /\ K * (k - l) = K * k - K * l
    BY <2>1, <2>2, <2>4
  <2>6. /\ K * i \in Int /\ K * j \in Int /\ K * k \in Int /\ K * l \in Int
    BY <2>1, <2>2, <2>4
  <2>7. q.reserved = K * (i - j) /\ q.unknown = q.retiredUnknown + K * (k - l)
    BY <1>1, <1>6, <2>1, <2>2, <2>3, <2>5, <2>6
  <2> QED
    BY <2>1, <2>2, <2>7 DEF Charged, K
<1>22. RoomKept(q)
  <2>1. Cardinality(InStatus(q, "running")) <= Cardinality(InStatus(r, "running"))
    BY <1>20
  <2>2. Cardinality(InStatus(q, "running")) \in Int /\ Cardinality(InStatus(r, "running")) \in Int
    BY <1>20
  <2> QED
    BY <2>1, <2>2, LimitsAssumption DEF Books, RoomKept
<1>23. ASSUME NEW t \in Sessions(q) \cup {Root}
       PROVE  /\ SubtreeUsage(q, t) = IF t = parent THEN SubtreeUsage(r, t) - spent
                                      ELSE SubtreeUsage(r, t)
              /\ SubtreeUsage(r, t) \in Int
  <2> DEFINE A == Children(r, t)
             B == Children(q, t)
             g == Share(r)
             h == Share(q)
  <2>1. /\ SubtreeUsage(r, t) = Total(g, A) /\ SubtreeUsage(r, t) \in Int
        /\ SubtreeUsage(q, t) = Total(h, B)
    BY <1>1, <1>7, SubtreeUsageIs DEF Sound
  <2>2. t \in Sessions(r) \cup {Root} /\ t \notin S
    BY <1>2, <1>8, <1>9, IdsAreNumbers DEF Sessions, Root
  <2>3. \A x \in A : x \in S <=> x = target
    BY <1>9, <2>2, UnderIs DEF Children, S
  <2>4. target \in A <=> t = parent
    BY DEF Children, parent
  <2>5. \A x : x \in B <=> x \in A /\ x \notin S
    BY <1>4, <1>8 DEF Children, Sessions
  <2>6. A \subseteq Sessions(r) /\ IsFiniteSet(A) /\ B \subseteq A
    <3>1. A \subseteq Sessions(r) /\ Sessions(r) \subseteq Ids /\ B \subseteq A
      BY <1>2, <2>5 DEF Children, Sessions
    <3> HIDE DEF A, B
    <3> QED
      BY <3>1, IdsFinite
  <2>7. /\ \A x \in Sessions(r) : g[x] \in Int
        /\ \A x \in Sessions(q) : x \in Sessions(r) /\ h[x] = g[x]
        /\ g[target] = spent
    <3>1. /\ \A x \in Sessions(r) :
               /\ g[x] \in Int
               /\ g[x] = r.session[x].usage + r.session[x].descendantUsage
          /\ \A x \in Sessions(q) :
               h[x] = q.session[x].usage + q.session[x].descendantUsage
      BY <1>1, <1>7, SharesTyped DEF Sound
    <3> HIDE DEF g, h
    <3> QED
      BY <1>4, <1>8, <3>1 DEF spent, Sessions
  <2>8. B \subseteq Sessions(q)
    BY DEF Children
  <2> HIDE DEF A, B, g, h
  <2>9. IsFiniteSet(B) /\ \A x \in B : g[x] \in Int /\ g[x] = h[x]
    BY <2>6, <2>7, <2>8, FS_Subset
  <2>10. Total(g, B) = Total(h, B) /\ Total(g, B) \in Int
    BY <2>9, TotalSame, TotalType
  <2>11. CASE t = parent
    <3>1. B = A \ {target} /\ target \in A
      BY <2>3, <2>4, <2>5, <2>11
    <3>2. Total(g, A) = g[target] + Total(g, A \ {target})
      BY <2>6, <2>7, <3>1, TotalWithout
    <3>3. Total(g, A) = spent + Total(h, B)
      BY <2>7, <2>10, <3>1, <3>2
    <3> QED
      BY <1>3, <2>1, <2>10, <2>11, <3>3
  <2>12. CASE t # parent
    <3>1. B = A
      BY <2>3, <2>4, <2>5, <2>12
    <3> QED
      BY <2>1, <2>10, <2>12, <3>1
  <2> QED
    BY <2>11, <2>12
<1>24. SubtreesSummed(q)
  <2>1. ASSUME NEW t \in Sessions(q)
        PROVE  q.session[t].descendantUsage = q.session[t].retired + SubtreeUsage(q, t)
    <3>1. t \in Sessions(r)
      BY <1>8
    <3>2. r.session[t].descendantUsage = r.session[t].retired + SubtreeUsage(r, t)
      BY <3>1 DEF Books, SubtreesSummed
    <3>3. r.session[t].retired \in Int
      BY <1>2, <3>1 DEF Sessions, SessionRecord
    <3>4. /\ q.session[t].descendantUsage = r.session[t].descendantUsage
          /\ q.session[t].retired = IF t = parent THEN r.session[t].retired + spent
                                    ELSE r.session[t].retired
      BY <1>4, <1>8, <3>1 DEF Sessions
    <3> QED
      BY <1>3, <1>23, <3>2, <3>3, <3>4
  <2>2. q.usage = q.retiredUsage + SubtreeUsage(q, Root)
    <3>1. r.usage = r.retiredUsage + SubtreeUsage(r, Root)
      BY DEF Books, SubtreesSummed
    <3> QED
      BY <1>1, <1>3, <1>6, <1>23, <3>1
  <2> QED
    BY <2>1, <2>2 DEF SubtreesSummed
<1> QED
  BY <1>12, <1>13, <1>14, <1>15, <1>16, <1>17, <1>18, <1>21, <1>22, <1>24 DEF Books, q

-----------------------------------------------------------------------------
(* The books of a root are kept at every save.                             *)

BooksInvariant == Books(registry) /\ registry.budget = ExpectedBudget(registry)

LEMMA BooksSaved ==
    ASSUME NEW q, Sound(q), Books(q), registry' = Reconciled(q)
    PROVE  BooksInvariant'
<1>1. LET p == Reconciled(q) IN Books(p) /\ p.budget = ExpectedBudget(p)
  BY ReconciledBooks
<1> QED
  BY <1>1 DEF BooksInvariant

LEMMA BooksLeft ==
    ASSUME BooksInvariant, registry' = registry
    PROVE  BooksInvariant'
BY DEF BooksInvariant

LEMMA SavedBooks ==
    ASSUME HostInvariant, BooksInvariant, NEW j, StillRunning(j), NEW attempt,
           SaveOutcome(attempt, j.msg)
    PROVE  BooksInvariant'
<1> DEFINE m == j.msg
<1>1. /\ Sound(registry) /\ Books(registry)
      /\ m \in DOMAIN registry.mail /\ registry.mail[m].status = "running"
  BY DEF HostInvariant, MailInvariant, BooksInvariant, StillRunning, InStatus
<1>2. PICK outcome \in {"completed", "failed"}, tokens \in Nat :
        Save(attempt, m, outcome, tokens)
  <2>1. CASE Save(attempt, m, "failed", 0)
    BY <2>1
  <2>2. CASE \E outcome \in Outcomes, tokens \in Usages :
               Save(attempt, m, outcome, tokens)
    <3>1. Outcomes \subseteq {"completed", "failed"} /\ Usages \subseteq Nat
      BY HostsAssumption, UsagesAssumption
    <3> QED
      BY <2>2, <3>1
  <2> QED
    BY <2>1, <2>2 DEF SaveOutcome
<1> DEFINE discarded == registry.mail[m].cancel \/ attempt.aborted
           result == IF discarded THEN "cancelled" ELSE outcome
           q == Settled(registry, m, result, tokens)
<1>3. registry' = Reconciled(q)
  BY <1>2 DEF Save
<1>4. /\ result \in {"completed", "failed", "cancelled"}
      /\ registry.mail[m].cancel => result = "cancelled"
  OBVIOUS
<1> HIDE DEF result
<1>5. Sound(q) /\ Books(q)
  BY <1>1, <1>4, SettledSound, SettledBooks
<1> HIDE DEF q
<1> QED
  BY <1>3, <1>5, BooksSaved

LEMMA ClaimBooks ==
    ASSUME HostInvariant, BooksInvariant, NEW j, MayClaim(registry, j.msg, j.epoch),
           registry' = Reconciled(Claimed(registry, j.msg))
    PROVE  BooksInvariant'
<1>1. Sound(registry) /\ Books(registry) /\ j.epoch = registry.epoch
  BY DEF HostInvariant, MailInvariant, BooksInvariant, MayClaim
<1>2. Sound(Claimed(registry, j.msg)) /\ Books(Claimed(registry, j.msg))
  BY <1>1, ClaimedSound, ClaimedBooks
<1> QED
  BY <1>2, BooksSaved

LEMMA FenceBooks ==
    ASSUME HostInvariant, BooksInvariant, registry' = Fenced
    PROVE  BooksInvariant'
<1> DEFINE p == Interrupted(registry)
           q == Rotated(p)
<1>1. Sound(registry) /\ Books(registry)
  BY DEF HostInvariant, MailInvariant, BooksInvariant
<1>2. Sound(p) /\ Advances(registry, p, NoMessage) /\ Books(p)
  BY <1>1, InterruptedSound, InterruptedBooks
<1> HIDE DEF p
<1>3. Sound(q) /\ Books(q)
  BY <1>1, <1>2, RotatedSound, RotatedBooks
<1>4. registry' = Reconciled(q)
  BY DEF Fenced, p
<1> HIDE DEF q
<1> QED
  BY <1>3, <1>4, BooksSaved

LEMMA BooksStep ==
    ASSUME HostInvariant, BooksInvariant, [Next]_vars
    PROVE  BooksInvariant'
<1>1. Sound(registry) /\ Books(registry)
  BY DEF HostInvariant, MailInvariant, BooksInvariant
<1>2. CASE registry' = registry
  BY <1>2, BooksLeft
<1>3. CASE UNCHANGED vars
  BY <1>2, <1>3 DEF vars
<1>4. ASSUME NEW h \in Hosts, Spawn(h)
      PROVE  BooksInvariant'
  <2>1. PICK p \in Sessions(registry) \cup {Root} :
          /\ MayAdmitChild(registry, p)
          /\ registry' = Reconciled(Spawned(registry, p))
    BY <1>4 DEF Spawn
  <2>2. Sound(Spawned(registry, p)) /\ Books(Spawned(registry, p))
    BY <1>1, <2>1, SpawnedSound, SpawnedBooks
  <2> QED
    BY <2>1, <2>2, BooksSaved
<1>5. ASSUME NEW h \in Hosts, Send(h)
      PROVE  BooksInvariant'
  <2>1. PICK s \in Sessions(registry), mode \in Modes :
          /\ MaySend(registry, s)
          /\ registry' = Reconciled(Sent(registry, s, mode))
    BY <1>5 DEF Send
  <2>2. mode \in {"steer", "follow-up"}
    BY HostsAssumption
  <2>3. Sound(Sent(registry, s, mode)) /\ Books(Sent(registry, s, mode))
    BY <1>1, <2>1, <2>2, SentSound, SentBooks
  <2> QED
    BY <2>1, <2>3, BooksSaved
<1>6. ASSUME NEW h \in Hosts, Cancel(h)
      PROVE  BooksInvariant'
  <2>1. PICK target \in Sessions(registry) \cup {Root} :
          registry' = Reconciled(CancelledUnder(registry, target))
    BY <1>6 DEF Cancel
  <2>2. /\ Sound(CancelledUnder(registry, target))
        /\ Books(CancelledUnder(registry, target))
    BY <1>1, CancelledSound, CancelledBooks
  <2> QED
    BY <2>1, <2>2, BooksSaved
<1>7. ASSUME NEW h \in Hosts, Dispose(h)
      PROVE  BooksInvariant'
  <2>1. PICK target \in Sessions(registry) :
          registry' = Reconciled(Disposed(registry, target))
    BY <1>7 DEF Dispose
  <2>2. Sound(Disposed(registry, target)) /\ Books(Disposed(registry, target))
    BY <1>1, DisposedSound, DisposedBooks
  <2> QED
    BY <2>1, <2>2, BooksSaved
<1>8. ASSUME NEW h \in Hosts, DispatchStep(h)
      PROVE  BooksInvariant'
  <2>1. CASE Drop(h)
    BY <1>2, <2>1 DEF Drop
  <2>2. CASE Dispatch(h)
    BY <1>2, <2>2, ClaimBooks DEF Dispatch, ClaimOrSkip
  <2>3. CASE DispatchSlowly(h)
    BY <1>2, <2>3 DEF DispatchSlowly
  <2>4. CASE AnswerLate(h)
    BY <1>2, <2>4, ClaimBooks DEF AnswerLate, ClaimOrSkip
  <2>5. CASE Forward(h)
    BY <1>2, <2>5 DEF Forward
  <2>6. CASE Complete(h)
    <3>1. \E j : \/ /\ StillRunning(j)
                    /\ SaveOutcome(attempts[h][j], j.msg)
                 \/ registry' = registry
      BY <2>6 DEF Complete
    <3> QED
      BY <1>2, <3>1, SavedBooks
  <2>7. CASE Finish(h)
    BY <1>2, <2>7 DEF Finish
  <2> QED
    BY <1>8, <2>1, <2>2, <2>3, <2>4, <2>5, <2>6, <2>7 DEF DispatchStep
<1>9. ASSUME NEW h \in Hosts, HostStep(h)
       PROVE  BooksInvariant'
  <2>1. CASE Schedule(h)
    BY <1>2, <2>1 DEF Schedule
  <2>2. CASE Fence(h)
    BY <2>2, FenceBooks DEF Fence
  <2>3. CASE TakeOver(h)
    BY <1>2, <2>3 DEF TakeOver
  <2>4. CASE Resume(h)
    BY <1>2, <2>4 DEF Resume
  <2> QED
    BY <1>9, <2>1, <2>2, <2>3, <2>4 DEF HostStep
<1>10. ASSUME NEW h \in Hosts, FaultStep(h)
       PROVE  BooksInvariant'
  <2>1. CASE LoadFails(h)
    BY <1>2, <2>1 DEF LoadFails
  <2>2. CASE ClaimAnswerLost(h)
    BY <2>2, ClaimBooks DEF ClaimAnswerLost
  <2>3. CASE FenceAnswerLost(h)
    BY <2>3, FenceBooks DEF FenceAnswerLost
  <2>4. CASE CompletionLost(h)
    <3>1. \E j : \/ /\ StillRunning(j)
                    /\ SaveOutcome(attempts[h][j], j.msg)
                 \/ registry' = registry
      BY <2>4 DEF CompletionLost
    <3> QED
      BY <1>2, <3>1, SavedBooks
  <2>5. CASE ResumeRecoveryJob(h) \/ Crash(h) \/ Close(h)
    BY <1>2, <2>5 DEF ResumeRecoveryJob, Crash, Close
  <2> QED
    BY <1>10, <2>1, <2>2, <2>3, <2>4, <2>5 DEF FaultStep
<1> QED
  BY <1>3, <1>4, <1>5, <1>6, <1>7, <1>8, <1>9, <1>10 DEF Next, ClientStep

(* No save is refused: every snapshot that a mutation arrives at passes    *)
(* validateSnapshot, which recounts the sessions, the calls, the           *)
(* reservations and what each subtree used.                                *)
THEOREM SnapshotsAlwaysValid == Spec => []SnapshotsValid
<1>1. Init => BooksInvariant
  <2> SUFFICES ASSUME Init PROVE BooksInvariant
    OBVIOUS
  <2> QED
    BY EmptyBooks DEF Init, BooksInvariant
<1>2. HostInvariant /\ BooksInvariant /\ [Next]_vars => BooksInvariant'
  BY BooksStep
<1>3. HostInvariant /\ BooksInvariant => SnapshotsValid
  <2> SUFFICES ASSUME HostInvariant, BooksInvariant PROVE SnapshotsValid
    OBVIOUS
  <2>1. Sound(registry)
    BY DEF HostInvariant, MailInvariant
  <2> QED
    BY <2>1, BooksValid DEF BooksInvariant, SnapshotsValid
<1> QED
  BY <1>1, <1>2, <1>3, HostsAlways, PTL DEF Spec

-----------------------------------------------------------------------------
(* The schedule.  The jobs of what waits are of the current epoch.         *)
Current(r) == \A m \in InStatus(r, "pending") : r.mail[m].job = r.epoch

\* A mutation within an epoch: what waits waited before, or is new.
Queues(r, q) ==
  /\ q.epoch = r.epoch
  /\ \A m \in DOMAIN q.mail : q.mail[m].status = "pending" =>
       \/ q.mail[m].job = r.epoch
       \/ /\ m \in DOMAIN r.mail /\ r.mail[m].status = "pending"
          /\ q.mail[m].job = r.mail[m].job

LEMMA QueuesKept ==
    ASSUME NEW r, NEW q, Current(r), Queues(r, q)
    PROVE  Current(q)
BY DEF Current, Queues, InStatus

LEMMA ReconciledCurrent ==
    ASSUME NEW r, Sound(r)
    PROVE  /\ Reconciled(r).epoch = r.epoch /\ Reconciled(r).mail = r.mail
           /\ Reconciled(r).session = r.session
           /\ Reconciled(r).admittedSubcalls = r.admittedSubcalls
           /\ Reconciled(r).usage = r.usage /\ Reconciled(r).unknown = r.unknown
           /\ Reconciled(r).reserved = r.reserved
BY DEF Sound, Snapshot, Reconciled

LEMMA SpawnedCurrent ==
    ASSUME NEW r, Sound(r), NEW p
    PROVE  Queues(r, Spawned(r, p))
<1> DEFINE q == Spawned(r, p)
           s == r.admittedSubcalls + 1
           note == NewMessage(r, s, "follow-up")
           mail == With(r.mail, s, note)
<1>1. q.mail = mail /\ q.epoch = r.epoch
  BY DEF Sound, Snapshot, Spawned
<1>2. note.job = r.epoch
  BY DEF NewMessage
<1> HIDE DEF q, note, s
<1>3. \A m \in DOMAIN mail : mail[m] = note \/ (m \in DOMAIN r.mail /\ mail[m] = r.mail[m])
  BY DEF With
<1> QED
  BY <1>1, <1>2, <1>3 DEF Queues, q

LEMMA SentCurrent ==
    ASSUME NEW r, Sound(r), NEW s, NEW mode
    PROVE  Queues(r, Sent(r, s, mode))
<1> DEFINE q == Sent(r, s, mode)
           n == r.admittedSubcalls + 1
           active == r.session[s].active
           note == NewMessage(r, s, mode)
           mail == With(r.mail, n, note)
           steers == mode = "steer" /\ active # NoMessage
           letters == IF steers THEN [mail EXCEPT ![active].cancel = TRUE] ELSE mail
<1>1. q.mail = letters /\ q.epoch = r.epoch
  BY DEF Sound, Snapshot, Sent
<1>2. note.job = r.epoch
  BY DEF NewMessage
<1> HIDE DEF q, note, n
<1>3. \A m \in DOMAIN mail : mail[m] = note \/ (m \in DOMAIN r.mail /\ mail[m] = r.mail[m])
  BY DEF With
<1>4. \A m \in DOMAIN r.mail : r.mail[m] \in Message
  BY SnapshotFields DEF Sound
<1>5. \A m \in DOMAIN mail :
        LET e == mail[m] f == [e EXCEPT !.cancel = TRUE] IN
        f.job = e.job /\ f.status = e.status
  <2> HIDE DEF mail
  <2> TAKE m \in DOMAIN mail
  <2>1. CASE mail[m] = note
    BY <2>1 DEF note, NewMessage
  <2>2. CASE m \in DOMAIN r.mail /\ mail[m] = r.mail[m]
    BY <1>4, <2>2 DEF Message
  <2> QED
    BY <1>3, <2>1, <2>2
<1> HIDE DEF mail
<1>6. DOMAIN letters = DOMAIN mail /\ \A m \in DOMAIN mail :
        letters[m] = mail[m] \/ letters[m] = [mail[m] EXCEPT !.cancel = TRUE]
  OBVIOUS
<1> HIDE DEF letters
<1>7. \A m \in DOMAIN mail : letters[m].job = mail[m].job /\ letters[m].status = mail[m].status
  BY <1>5, <1>6
<1> QED
  BY <1>1, <1>2, <1>3, <1>6, <1>7 DEF Queues, q

LEMMA WithdrawnJob ==
    ASSUME NEW e \in Message
    PROVE  /\ [e EXCEPT !.status = "cancelled"].status = "cancelled"
           /\ [e EXCEPT !.cancel = TRUE].status = e.status
           /\ [e EXCEPT !.cancel = TRUE].job = e.job
BY DEF Message

LEMMA CancelledCurrent ==
    ASSUME NEW r, Sound(r), NEW target
    PROVE  Queues(r, CancelledUnder(r, target))
<1> DEFINE q == CancelledUnder(r, target)
           S == Under(r, target)
           letter(m) == IF ~(r.mail[m].session \in S) THEN r.mail[m]
                        ELSE IF r.mail[m].status = "pending"
                             THEN [r.mail[m] EXCEPT !.status = "cancelled"]
                        ELSE IF r.mail[m].status = "running"
                             THEN [r.mail[m] EXCEPT !.cancel = TRUE]
                        ELSE r.mail[m]
<1>1. q.mail = [m \in DOMAIN r.mail |-> letter(m)] /\ q.epoch = r.epoch
  BY DEF Sound, Snapshot, CancelledUnder
<1>2. \A m \in DOMAIN r.mail : r.mail[m] \in Message
  BY SnapshotFields DEF Sound
<1> HIDE DEF S, q
<1>3. ASSUME NEW m \in DOMAIN r.mail, letter(m).status = "pending"
      PROVE  letter(m).job = r.mail[m].job /\ r.mail[m].status = "pending"
  <2> DEFINE e == r.mail[m]
  <2>1. e \in Message
    BY <1>2
  <2>2. letter(m) \in {e, [e EXCEPT !.status = "cancelled"], [e EXCEPT !.cancel = TRUE]}
    OBVIOUS
  <2> HIDE DEF e, letter
  <2>3. letter(m).job = e.job /\ e.status = "pending"
    BY <1>3, <2>1, <2>2, WithdrawnJob
  <2> QED
    BY <2>3 DEF e
<1> HIDE DEF letter
<1> QED
  BY <1>1, <1>3 DEF Queues, q

LEMMA StopExhaustedCurrent ==
    ASSUME NEW r, Sound(r)
    PROVE  /\ Queues(r, StopExhausted(r))
           /\ InStatus(StopExhausted(r), "pending") = {}
<1> DEFINE q == StopExhausted(r)
           letter(m) == IF r.mail[m].status = "pending"
                             THEN [r.mail[m] EXCEPT !.status = "cancelled"]
                        ELSE IF r.mail[m].status = "running"
                             THEN [r.mail[m] EXCEPT !.cancel = TRUE]
                        ELSE r.mail[m]
<1>1. q.mail = [m \in DOMAIN r.mail |-> letter(m)] /\ q.epoch = r.epoch
  BY DEF Sound, Snapshot, StopExhausted
<1>2. \A m \in DOMAIN r.mail : r.mail[m] \in Message
  BY SnapshotFields DEF Sound
<1> HIDE DEF q
<1>3. ASSUME NEW m \in DOMAIN r.mail
      PROVE  letter(m).status # "pending"
  <2> DEFINE e == r.mail[m]
  <2>1. e \in Message
    BY <1>2
  <2>2. letter(m) = IF e.status = "pending" THEN [e EXCEPT !.status = "cancelled"]
                    ELSE IF e.status = "running" THEN [e EXCEPT !.cancel = TRUE] ELSE e
    OBVIOUS
  <2> HIDE DEF e, letter
  <2> QED
    BY <2>1, <2>2, WithdrawnJob
<1> HIDE DEF letter
<1> QED
  BY <1>1, <1>3 DEF Queues, InStatus, q

LEMMA DisposedCurrent ==
    ASSUME NEW r, Sound(r), NEW target
    PROVE  Queues(r, Disposed(r, target))
<1> DEFINE q == Disposed(r, target)
           S == Under(r, target)
           gone == {m \in DOMAIN r.mail : r.mail[m].session \in S}
<1>1. q.mail = [m \in DOMAIN r.mail \ gone |-> r.mail[m]] /\ q.epoch = r.epoch
  BY DEF Sound, Snapshot, Disposed
<1> HIDE DEF q, gone
<1> QED
  BY <1>1 DEF Queues, q

LEMMA ClaimedCurrent ==
    ASSUME NEW r, Sound(r), NEW m \in DOMAIN r.mail
    PROVE  Queues(r, Claimed(r, m))
<1> DEFINE q == Claimed(r, m)
           letter == [r.mail[m] EXCEPT !.status = "running", !.started = TRUE,
                                       !.reserved = TRUE]
<1>1. q.mail = [r.mail EXCEPT ![m] = letter] /\ q.epoch = r.epoch
  BY DEF Sound, Snapshot, Claimed
<1>2. r.mail[m] \in Message
  BY SnapshotFields DEF Sound
<1>3. letter.status = "running"
  <2> DEFINE e == r.mail[m]
  <2> HIDE DEF e
  <2>1. e \in Message => [e EXCEPT !.status = "running", !.started = TRUE,
                                   !.reserved = TRUE].status = "running"
    BY DEF Message
  <2> QED
    BY <1>2, <2>1 DEF e
<1> HIDE DEF q, letter
<1> QED
  BY <1>1, <1>3 DEF Queues, q

LEMMA EndedCurrent ==
    ASSUME NEW r, Sound(r), NEW m \in DOMAIN r.mail, NEW outcome, outcome # "pending",
           NEW tokens
    PROVE  Queues(r, Ended(r, m, outcome, tokens))
<1> DEFINE q == Ended(r, m, outcome, tokens)
           letter == [r.mail[m] EXCEPT !.status = outcome, !.reserved = FALSE,
                                       !.usage = tokens]
<1>1. q.mail = [r.mail EXCEPT ![m] = letter] /\ q.epoch = r.epoch
  BY DEF Sound, Snapshot, Ended
<1>2. r.mail[m] \in Message
  BY SnapshotFields DEF Sound
<1>3. letter.status = outcome
  <2> DEFINE e == r.mail[m]
  <2> HIDE DEF e
  <2>1. e \in Message => [e EXCEPT !.status = outcome, !.reserved = FALSE,
                                   !.usage = tokens].status = outcome
    BY DEF Message
  <2> QED
    BY <1>2, <2>1 DEF e
<1> HIDE DEF q, letter
<1> QED
  BY <1>1, <1>3 DEF Queues, q

\* A saved mutation within the epoch.
LEMMA SavedQueues ==
    ASSUME Current(registry), NEW q, Sound(q), Queues(registry, q),
           registry' = Reconciled(q)
    PROVE  Current(registry') /\ registry'.epoch = registry.epoch
<1>1. Current(q)
  BY QueuesKept
<1> QED
  BY <1>1, ReconciledCurrent DEF Current, Queues, InStatus

\* A spent budget leaves nothing waiting.
LEMMA OutcomeQueues ==
    ASSUME HostInvariant, Current(registry), NEW j, StillRunning(j), NEW attempt,
           SaveOutcome(attempt, j.msg)
    PROVE  /\ Current(registry') /\ registry'.epoch = registry.epoch
           /\ Exhausted(registry') => InStatus(registry', "pending") = {}
<1> DEFINE m == j.msg
<1>1. /\ Sound(registry) /\ m \in DOMAIN registry.mail
      /\ registry.mail[m].status = "running"
  BY DEF HostInvariant, MailInvariant, StillRunning, InStatus
<1>2. PICK result \in {"completed", "failed", "cancelled"}, tokens \in Int :
        /\ registry' = Reconciled(Settled(registry, m, result, tokens))
        /\ registry.mail[m].cancel => result = "cancelled"
  <2>1. Outcomes \subseteq {"completed", "failed"} /\ Usages \subseteq Int
    BY HostsAssumption, UsagesAssumption
  <2>2. PICK outcome \in {"completed", "failed"}, tokens \in Int :
          Save(attempt, m, outcome, tokens)
    BY <2>1 DEF SaveOutcome
  <2> QED
    BY <2>2 DEF Save
<1> DEFINE p == Ended(registry, m, result, tokens)
           q == Settled(registry, m, result, tokens)
<1>3. Sound(p) /\ Queues(registry, p)
  BY <1>1, <1>2, EndedSound, EndedCurrent
<1>4. Sound(q)
  BY <1>1, <1>2, SettledSound
<1>5. q = IF Exhausted(p) THEN StopExhausted(p) ELSE p
  BY SettledIs
<1> HIDE DEF p, q
<1>6. Queues(p, StopExhausted(p)) /\ InStatus(StopExhausted(p), "pending") = {}
  BY <1>3, StopExhaustedCurrent
<1>7. CASE Exhausted(p)
  <2>1. Current(p)
    BY <1>3, QueuesKept
  <2>2. Current(q) /\ q.epoch = registry.epoch /\ InStatus(q, "pending") = {}
    BY <1>3, <1>5, <1>6, <1>7, <2>1, QueuesKept DEF Queues
  <2>3. registry' = Reconciled(q)
    BY <1>2 DEF q
  <2> QED
    BY <1>4, <2>2, <2>3, ReconciledCurrent DEF Current, InStatus
<1>8. CASE ~Exhausted(p)
  <2>1. q = p
    BY <1>5, <1>8
  <2>2. registry' = Reconciled(q)
    BY <1>2 DEF q
  <2>3. ~Exhausted(registry')
    BY <1>4, <1>8, <2>1, <2>2, ReconciledCurrent DEF Exhausted, Durable
  <2> QED
    BY <1>3, <2>1, <2>2, <2>3, SavedQueues
<1> QED
  BY <1>7, <1>8

LEMMA FenceQueues ==
    ASSUME HostInvariant, registry' = Fenced
    PROVE  Current(registry') /\ registry'.epoch = registry.epoch + 1
<1> DEFINE p == Interrupted(registry)
           q == Rotated(p)
<1>1. Sound(registry)
  BY DEF HostInvariant, MailInvariant
<1>2. Sound(p) /\ Advances(registry, p, NoMessage) /\ p.epoch = registry.epoch
  BY <1>1, InterruptedSound
<1> HIDE DEF p
<1>3. Sound(q) /\ q.epoch = p.epoch + 1
  BY <1>1, <1>2, RotatedSound
<1>4. \A m \in DOMAIN p.mail : p.mail[m] \in Message
  BY <1>2, SnapshotFields DEF Sound
<1>5. /\ DOMAIN q.mail = DOMAIN p.mail
      /\ \A m \in DOMAIN p.mail :
           q.mail[m] = IF p.mail[m].status = "pending"
                       THEN [p.mail[m] EXCEPT !.job = p.epoch + 1] ELSE p.mail[m]
  BY <1>2 DEF Rotated, Sound, Snapshot
<1>6. Current(q)
  <2>1. ASSUME NEW m \in DOMAIN p.mail, q.mail[m].status = "pending"
        PROVE  q.mail[m].job = p.epoch + 1
    <3> DEFINE e == p.mail[m]
               n == p.epoch + 1
               f == [e EXCEPT !.job = n]
    <3>1. e \in Message /\ q.mail[m] = IF e.status = "pending" THEN f ELSE e
      BY <1>4, <1>5
    <3> HIDE DEF e, n
    <3>2. f.job = n
      BY <3>1 DEF Message
    <3> QED
      BY <2>1, <3>1, <3>2 DEF n
  <2> QED
    BY <1>3, <1>5, <2>1 DEF Current, InStatus
<1>7. registry' = Reconciled(q)
  BY DEF Fenced, p
<1> HIDE DEF q
<1> QED
  BY <1>2, <1>3, <1>6, <1>7, ReconciledCurrent DEF Current, InStatus

\* What the registry does in a step: nothing, or a fence, or a mutation at
\* the epoch.
Within ==
  /\ Current(registry')
  /\ registry'.epoch \in {registry.epoch, registry.epoch + 1}

LEMMA SameWithin ==
    ASSUME Current(registry), registry' = registry
    PROVE  Within
BY DEF Within

LEMMA ClaimWithin ==
    ASSUME HostInvariant, Current(registry), NEW j,
           MayClaim(registry, j.msg, j.epoch),
           registry' = Reconciled(Claimed(registry, j.msg))
    PROVE  Current(registry') /\ registry'.epoch = registry.epoch
<1>1. Sound(registry) /\ MayClaim(registry, j.msg, registry.epoch)
      /\ j.msg \in DOMAIN registry.mail
  BY DEF HostInvariant, MailInvariant, MayClaim
<1>2. Sound(Claimed(registry, j.msg)) /\ Queues(registry, Claimed(registry, j.msg))
  BY <1>1, ClaimedSound, ClaimedCurrent
<1> QED
  BY <1>2, SavedQueues

LEMMA StepWithin ==
    ASSUME HostInvariant, Current(registry), [Next]_vars
    PROVE  Within
<1>1. Sound(registry)
  BY DEF HostInvariant, MailInvariant
<1>2. CASE registry' = registry
  BY <1>2, SameWithin
<1>3. CASE UNCHANGED vars
  BY <1>2, <1>3 DEF vars
<1>4. ASSUME NEW h \in Hosts, Spawn(h)
      PROVE  Within
  <2>1. PICK p \in Sessions(registry) \cup {Root} :
          /\ MayAdmitChild(registry, p)
          /\ registry' = Reconciled(Spawned(registry, p))
    BY <1>4 DEF Spawn
  <2>2. Sound(Spawned(registry, p)) /\ Queues(registry, Spawned(registry, p))
    BY <1>1, <2>1, SpawnedSound, SpawnedCurrent
  <2> QED
    BY <2>1, <2>2, SavedQueues DEF Within
<1>5. ASSUME NEW h \in Hosts, Send(h)
      PROVE  Within
  <2>1. PICK s \in Sessions(registry), mode \in Modes :
          /\ MaySend(registry, s)
          /\ registry' = Reconciled(Sent(registry, s, mode))
    BY <1>5 DEF Send
  <2>2. mode \in {"steer", "follow-up"}
    BY HostsAssumption
  <2>3. Sound(Sent(registry, s, mode)) /\ Queues(registry, Sent(registry, s, mode))
    BY <1>1, <2>1, <2>2, SentSound, SentCurrent
  <2> QED
    BY <2>1, <2>3, SavedQueues DEF Within
<1>6. ASSUME NEW h \in Hosts, Cancel(h)
      PROVE  Within
  <2>1. PICK target \in Sessions(registry) \cup {Root} :
          registry' = Reconciled(CancelledUnder(registry, target))
    BY <1>6 DEF Cancel
  <2>2. /\ Sound(CancelledUnder(registry, target))
        /\ Queues(registry, CancelledUnder(registry, target))
    BY <1>1, CancelledSound, CancelledCurrent
  <2> QED
    BY <2>1, <2>2, SavedQueues DEF Within
<1>7. ASSUME NEW h \in Hosts, Dispose(h)
      PROVE  Within
  <2>1. PICK target \in Sessions(registry) :
          registry' = Reconciled(Disposed(registry, target))
    BY <1>7 DEF Dispose
  <2>2. Sound(Disposed(registry, target)) /\ Queues(registry, Disposed(registry, target))
    BY <1>1, DisposedSound, DisposedCurrent
  <2> QED
    BY <2>1, <2>2, SavedQueues DEF Within
<1>8. ASSUME NEW h \in Hosts, DispatchStep(h)
      PROVE  Within
  <2>1. CASE Drop(h)
    BY <1>2, <2>1 DEF Drop
  <2>2. CASE Dispatch(h)
    BY <1>2, <2>2, ClaimWithin DEF Dispatch, ClaimOrSkip, Within
  <2>3. CASE DispatchSlowly(h)
    BY <1>2, <2>3 DEF DispatchSlowly
  <2>4. CASE AnswerLate(h)
    BY <1>2, <2>4, ClaimWithin DEF AnswerLate, ClaimOrSkip, Within
  <2>5. CASE Forward(h)
    BY <1>2, <2>5 DEF Forward
  <2>6. CASE Complete(h)
    <3>1. \E j : \/ /\ StillRunning(j)
                    /\ SaveOutcome(attempts[h][j], j.msg)
                 \/ registry' = registry
      BY <2>6 DEF Complete
    <3> QED
      BY <1>2, <3>1, OutcomeQueues DEF Within
  <2>7. CASE Finish(h)
    BY <1>2, <2>7 DEF Finish
  <2> QED
    BY <1>8, <2>1, <2>2, <2>3, <2>4, <2>5, <2>6, <2>7 DEF DispatchStep
<1>9. ASSUME NEW h \in Hosts, HostStep(h)
      PROVE  Within
  <2>1. CASE Schedule(h)
    BY <1>2, <2>1 DEF Schedule
  <2>2. CASE Fence(h)
    BY <2>2, FenceQueues DEF Fence, Within
  <2>3. CASE TakeOver(h)
    BY <1>2, <2>3 DEF TakeOver
  <2>4. CASE Resume(h)
    BY <1>2, <2>4 DEF Resume
  <2> QED
    BY <1>9, <2>1, <2>2, <2>3, <2>4 DEF HostStep
<1>10. ASSUME NEW h \in Hosts, FaultStep(h)
       PROVE  Within
  <2>1. CASE LoadFails(h)
    BY <1>2, <2>1 DEF LoadFails
  <2>2. CASE ClaimAnswerLost(h)
    BY <2>2, ClaimWithin DEF ClaimAnswerLost, Within
  <2>3. CASE FenceAnswerLost(h)
    BY <2>3, FenceQueues DEF FenceAnswerLost, Within
  <2>4. CASE CompletionLost(h)
    <3>1. \E j : \/ /\ StillRunning(j)
                    /\ SaveOutcome(attempts[h][j], j.msg)
                 \/ registry' = registry
      BY <2>4 DEF CompletionLost
    <3> QED
      BY <1>2, <3>1, OutcomeQueues DEF Within
  <2>5. CASE ResumeRecoveryJob(h) \/ Crash(h) \/ Close(h)
    BY <1>2, <2>5 DEF ResumeRecoveryJob, Crash, Close
  <2> QED
    BY <1>10, <2>1, <2>2, <2>3, <2>4, <2>5 DEF FaultStep
<1> QED
  BY <1>3, <1>4, <1>5, <1>6, <1>7, <1>8, <1>9, <1>10 DEF Next, ClientStep

LEMMA NextWaits ==
    ASSUME NEW r, Sound(r), NEW s, Pending(r, s) # {}
    PROVE  NextPending(r, s) \in Pending(r, s)
<1> DEFINE steers == {m \in Pending(r, s) : r.mail[m].mode = "steer"}
           M == IF steers # {} THEN steers ELSE Pending(r, s)
<1>1. DOMAIN r.mail \in SUBSET Nat
  BY SnapshotFields, IdsAreNumbers DEF Sound
<1>2. M \in SUBSET Nat /\ M # {} /\ M \subseteq Pending(r, s)
  BY <1>1 DEF Pending, Mailbox
<1>3. NextPending(r, s) = Min(M)
  BY DEF NextPending
<1> HIDE DEF M
<1>4. Min(M) \in M
  BY <1>2, NatHasMinimum DEF Min
<1> QED
  BY <1>2, <1>3, <1>4

\* What is scheduled waits, and its job is of the epoch.
LEMMA ReadyJobsWait ==
    ASSUME NEW r, Sound(r), Current(r), NEW h, NEW epoch, NEW j \in ReadyJobs(h, r, epoch)
    PROVE  /\ h \notin closed /\ owned[h] = epoch /\ r.epoch = epoch
           /\ j.epoch = epoch /\ j.msg \in InStatus(r, "pending")
<1> DEFINE ready == {s \in Sessions(r) \ Busy(r) : Pending(r, s) # {}}
           room == MaxConcurrency - Cardinality(Busy(r))
           first == {s \in ready : Cardinality({t \in ready : t < s}) < room}
<1>1. /\ h \notin closed /\ owned[h] = epoch /\ r.epoch = epoch
      /\ j \in {Job(m, r.mail[m].job) : m \in {NextPending(r, s) : s \in first}}
  BY DEF ReadyJobs
<1>2. PICK s \in first : j = Job(NextPending(r, s), r.mail[NextPending(r, s)].job)
  BY <1>1
<1>3. Pending(r, s) # {}
  BY <1>2
<1>4. NextPending(r, s) \in InStatus(r, "pending")
  BY <1>3, NextWaits DEF Pending
<1> QED
  BY <1>1, <1>2, <1>4 DEF Job, Current

\* Where a message may be claimed, one is scheduled that may be: the next of
\* the oldest session that is ready.
LEMMA ReadyJobsWake ==
    ASSUME NEW r, Sound(r), Books(r), r.budget = ExpectedBudget(r), Current(r),
           NEW h, h \notin closed, owned[h] = r.epoch,
           NEW n, MayClaim(r, n, r.epoch)
    PROVE  \E j \in ReadyJobs(h, r, r.epoch) : MayClaim(r, j.msg, j.epoch)
<1> DEFINE ready == {s \in Sessions(r) \ Busy(r) : Pending(r, s) # {}}
           room == MaxConcurrency - Cardinality(Busy(r))
           first == {s \in ready : Cardinality({t \in ready : t < s}) < room}
<1>1. /\ n \in DOMAIN r.mail /\ r.mail[n].status = "pending"
      /\ r.session[r.mail[n].session].active = NoMessage
      /\ Cardinality(Busy(r)) < MaxConcurrency
      /\ Committed(r) + MaxTokensPerMessage <= MaxTokens
  BY DEF MayClaim
<1>2. r.mail[n].session \in ready
  BY <1>1 DEF Sound, Housed, Busy, Pending, Mailbox, InStatus
<1>3. ready \in SUBSET Nat
  BY SnapshotFields, IdsAreNumbers DEF Sound, Sessions
<1>4. PICK s \in ready : \A t \in ready : s <= t
  BY <1>2, <1>3, NatHasMinimum
<1>5. s \in first
  <2>1. {t \in ready : t < s} = {}
    BY <1>3, <1>4
  <2>2. Cardinality({t \in ready : t < s}) = 0
    BY <2>1, FS_EmptySet
  <2>3. Cardinality(Busy(r)) \in Nat
    BY RunningAtMostBusy
  <2>4. 0 < room
    BY <1>1, <2>3, LimitsAssumption
  <2> HIDE DEF ready, room
  <2> QED
    BY <1>4, <2>2, <2>4
<1>6. r.budget # "tokens"
  <2>1. Cardinality(InStatus(r, "running")) \in Nat
    BY RunningAtMostBusy
  <2>2. r.reserved = MaxTokensPerMessage * Cardinality(InStatus(r, "running"))
    BY DEF Books, Charged
  <2>3. /\ MaxTokensPerMessage \in Nat /\ MaxTokens \in Nat
        /\ r.usage \in Int /\ r.unknown \in Int
    BY LimitsAssumption, SnapshotFields DEF Sound
  <2> DEFINE c == Cardinality(InStatus(r, "running"))
  <2> HIDE DEF c
  <2>4. r.reserved \in Nat
    BY <2>1, <2>2, <2>3 DEF c
  <2>5. ~Exhausted(r)
    BY <1>1, <2>3, <2>4 DEF Exhausted, Committed, Durable
  <2> QED
    BY <2>5 DEF ExpectedBudget
<1> DEFINE m == NextPending(r, s)
           j == Job(m, r.mail[m].job)
<1>7. /\ m \in Pending(r, s) /\ s \notin Busy(r) /\ s \in Sessions(r)
      /\ m \in DOMAIN r.mail /\ r.mail[m].status = "pending" /\ r.mail[m].session = s
  <2>1. Pending(r, s) # {} /\ s \notin Busy(r) /\ s \in Sessions(r)
    BY <1>4
  <2>2. m \in Pending(r, s)
    BY <2>1, NextWaits
  <2> QED
    BY <2>1, <2>2 DEF Pending, Mailbox, InStatus
<1>8. r.mail[m].job = r.epoch
  BY <1>7 DEF Current, InStatus
<1>9. MayClaim(r, j.msg, j.epoch)
  <2>1. j.msg = m /\ j.epoch = r.epoch
    BY <1>8 DEF Job
  <2>2. r.session[s].active = NoMessage
    BY <1>7 DEF Busy
  <2> HIDE DEF j
  <2>3. NextPending(r, r.mail[m].session) = m
    BY <1>7
  <2> HIDE DEF m
  <2> QED
    BY <1>1, <1>7, <1>8, <2>1, <2>2, <2>3 DEF MayClaim
<1>10. j \in ReadyJobs(h, r, r.epoch)
  <2>1. j \in {Job(x, r.mail[x].job) : x \in {NextPending(r, t) : t \in first}}
    BY <1>5
  <2>2. ReadyJobs(h, r, r.epoch)
          = {Job(x, r.mail[x].job) : x \in {NextPending(r, t) : t \in first}}
    BY <1>6 DEF ReadyJobs
  <2> QED
    BY <2>1, <2>2
<1> QED
  BY <1>9, <1>10

-----------------------------------------------------------------------------
(* A claim that another mutation leaves possible.                          *)
SameClaim(r, q, m) ==
  LET s == r.mail[m].session IN
  /\ m \in DOMAIN r.mail /\ m \in DOMAIN q.mail
  /\ q.mail[m].status = r.mail[m].status /\ q.mail[m].job = r.mail[m].job
  /\ q.mail[m].session = s /\ s \in Sessions(r)
  /\ q.session[s].active = r.session[s].active
  /\ Pending(q, s) = Pending(r, s)
  /\ \A x \in Pending(r, s) : q.mail[x].mode = r.mail[x].mode

LEMMA ClaimStays ==
    ASSUME NEW r, NEW q, NEW m, SameClaim(r, q, m), Busy(q) = Busy(r),
           q.epoch = r.epoch, Committed(q) = Committed(r), NEW epoch
    PROVE  MayClaim(q, m, epoch) <=> MayClaim(r, m, epoch)
<1> DEFINE s == r.mail[m].session
<1>1. NextPending(q, s) = NextPending(r, s)
  <2>1. {x \in Pending(q, s) : q.mail[x].mode = "steer"}
          = {x \in Pending(r, s) : r.mail[x].mode = "steer"}
    BY DEF SameClaim
  <2> QED
    BY <2>1 DEF NextPending, SameClaim
<1> QED
  BY <1>1 DEF MayClaim, SameClaim

LEMMA SpawnedClaims ==
    ASSUME NEW r, Sound(r), NEW p \in Sessions(r) \cup {Root}, MayAdmitChild(r, p),
           NEW m \in DOMAIN r.mail, NEW epoch
    PROVE  LET q == Reconciled(Spawned(r, p)) IN
           /\ MayClaim(q, m, epoch) <=> MayClaim(r, m, epoch)
           /\ m \in DOMAIN q.mail /\ q.mail[m].status = r.mail[m].status
           /\ q.epoch = r.epoch
           /\ DOMAIN q.mail = DOMAIN r.mail \cup {q.admittedSubcalls}
<1> DEFINE a == Spawned(r, p)
           q == Reconciled(a)
           s == r.admittedSubcalls + 1
           note == NewMessage(r, s, "follow-up")
           made == [parent |-> p, depth |-> Depth(r, p) + 1, status |-> "queued",
                    active |-> NoMessage, usage |-> 0, descendantUsage |-> 0,
                    retired |-> 0]
           mail == With(r.mail, s, note)
           homes == With(r.session, s, made)
           t == r.mail[m].session
<1>1. s \notin DOMAIN r.mail /\ s \notin Sessions(r)
  BY NextId DEF MayAdmitChild
<1>2. /\ a.mail = mail /\ a.session = homes /\ a.epoch = r.epoch
      /\ a.admittedSubcalls = s
      /\ a.usage = r.usage /\ a.unknown = r.unknown /\ a.reserved = r.reserved
  BY DEF Spawned, Sound, Snapshot
<1>3. Sound(a)
  BY SpawnedSound
<1>4. note.session = s /\ made.active = NoMessage
  BY DEF NewMessage
<1> HIDE DEF a, note, made, s
<1>5. /\ q.mail = mail /\ q.session = homes /\ q.epoch = r.epoch
      /\ q.admittedSubcalls = s
      /\ q.usage = r.usage /\ q.unknown = r.unknown /\ q.reserved = r.reserved
  BY <1>2, <1>3, ReconciledCurrent
<1> HIDE DEF q
<1>6. /\ DOMAIN q.mail = DOMAIN r.mail \cup {s} /\ q.mail[s] = note
      /\ \A x \in DOMAIN r.mail : q.mail[x] = r.mail[x]
      /\ DOMAIN q.session = DOMAIN r.session \cup {s} /\ q.session[s] = made
      /\ \A x \in DOMAIN r.session : q.session[x] = r.session[x]
  BY <1>1, <1>5 DEF With, Sessions
<1> HIDE DEF mail, homes
<1>7. t \in Sessions(r) /\ t # s
  BY <1>1 DEF Sound, Housed
<1>8. Pending(q, t) = Pending(r, t)
  <2>1. \A x : x \in Pending(q, t) <=> x \in Pending(r, t)
    BY <1>4, <1>6, <1>7 DEF Pending, Mailbox, InStatus
  <2> QED
    BY <2>1
<1>9. SameClaim(r, q, m)
  BY <1>6, <1>7, <1>8 DEF SameClaim, Sessions, Pending, Mailbox
<1>10. Busy(q) = Busy(r)
  <2>1. \A x : x \in Busy(q) <=> x \in Busy(r)
    BY <1>1, <1>4, <1>6 DEF Busy, Sessions
  <2> QED
    BY <2>1
<1>11. Committed(q) = Committed(r)
  BY <1>5 DEF Committed, Durable
<1>12. MayClaim(q, m, epoch) <=> MayClaim(r, m, epoch)
  BY <1>5, <1>9, <1>10, <1>11, ClaimStays
<1> QED
  BY <1>5, <1>6, <1>12 DEF q, a, s

\* A message to a busy session waits behind the run, and changes nothing for
\* the others.
LEMMA SentClaims ==
    ASSUME NEW r, Sound(r), NEW s \in Sessions(r), NEW mode \in {"steer", "follow-up"},
           MaySend(r, s), r.session[s].active # NoMessage, NEW m, NEW epoch
    PROVE  LET q == Reconciled(Sent(r, s, mode)) IN
           /\ MayClaim(q, m, epoch) <=> MayClaim(r, m, epoch)
           /\ m \in DOMAIN r.mail => /\ m \in DOMAIN q.mail
                                    /\ q.mail[m].status = r.mail[m].status
           /\ q.epoch = r.epoch
<1> DEFINE a == Sent(r, s, mode)
           q == Reconciled(a)
           n == r.admittedSubcalls + 1
           note == NewMessage(r, s, mode)
           active == r.session[s].active
           mail == With(r.mail, n, note)
           steers == mode = "steer" /\ active # NoMessage
           asked == [r.mail[active] EXCEPT !.cancel = TRUE]
           status == IF steers THEN "cancelling" ELSE r.session[s].status
           left == [r.session[s] EXCEPT !.status = status]
           letters == IF steers THEN [mail EXCEPT ![active] = asked] ELSE mail
           homes == [r.session EXCEPT ![s] = left]
<1>1. n \notin DOMAIN r.mail
  BY NextId DEF MaySend
<1>2. /\ \A x \in DOMAIN r.session : r.session[x] \in SessionRecord
      /\ \A x \in DOMAIN r.mail : r.mail[x] \in Message
      /\ s \in DOMAIN r.session
  BY SnapshotFields DEF Sound, Sessions
<1>3. note.session = s
  BY DEF NewMessage
<1>4. active \in DOMAIN r.mail
  BY DEF Sound, ActiveRuns
<1>5. /\ DOMAIN mail = DOMAIN r.mail \cup {n} /\ mail[n] = note
      /\ \A x \in DOMAIN r.mail : mail[x] = r.mail[x]
  <2> HIDE DEF note, n
  <2> QED
    BY <1>1 DEF With
<1>6. /\ asked.session = r.mail[active].session /\ asked.status = r.mail[active].status
      /\ asked.job = r.mail[active].job /\ asked.mode = r.mail[active].mode
  <2> DEFINE e == r.mail[active]
  <2>1. e \in Message
    BY <1>2, <1>4
  <2> QED
    BY <2>1 DEF Message
<1>7. left.active = active
  <2> HIDE DEF status
  <2> QED
    BY <1>2, StatusOnly
<1>8. a = [r EXCEPT !.admittedSubcalls = n, !.mail = letters, !.session = homes]
  <2>1. steers => [mail EXCEPT ![active].cancel = TRUE] = [mail EXCEPT ![active] = asked]
    BY <1>4, <1>5
  <2>2. [r.session EXCEPT ![s].status = IF steers THEN "cancelling"
                     ELSE IF active = NoMessage THEN "queued" ELSE @]
        = homes
    BY <1>2
  <2> QED
    BY <2>1, <2>2 DEF Sent, Sound, Snapshot
<1>9. Sound(a)
  BY SentSound
<1> HIDE DEF asked, left
<1>10. /\ a.mail = letters /\ a.session = homes /\ a.epoch = r.epoch
       /\ a.usage = r.usage /\ a.unknown = r.unknown /\ a.reserved = r.reserved
  <2> HIDE DEF letters, homes, n, a
  <2> QED
    BY <1>8 DEF Sound, Snapshot
<1> HIDE DEF a
<1>11. /\ q.mail = letters /\ q.session = homes /\ q.epoch = r.epoch
       /\ q.usage = r.usage /\ q.unknown = r.unknown /\ q.reserved = r.reserved
  BY <1>9, <1>10, ReconciledCurrent
<1> HIDE DEF q
<1>12. /\ DOMAIN q.mail = DOMAIN r.mail \cup {n} /\ q.mail[n] = note
       /\ \A x \in DOMAIN r.mail : q.mail[x] = IF steers /\ x = active THEN asked
                                               ELSE r.mail[x]
  <2> HIDE DEF mail, n, note
  <2>1. n # active
    BY <1>1, <1>4
  <2> QED
    BY <1>4, <1>5, <1>11, <2>1
<1>13. \A x \in DOMAIN r.mail :
         /\ q.mail[x].session = r.mail[x].session /\ q.mail[x].status = r.mail[x].status
         /\ q.mail[x].job = r.mail[x].job /\ q.mail[x].mode = r.mail[x].mode
  <2> HIDE DEF steers, active, note, n
  <2> QED
    BY <1>6, <1>12
<1>14. /\ DOMAIN q.session = DOMAIN r.session
       /\ \A x \in DOMAIN r.session : q.session[x].active = r.session[x].active
  BY <1>2, <1>7, <1>11
<1> HIDE DEF letters, homes, mail, note, n
<1>15. Busy(q) = Busy(r) /\ Committed(q) = Committed(r)
  BY <1>11, <1>14 DEF Busy, Sessions, Committed, Durable
<1>16. ASSUME NEW x \in DOMAIN r.mail, r.mail[x].session # s
       PROVE  MayClaim(q, x, epoch) <=> MayClaim(r, x, epoch)
  <2> DEFINE t == r.mail[x].session
  <2>1. Pending(q, t) = Pending(r, t)
    <3>1. \A y : y \in Pending(q, t) <=> y \in Pending(r, t)
      BY <1>3, <1>12, <1>13, <1>16 DEF Pending, Mailbox, InStatus
    <3> QED
      BY <3>1
  <2>2. SameClaim(r, q, x)
    BY <1>12, <1>13, <1>14, <1>16, <2>1 DEF SameClaim, Sound, Housed, Sessions, Pending, Mailbox
  <2> QED
    BY <1>11, <1>15, <2>2, ClaimStays
<1>17. ASSUME NEW x, x \in DOMAIN q.mail, q.mail[x].session = s
       PROVE  ~MayClaim(q, x, epoch) /\ ~MayClaim(r, x, epoch)
  <2>1. q.session[s].active # NoMessage
    BY <1>2, <1>14
  <2>2. ~MayClaim(q, x, epoch)
    BY <1>17, <2>1 DEF MayClaim
  <2>3. x \in DOMAIN r.mail => r.mail[x].session = s
    BY <1>13, <1>17
  <2> QED
    BY <2>2, <2>3 DEF MayClaim
<1>18. MayClaim(q, m, epoch) <=> MayClaim(r, m, epoch)
  <2>1. CASE m \notin DOMAIN q.mail
    BY <1>12, <2>1 DEF MayClaim
  <2>2. CASE m \in DOMAIN q.mail /\ q.mail[m].session = s
    BY <1>17, <2>2
  <2>3. CASE m \in DOMAIN q.mail /\ q.mail[m].session # s
    BY <1>3, <1>12, <1>13, <1>16, <2>3
  <2> QED
    BY <2>1, <2>2, <2>3
<1> QED
  BY <1>11, <1>12, <1>13, <1>18 DEF q, a

-----------------------------------------------------------------------------
(* What keeps a host busy while a message may be claimed: a recovery, a    *)
(* job for such a message, an attempt that claims it or that schedules     *)
(* what is ready once it ends, or a call that does.                        *)

Claimable(j) == MayClaim(registry, j.msg, j.epoch)

Carries(h, j) ==
  \/ attempts[h][j].at = "dispatched" /\ Claimable(j)
  \/ attempts[h][j].at \in {"claimed", "forwarding"} /\ StillRunning(j)
  \/ attempts[h][j].at = "settled" /\ j.epoch = registry.epoch

Rouses(call) ==
  call.ready = registry.epoch \/ \E j \in call.enqueue : Claimable(j)

Waking(h) ==
  \/ recovery[h].at # "idle"
  \/ \E j \in queue[h] : Claimable(j)
  \/ \E j \in DOMAIN attempts[h] : Carries(h, j)
  \/ \E call \in calls[h] : Rouses(call)

Woken(h) ==
  Client(h) /\ (\E m \in DOMAIN registry.mail : MayClaim(registry, m, registry.epoch))
    => Waking(h)

\* The epoch is owned, or about to be taken over, by one host.
Heads(h) ==
  \/ owned[h] = registry.epoch
  \/ recovery[h].at = "fenced" /\ recovery[h].epoch = registry.epoch

HeadsAlone == \A g, h \in Hosts : Heads(g) /\ Heads(h) => g = h

DrainsOwned(h) == recovery[h].at = "draining" => owned[h] = recovery[h].epoch

\* A job that a call or a completion stops is of a message that no longer
\* waits.
Dead(j) == j.msg \in Ids /\ Life[j.msg] \notin {"absent", "pending"}

StopsDead(h) ==
  /\ \A call \in calls[h] : \A j \in call.stop : Dead(j)
  /\ \A i \in DOMAIN attempts[h] : \A j \in attempts[h][i].stop : Dead(j)

Scheduled ==
  /\ HeadsAlone
  /\ \A h \in Hosts : Woken(h) /\ DrainsOwned(h) /\ StopsDead(h)

WakeInvariant ==
  /\ DOMAIN queue = Hosts /\ DOMAIN calls = Hosts
  /\ registry.epoch # 0 /\ Current(registry)
  /\ excuses = {} /\ ~unfenced => Scheduled

-----------------------------------------------------------------------------
LEMMA DeadStays ==
    ASSUME [Mail!MailNext]_(Mail!mailVars), NEW j, Dead(j)
    PROVE  Dead(j)'
<1>1. CASE Mail!Move
  <2>1. Life'[j.msg] # Life[j.msg] => <<Life[j.msg], Life'[j.msg]>> \in Mail!Moves
    BY <1>1 DEF Mail!Move, Dead
  <2>2. Life'[j.msg] # Life[j.msg] => Life'[j.msg] \notin {"absent", "pending"}
    BY <2>1 DEF Mail!Moves, Mail!Endings, Dead
  <2> QED
    BY <2>2 DEF Dead
<1>2. CASE \E m \in Ids : Mail!Run(m)
  BY <1>2 DEF Mail!Run, Dead
<1>3. CASE UNCHANGED Mail!mailVars
  BY <1>3 DEF Mail!mailVars, Dead
<1> QED
  BY <1>1, <1>2, <1>3 DEF Mail!MailNext

LEMMA DeadNotClaimable ==
    ASSUME NEW j, Dead(j)
    PROVE  ~Claimable(j)
BY DEF Dead, Claimable, MayClaim, Life

LEMMA DeadNotClaimableThen ==
    ASSUME NEW j, Dead(j)'
    PROVE  ~Claimable(j)'
BY DEF Dead, Claimable, MayClaim, Life

\* A step of h, which leaves the other hosts alone.
Apart(h) ==
  /\ DOMAIN queue' = Hosts /\ DOMAIN calls' = Hosts
  /\ \A g \in Hosts \ {h} :
       /\ queue'[g] = queue[g] /\ attempts'[g] = attempts[g] /\ calls'[g] = calls[g]
       /\ owned'[g] = owned[g] /\ recovery'[g] = recovery[g]
       /\ g \in closed' <=> g \in closed

\* The registry is changed by a fence, or by the host that owns its epoch.
Leads(h) ==
  \/ registry' = registry
  \/ registry'.epoch = registry.epoch + 1
  \/ owned[h] = registry.epoch /\ registry'.epoch = registry.epoch

LEMMA ScheduledKept ==
    ASSUME HostInvariant, Scheduled, NEW h \in Hosts, Apart(h), Leads(h),
           [Mail!MailNext]_(Mail!mailVars),
           registry'.epoch = registry.epoch /\ Heads(h)' => Heads(h),
           Woken(h)', DrainsOwned(h)', StopsDead(h)'
    PROVE  Scheduled'
<1>1. /\ registry.epoch \in Nat
      /\ \A g \in Hosts : /\ owned[g] \in Nat /\ owned[g] <= registry.epoch
                          /\ recovery[g].epoch \in Nat
                          /\ recovery[g].at = "fenced" => recovery[g].epoch <= registry.epoch
  BY SnapshotFields DEF HostInvariant, MailInvariant, DrainInvariant, EpochsKnown, Sound
<1>2. registry'.epoch = registry.epoch \/ registry'.epoch = registry.epoch + 1
  BY DEF Leads
<1>3. ASSUME NEW g \in Hosts \ {h}, Heads(g)'
      PROVE  registry'.epoch = registry.epoch /\ Heads(g)
  <2>1. owned'[g] = owned[g] /\ recovery'[g] = recovery[g]
    BY DEF Apart
  <2>2. CASE registry'.epoch = registry.epoch
    BY <1>3, <2>1, <2>2 DEF Heads
  <2>3. CASE registry'.epoch = registry.epoch + 1
    BY <1>1, <1>3, <2>1, <2>3 DEF Heads
  <2> QED
    BY <1>2, <2>2, <2>3
<1>4. HeadsAlone'
  <2>1. ASSUME NEW g \in Hosts, NEW k \in Hosts, Heads(g)', Heads(k)', g # k
        PROVE  FALSE
    <3>1. registry'.epoch = registry.epoch
      BY <1>3, <2>1
    <3>2. Heads(g) /\ Heads(k)
      BY <1>3, <2>1, <3>1
    <3> QED
      BY <2>1, <3>2 DEF Scheduled, HeadsAlone
  <2> QED
    BY <2>1 DEF HeadsAlone
<1>5. ASSUME NEW g \in Hosts \ {h}
      PROVE  Woken(g)'
  <2>1. /\ queue'[g] = queue[g] /\ attempts'[g] = attempts[g] /\ calls'[g] = calls[g]
        /\ owned'[g] = owned[g] /\ recovery'[g] = recovery[g]
        /\ g \in closed' <=> g \in closed
    BY DEF Apart
  <2>2. CASE registry' = registry
    <3>1. Woken(g)
      BY DEF Scheduled
    <3> QED
      BY <2>1, <2>2, <3>1
         DEF Woken, Waking, Client, Claimable, Carries, Rouses, StillRunning
  <2>3. CASE registry'.epoch = registry.epoch + 1
    <3>1. ~Client(g)'
      BY <1>1, <2>1, <2>3 DEF Client
    <3> QED
      BY <3>1 DEF Woken
  <2>4. CASE owned[h] = registry.epoch /\ registry'.epoch = registry.epoch
    <3>1. owned[g] # registry.epoch
      BY <2>4 DEF Scheduled, HeadsAlone, Heads
    <3>2. ~Client(g)'
      BY <2>1, <2>4, <3>1 DEF Client
    <3> QED
      BY <3>2 DEF Woken
  <2> QED
    BY <2>2, <2>3, <2>4 DEF Leads
<1>6. ASSUME NEW g \in Hosts \ {h}
      PROVE  DrainsOwned(g)' /\ StopsDead(g)'
  <2>1. /\ attempts'[g] = attempts[g] /\ calls'[g] = calls[g]
        /\ owned'[g] = owned[g] /\ recovery'[g] = recovery[g]
    BY DEF Apart
  <2>2. DrainsOwned(g) /\ StopsDead(g)
    BY DEF Scheduled
  <2>3. StopsDead(g)'
    <3>1. \A call \in calls'[g] : \A j \in call.stop : Dead(j)'
      BY <2>1, <2>2, DeadStays DEF StopsDead
    <3>2. \A i \in DOMAIN attempts'[g] : \A j \in attempts'[g][i].stop : Dead(j)'
      BY <2>1, <2>2, DeadStays DEF StopsDead
    <3> QED
      BY <3>1, <3>2 DEF StopsDead
  <2> QED
    BY <2>1, <2>2, <2>3 DEF DrainsOwned
<1> QED
  BY <1>4, <1>5, <1>6 DEF Scheduled

\* The jobs that a mutation found ready wake the host, unless a stop takes
\* them, which it does not.
LEMMA ReadyWakes ==
    ASSUME HostInvariant', BooksInvariant', Current(registry'), NEW h \in Hosts,
           owned' = owned,
           NEW jobs, ReadyJobs(h, registry', registry'.epoch) \subseteq jobs,
           h \notin closed, NEW stop, \A j \in stop : Dead(j)',
           queue'[h] = Enqueued(h, jobs) \ stop
    PROVE  Woken(h)'
<1>1. Sound(registry') /\ Books(registry') /\ registry'.budget = ExpectedBudget(registry')
  BY DEF HostInvariant, MailInvariant, BooksInvariant
<1>2. SUFFICES ASSUME owned[h] = registry'.epoch,
                      NEW m, MayClaim(registry', m, registry'.epoch)
               PROVE  Waking(h)'
  BY DEF Woken, Client
<1>3. PICK j \in ReadyJobs(h, registry', registry'.epoch) :
        MayClaim(registry', j.msg, j.epoch)
  BY <1>1, <1>2, ReadyJobsWake
<1>4. Claimable(j)'
  BY <1>3 DEF Claimable
<1>5. j \in queue'[h]
  BY <1>3, <1>4, DeadNotClaimableThen DEF Enqueued
<1> QED
  BY <1>4, <1>5 DEF Waking

\* What a call leaves of the jobs and the attempts: nothing is lost but what
\* it stops, and its own jobs are in the queue.
Performed(h, call) ==
  /\ \A j \in queue[h] : j \in queue'[h] \/ j \in call.stop
  /\ h \notin closed =>
       \A j \in call.enqueue \cup ReadyJobs(h, registry', call.ready) :
         j \in queue'[h] \/ j \in call.stop

Trimmed(h) ==
  /\ DOMAIN attempts'[h] \subseteq DOMAIN attempts[h]
  /\ \A j \in DOMAIN attempts'[h] : /\ attempts'[h][j].at = attempts[h][j].at
                                    /\ attempts'[h][j].stop = attempts[h][j].stop

LEMMA AbortedTrims ==
    ASSUME AttemptsTyped, NEW h \in Hosts, NEW jobs, NEW f, f = Aborted(attempts[h], jobs)
    PROVE  /\ DOMAIN f = DOMAIN attempts[h]
           /\ \A j \in DOMAIN f : /\ f[j].at = attempts[h][j].at
                                  /\ f[j].stop = attempts[h][j].stop
<1>1. DOMAIN f = DOMAIN attempts[h]
  BY DEF Aborted
<1>2. ASSUME NEW j \in DOMAIN attempts[h]
      PROVE  f[j].at = attempts[h][j].at /\ f[j].stop = attempts[h][j].stop
  <2> DEFINE e == attempts[h][j]
  <2>1. e \in Attempt
    BY DEF AttemptsTyped
  <2>2. f[j] = IF j \in jobs THEN [e EXCEPT !.aborted = TRUE] ELSE e
    BY DEF Aborted
  <2> HIDE DEF e
  <2>3. f[j].at = e.at /\ f[j].stop = e.stop
    BY <2>1, <2>2 DEF Attempt
  <2> QED
    BY <2>3 DEF e
<1> QED
  BY <1>1, <1>2

LEMMA PerformLeaves ==
    ASSUME HostInvariant, DOMAIN queue = Hosts, NEW h \in Hosts, NEW call, Perform(h, call)
    PROVE  /\ Performed(h, call) /\ Trimmed(h)
           /\ DOMAIN attempts'[h] = DOMAIN attempts[h]
           /\ DOMAIN queue' = Hosts
           /\ \A g \in Hosts \ {h} : queue'[g] = queue[g] /\ attempts'[g] = attempts[g]
           /\ h \notin closed =>
                queue'[h] = Enqueued(h, call.enqueue
                              \cup ReadyJobs(h, registry', call.ready)) \ call.stop
<1> DEFINE jobs == call.enqueue \cup ReadyJobs(h, registry', call.ready)
<1>0. PICK f : f = Aborted(attempts[h], call.stop)
  OBVIOUS
<1>1. AttemptsTyped
  BY DEF HostInvariant, MailInvariant
<1>2. attempts' = [attempts EXCEPT ![h] = f]
  BY <1>0 DEF Perform
<1>3. queue' = [queue EXCEPT ![h] = Enqueued(h, jobs) \ call.stop]
  BY DEF Perform
<1>4. /\ DOMAIN f = DOMAIN attempts[h]
      /\ \A j \in DOMAIN f : /\ f[j].at = attempts[h][j].at
                             /\ f[j].stop = attempts[h][j].stop
  BY <1>0, <1>1, AbortedTrims
<1>5. /\ attempts'[h] = f
      /\ \A g \in Hosts \ {h} : attempts'[g] = attempts[g]
  BY <1>1, <1>2 DEF AttemptsTyped
<1>6. queue'[h] = Enqueued(h, jobs) \ call.stop /\ DOMAIN queue' = Hosts
      /\ \A g \in Hosts \ {h} : queue'[g] = queue[g]
  BY <1>3
<1>7. Trimmed(h) /\ DOMAIN attempts'[h] = DOMAIN attempts[h]
  BY <1>4, <1>5 DEF Trimmed
<1>8. Performed(h, call)
  BY <1>6 DEF Performed, Enqueued
<1> QED
  BY <1>5, <1>6, <1>7, <1>8

\* Attempts that are left as they were stop and carry what they did.
LEMMA TrimmedStops ==
    ASSUME NEW h \in Hosts, StopsDead(h), Trimmed(h), [Mail!MailNext]_(Mail!mailVars),
           \A call \in calls'[h] : call \in calls[h] \/ \A j \in call.stop : Dead(j)'
    PROVE  StopsDead(h)'
<1>1. \A call \in calls'[h] : \A j \in call.stop : Dead(j)'
  BY DeadStays DEF StopsDead
<1>2. \A i \in DOMAIN attempts'[h] : \A j \in attempts'[h][i].stop : Dead(j)'
  BY DeadStays DEF StopsDead, Trimmed
<1> QED
  BY <1>1, <1>2 DEF StopsDead

\* Whatever kept the host busy still does.
LEMMA WakingKept ==
    ASSUME NEW h \in Hosts, Waking(h), recovery' = recovery,
           \A j \in queue[h] : Claimable(j) => j \in queue'[h] \/ Dead(j)',
           \A j \in queue[h] : Claimable(j) => Claimable(j)',
           \A j \in DOMAIN attempts[h] : Carries(h, j) =>
             \/ j \in DOMAIN attempts'[h] /\ Carries(h, j)'
             \/ Waking(h)',
           \A call \in calls[h] : Rouses(call) =>
             \/ call \in calls'[h] /\ Rouses(call)'
             \/ Waking(h)'
    PROVE  Waking(h)'
<1>1. CASE \E j \in queue[h] : Claimable(j)
  <2>1. PICK j \in queue[h] : Claimable(j) /\ Claimable(j)'
    BY <1>1
  <2>2. j \in queue'[h]
    BY <2>1, DeadNotClaimableThen
  <2> QED
    BY <2>1, <2>2 DEF Waking
<1> QED
  BY <1>1 DEF Waking

-----------------------------------------------------------------------------
(* A step of a host, while no mail is withdrawn and no wake-up is lost.    *)

Setting ==
  /\ HostInvariant /\ Current(registry) /\ registry.epoch # 0
  /\ HostInvariant' /\ BooksInvariant' /\ Current(registry')
  /\ DOMAIN queue = Hosts /\ DOMAIN calls = Hosts
  /\ [Mail!MailNext]_(Mail!mailVars)
  /\ ~unfenced /\ Scheduled

\* A step within the epoch, in the scheduler of h alone.
Here(h) ==
  /\ DOMAIN queue' = Hosts /\ DOMAIN calls' = Hosts
  /\ \A g \in Hosts \ {h} :
       /\ queue'[g] = queue[g] /\ attempts'[g] = attempts[g] /\ calls'[g] = calls[g]

LEMMA SettingHost ==
    ASSUME Setting, NEW h \in Hosts
    PROVE  /\ Woken(h) /\ DrainsOwned(h) /\ StopsDead(h)
           /\ Sound(registry) /\ AttemptsTyped /\ Drained(h)
           /\ registry.epoch \in Nat
<1>1. Sound(registry) /\ AttemptsTyped /\ Drained(h)
  BY DEF Setting, HostInvariant, MailInvariant, DrainInvariant
<1>2. registry.epoch \in Nat
  BY <1>1, SnapshotFields DEF Sound
<1> QED
  BY <1>1, <1>2 DEF Setting, Scheduled

LEMMA RoutineKept ==
    ASSUME Setting, NEW h \in Hosts, UNCHANGED <<owned, recovery, closed>>, Here(h),
           \/ registry' = registry
           \/ owned[h] = registry.epoch /\ registry'.epoch = registry.epoch,
           Woken(h)', StopsDead(h)'
    PROVE  Scheduled'
<1>1. Apart(h)
  BY DEF Apart, Here
<1>2. Leads(h)
  BY DEF Leads
<1>3. registry'.epoch = registry.epoch /\ Heads(h)' => Heads(h)
  BY DEF Heads
<1>4. DrainsOwned(h)'
  BY SettingHost DEF DrainsOwned
<1> QED
  BY <1>1, <1>2, <1>3, <1>4, ScheduledKept DEF Setting

-----------------------------------------------------------------------------
(* What a call does, at once or later.                                     *)

LEMMA FollowHere ==
    ASSUME Setting, NEW h \in Hosts, NEW call, NEW cost, Follow(h, call, cost)
    PROVE  /\ Here(h)
           /\ \/ Perform(h, call) /\ calls' = calls
              \/ /\ calls'[h] = calls[h] \cup {call}
                 /\ UNCHANGED <<attempts, queue>>
<1>1. HostInvariant /\ DOMAIN queue = Hosts /\ DOMAIN calls = Hosts
  BY DEF Setting
<1>2. CASE Perform(h, call) /\ calls' = calls
  BY <1>1, <1>2, PerformLeaves DEF Here
<1>3. CASE /\ calls' = [calls EXCEPT ![h] = @ \cup {call}]
           /\ UNCHANGED <<attempts, queue>>
  BY <1>1, <1>3 DEF Here
<1> QED
  BY <1>2, <1>3 DEF Follow

LEMMA FollowStops ==
    ASSUME Setting, NEW h \in Hosts, NEW call, NEW cost, Follow(h, call, cost),
           \A j \in call.stop : Dead(j)'
    PROVE  StopsDead(h)'
<1>1. /\ StopsDead(h) /\ [Mail!MailNext]_(Mail!mailVars)
      /\ HostInvariant /\ DOMAIN queue = Hosts
  BY SettingHost DEF Setting
<1>2. CASE Perform(h, call) /\ calls' = calls
  <2>1. Trimmed(h)
    BY <1>1, <1>2, PerformLeaves
  <2> QED
    BY <1>1, <1>2, <2>1, TrimmedStops
<1>3. CASE calls'[h] = calls[h] \cup {call} /\ UNCHANGED <<attempts, queue>>
  <2>1. Trimmed(h)
    BY <1>3 DEF Trimmed
  <2>2. \A c \in calls'[h] : c \in calls[h] \/ \A j \in c.stop : Dead(j)'
    BY <1>3
  <2> QED
    BY <1>1, <2>1, <2>2, TrimmedStops
<1> QED
  BY <1>2, <1>3, FollowHere

\* A call that schedules what is ready wakes the host.
LEMMA FollowWakes ==
    ASSUME Setting, NEW h \in Hosts, NEW call, NEW cost, Follow(h, call, cost),
           \A j \in call.stop : Dead(j)', call.ready = registry'.epoch,
           h \notin closed, owned' = owned
    PROVE  Woken(h)'
<1>1. /\ HostInvariant /\ DOMAIN queue = Hosts
      /\ HostInvariant' /\ BooksInvariant' /\ Current(registry')
  BY DEF Setting
<1>2. CASE Perform(h, call) /\ calls' = calls
  <2> DEFINE jobs == call.enqueue \cup ReadyJobs(h, registry', call.ready)
             stop == call.stop
  <2>1. queue'[h] = Enqueued(h, jobs) \ stop
    BY <1>1, <1>2, PerformLeaves
  <2>2. ReadyJobs(h, registry', registry'.epoch) \subseteq jobs
    OBVIOUS
  <2>3. \A j \in stop : Dead(j)'
    OBVIOUS
  <2> HIDE DEF jobs, stop
  <2> QED
    BY <1>1, <2>1, <2>2, <2>3, ReadyWakes
<1>3. CASE calls'[h] = calls[h] \cup {call}
  <2>1. Rouses(call)'
    BY DEF Rouses
  <2> QED
    BY <1>3, <2>1 DEF Woken, Waking
<1> QED
  BY <1>2, <1>3, FollowHere

\* The messages there were may be claimed as before.
ClaimsKept ==
  /\ registry'.epoch = registry.epoch
  /\ \A m \in DOMAIN registry.mail :
       /\ \A epoch : MayClaim(registry', m, epoch) <=> MayClaim(registry, m, epoch)
       /\ m \in DOMAIN registry'.mail
       /\ registry'.mail[m].status = registry.mail[m].status

LEMMA ClaimsKeptJob ==
    ASSUME ClaimsKept, NEW j
    PROVE  /\ Claimable(j) => Claimable(j)'
           /\ StillRunning(j) => StillRunning(j)'
BY DEF ClaimsKept, Claimable, MayClaim, StillRunning, InStatus

\* What kept the host busy still does, when nothing of it is lost but what a
\* stop takes.
LEMMA BusyKept ==
    ASSUME ClaimsKept, NEW h \in Hosts, Waking(h), recovery' = recovery,
           \A j \in queue[h] : j \in queue'[h] \/ Dead(j)',
           DOMAIN attempts'[h] = DOMAIN attempts[h], Trimmed(h),
           calls[h] \subseteq calls'[h]
    PROVE  Waking(h)'
<1>1. \A j \in DOMAIN attempts[h] : Carries(h, j) => Carries(h, j)'
  <2> TAKE j \in DOMAIN attempts[h]
  <2>1. attempts'[h][j].at = attempts[h][j].at /\ registry'.epoch = registry.epoch
    BY DEF Trimmed, ClaimsKept
  <2> QED
    BY <2>1, ClaimsKeptJob DEF Carries
<1>2. \A call \in calls[h] : Rouses(call) => Rouses(call)'
  <2>1. registry'.epoch = registry.epoch
    BY DEF ClaimsKept
  <2> QED
    BY <2>1, ClaimsKeptJob DEF Rouses
<1> QED
  BY <1>1, <1>2, ClaimsKeptJob, WakingKept

LEMMA FollowKeeps ==
    ASSUME Setting, ClaimsKept, NEW h \in Hosts, NEW call, NEW cost,
           Follow(h, call, cost), Waking(h), recovery' = recovery,
           \A j \in call.stop : Dead(j)'
    PROVE  Waking(h)'
<1>1. HostInvariant /\ DOMAIN queue = Hosts
  BY DEF Setting
<1>2. CASE Perform(h, call) /\ calls' = calls
  BY <1>1, <1>2, PerformLeaves, BusyKept DEF Performed
<1>3. CASE calls'[h] = calls[h] \cup {call} /\ UNCHANGED <<attempts, queue>>
  BY <1>3, BusyKept DEF Trimmed
<1> QED
  BY <1>2, <1>3, FollowHere

LEMMA SpawnedMail ==
    ASSUME NEW r, Sound(r), NEW p \in Sessions(r) \cup {Root}, MayAdmitChild(r, p)
    PROVE  LET q == Reconciled(Spawned(r, p)) IN
           DOMAIN q.mail = DOMAIN r.mail \cup {q.admittedSubcalls}
<1> DEFINE a == Spawned(r, p)
           s == r.admittedSubcalls + 1
           note == NewMessage(r, s, "follow-up")
<1>1. a.mail = With(r.mail, s, note) /\ a.admittedSubcalls = s
  BY DEF Spawned, Sound, Snapshot
<1>2. Sound(a)
  BY SpawnedSound
<1> HIDE DEF a, s, note
<1>3. Reconciled(a).mail = a.mail /\ Reconciled(a).admittedSubcalls = a.admittedSubcalls
  BY <1>2, ReconciledCurrent
<1>4. DOMAIN With(r.mail, s, note) = DOMAIN r.mail \cup {s}
  BY DEF With
<1> QED
  BY <1>1, <1>3, <1>4 DEF a

LEMMA SpawnScheduled ==
    ASSUME Setting, NEW h \in Hosts, Spawn(h)
    PROVE  Scheduled'
<1>0. PICK n, j, call : /\ n = registry'.admittedSubcalls /\ j = Job(n, registry.epoch)
                        /\ call = Call({}, {j}, 0)
  OBVIOUS
<1>1. PICK p \in Sessions(registry) \cup {Root} :
        MayAdmitChild(registry, p) /\ registry' = Reconciled(Spawned(registry, p))
  BY DEF Spawn
<1>2. /\ Client(h) /\ Follow(h, call, 0) /\ UNCHANGED <<owned, closed, recovery>>
  BY <1>0 DEF Spawn
<1>3. Sound(registry) /\ Woken(h)
  BY SettingHost
<1>4. ASSUME NEW m \in DOMAIN registry.mail, NEW epoch
      PROVE  /\ MayClaim(registry', m, epoch) <=> MayClaim(registry, m, epoch)
             /\ m \in DOMAIN registry'.mail
             /\ registry'.mail[m].status = registry.mail[m].status
  BY <1>1, <1>3, SpawnedClaims
<1>5. registry'.epoch = registry.epoch
  BY <1>1, <1>3, SpawnedSound, SpawnedCurrent, ReconciledCurrent DEF Queues
<1>6. ClaimsKept
  BY <1>4, <1>5 DEF ClaimsKept
<1>7. call.stop = {} /\ call.enqueue = {j} /\ j.msg = n /\ j.epoch = registry.epoch
  BY <1>0 DEF Call, Job
<1>8. Here(h)
  BY <1>2, FollowHere
<1>9. StopsDead(h)'
  BY <1>2, <1>7, FollowStops
<1>10. ASSUME NEW m \in DOMAIN registry'.mail, MayClaim(registry', m, registry'.epoch)
       PROVE  Waking(h)'
  <2>1. CASE m \in DOMAIN registry.mail
    <3>1. MayClaim(registry, m, registry.epoch)
      BY <1>4, <1>5, <1>10, <2>1
    <3>2. Waking(h)
      BY <1>2, <1>3, <2>1, <3>1 DEF Woken
    <3> QED
      BY <1>2, <1>6, <1>7, <3>2, FollowKeeps
  <2>2. CASE m \notin DOMAIN registry.mail
    <3>1. m = n
      <4>1. DOMAIN registry'.mail = DOMAIN registry.mail \cup {n}
        BY <1>0, <1>1, <1>3, SpawnedMail
      <4> QED
        BY <1>10, <2>2, <4>1
    <3>2. Claimable(j)'
      BY <1>5, <1>7, <1>10, <3>1 DEF Claimable
    <3>3. CASE Perform(h, call) /\ calls' = calls
      <4>1. HostInvariant /\ DOMAIN queue = Hosts
        BY DEF Setting
      <4>2. Performed(h, call)
        BY <3>3, <4>1, PerformLeaves
      <4>3. j \in queue'[h]
        BY <1>2, <1>7, <4>2 DEF Performed, Client
      <4> QED
        BY <3>2, <4>3 DEF Waking
    <3>4. CASE calls'[h] = calls[h] \cup {call}
      <4>1. call \in calls'[h] /\ j \in call.enqueue
        BY <1>7, <3>4
      <4> QED
        BY <3>2, <4>1 DEF Waking, Rouses
    <3> QED
      BY <1>2, <3>3, <3>4, FollowHere
  <2> QED
    BY <2>1, <2>2
<1>11. Woken(h)'
  BY <1>10 DEF Woken
<1> QED
  BY <1>2, <1>5, <1>8, <1>9, <1>11, RoutineKept DEF Client

LEMMA SendScheduled ==
    ASSUME Setting, NEW h \in Hosts, Send(h)
    PROVE  Scheduled'
<1>1. PICK s \in Sessions(registry), mode \in Modes :
        LET active == registry.session[s].active IN
        /\ MaySend(registry, s)
        /\ registry' = Reconciled(Sent(registry, s, mode))
        /\ IF active = NoMessage
           THEN Follow(h, Call({}, {}, registry.epoch), 0)
           ELSE IF mode = "steer" THEN Follow(h, Call(JobsOf({active}), {}, 0), 0)
           ELSE UNCHANGED <<queue, attempts, calls, disturbances>>
  BY DEF Send
<1>2. Client(h) /\ UNCHANGED <<owned, closed, recovery>>
  BY DEF Send
<1>3. /\ Sound(registry) /\ Woken(h) /\ StopsDead(h) /\ [Mail!MailNext]_(Mail!mailVars)
      /\ mode \in {"steer", "follow-up"}
  BY SettingHost, HostsAssumption DEF Setting
<1>4. registry'.epoch = registry.epoch
  BY <1>1, <1>3, SentSound, SentCurrent, ReconciledCurrent DEF Queues
<1> DEFINE active == registry.session[s].active
<1>5. CASE active = NoMessage
  <2>1. PICK call : call = Call({}, {}, registry.epoch) /\ Follow(h, call, 0)
    BY <1>1, <1>5
  <2>2. call.stop = {} /\ call.ready = registry'.epoch
    BY <1>4, <2>1 DEF Call
  <2>3. Here(h) /\ StopsDead(h)' /\ Woken(h)'
    BY <1>2, <2>1, <2>2, FollowHere, FollowStops, FollowWakes DEF Client
  <2> QED
    BY <1>2, <1>4, <2>3, RoutineKept DEF Client
<1>6. CASE active # NoMessage
  <2>1. ASSUME NEW m, NEW epoch
        PROVE  /\ MayClaim(registry', m, epoch) <=> MayClaim(registry, m, epoch)
               /\ m \in DOMAIN registry.mail =>
                    /\ m \in DOMAIN registry'.mail
                    /\ registry'.mail[m].status = registry.mail[m].status
    BY <1>1, <1>3, <1>6, SentClaims
  <2>2. ClaimsKept
    BY <1>4, <2>1 DEF ClaimsKept
  <2>3. ASSUME NEW m, MayClaim(registry', m, registry'.epoch)
        PROVE  Waking(h)
    <3>1. MayClaim(registry, m, registry.epoch)
      BY <1>4, <2>1, <2>3
    <3> QED
      BY <1>2, <1>3, <3>1 DEF Woken, MayClaim
  <2>4. CASE mode = "steer"
    <3>1. PICK call : call = Call(JobsOf({active}), {}, 0) /\ Follow(h, call, 0)
      BY <1>1, <1>6, <2>4
    <3>2. \A j \in call.stop : Dead(j)
      <4>1. /\ active \in DOMAIN registry.mail
            /\ registry.mail[active].status = "running"
        BY <1>3, <1>6 DEF Sound, ActiveRuns
      <4>2. active \in Ids
        BY <1>3, <4>1, SnapshotFields DEF Sound
      <4>3. \A j \in call.stop : j.msg = active
        BY <3>1 DEF Call, JobsOf, Job
      <4> QED
        BY <4>1, <4>2, <4>3 DEF Dead, Life
    <3>3. \A j \in call.stop : Dead(j)'
      BY <1>3, <3>2, DeadStays
    <3>4. Here(h) /\ StopsDead(h)'
      BY <3>1, <3>3, FollowHere, FollowStops
    <3>5. Woken(h)'
      BY <1>2, <2>2, <2>3, <3>1, <3>3, FollowKeeps DEF Woken
    <3> QED
      BY <1>2, <1>4, <3>4, <3>5, RoutineKept DEF Client
  <2>5. CASE mode # "steer"
    <3>1. UNCHANGED <<queue, attempts, calls>>
      BY <1>1, <1>6, <2>5
    <3>2. Here(h) /\ Trimmed(h)
      BY <3>1 DEF Here, Trimmed, Setting
    <3>3. StopsDead(h)'
      BY <1>3, <3>1, <3>2, TrimmedStops
    <3>4. Woken(h)'
      BY <1>2, <2>2, <2>3, <3>1, <3>2, BusyKept DEF Woken
    <3> QED
      BY <1>2, <1>4, <3>2, <3>3, <3>4, RoutineKept DEF Client
  <2> QED
    BY <2>4, <2>5
<1> QED
  BY <1>5, <1>6

LEMMA SameClaims ==
    ASSUME registry' = registry
    PROVE  /\ ClaimsKept
           /\ \A j : Claimable(j)' <=> Claimable(j)
           /\ \A j : StillRunning(j)' <=> StillRunning(j)
BY DEF ClaimsKept, Claimable, StillRunning

LEMMA ScheduleScheduled ==
    ASSUME Setting, NEW h \in Hosts, Schedule(h)
    PROVE  Scheduled'
<1>1. PICK call \in calls[h] :
        calls' = [calls EXCEPT ![h] = calls[h] \ {call}] /\ Perform(h, call)
  BY DEF Schedule
<1>2. UNCHANGED <<registry, owned, closed, recovery>>
  BY DEF Schedule
<1>3. /\ Woken(h) /\ StopsDead(h) /\ [Mail!MailNext]_(Mail!mailVars)
      /\ HostInvariant /\ DOMAIN queue = Hosts /\ DOMAIN calls = Hosts
      /\ HostInvariant' /\ BooksInvariant' /\ Current(registry')
  BY SettingHost DEF Setting
<1>4. /\ calls'[h] = calls[h] \ {call} /\ DOMAIN calls' = Hosts
      /\ \A g \in Hosts \ {h} : calls'[g] = calls[g]
  BY <1>1, <1>3
<1>5. /\ Performed(h, call) /\ Trimmed(h) /\ DOMAIN attempts'[h] = DOMAIN attempts[h]
      /\ DOMAIN queue' = Hosts
      /\ \A g \in Hosts \ {h} : queue'[g] = queue[g] /\ attempts'[g] = attempts[g]
  BY <1>1, <1>3, PerformLeaves
<1>6. Here(h)
  BY <1>4, <1>5 DEF Here
<1>7. StopsDead(h)'
  BY <1>3, <1>4, <1>5, TrimmedStops
<1>8. \A j \in call.stop : Dead(j) /\ Dead(j)'
  BY <1>1, <1>3, DeadStays DEF StopsDead
<1>9. ASSUME h \notin closed, Rouses(call),
             NEW m \in DOMAIN registry'.mail, MayClaim(registry', m, registry'.epoch),
             Client(h)'
      PROVE  Waking(h)'
  <2>1. CASE call.ready = registry.epoch
    <3>1. /\ queue'[h] = Enqueued(h, call.enqueue
                          \cup ReadyJobs(h, registry', call.ready)) \ call.stop
      BY <1>1, <1>3, <1>9, PerformLeaves
    <3> DEFINE jobs == call.enqueue \cup ReadyJobs(h, registry', call.ready)
               stop == call.stop
    <3>2. /\ queue'[h] = Enqueued(h, jobs) \ stop
          /\ ReadyJobs(h, registry', registry'.epoch) \subseteq jobs
          /\ \A j \in stop : Dead(j)'
      BY <1>2, <1>8, <2>1, <3>1
    <3> HIDE DEF jobs, stop
    <3>3. Woken(h)'
      BY <1>2, <1>3, <1>9, <3>2, ReadyWakes
    <3> QED
      BY <1>9, <3>3 DEF Woken
  <2>2. CASE \E j \in call.enqueue : Claimable(j)
    <3>1. PICK j \in call.enqueue : Claimable(j)
      BY <2>2
    <3>2. j \in queue'[h]
      BY <1>5, <1>8, <1>9, <3>1, DeadNotClaimable DEF Performed
    <3> QED
      BY <1>2, <3>1, <3>2, SameClaims DEF Waking
  <2> QED
    BY <1>9, <2>1, <2>2 DEF Rouses
<1>10. ASSUME NEW m \in DOMAIN registry'.mail, MayClaim(registry', m, registry'.epoch),
              Client(h)'
       PROVE  Waking(h)'
  <2>1. h \notin closed /\ Client(h) /\ MayClaim(registry, m, registry.epoch)
    BY <1>2, <1>10 DEF Client
  <2>2. Waking(h)
    BY <1>2, <1>3, <2>1 DEF Woken, MayClaim
  <2>3. \A j \in queue[h] : Claimable(j) => j \in queue'[h] \/ Dead(j)'
    BY <1>5, <1>8 DEF Performed
  <2>4. \A j \in queue[h] : Claimable(j) => Claimable(j)'
    BY <1>2, SameClaims
  <2>5. \A j \in DOMAIN attempts[h] :
          Carries(h, j) => j \in DOMAIN attempts'[h] /\ Carries(h, j)'
    BY <1>2, <1>5, SameClaims DEF Carries, Trimmed
  <2>6. ASSUME NEW c \in calls[h], Rouses(c)
        PROVE  (c \in calls'[h] /\ Rouses(c)') \/ Waking(h)'
    <3>1. CASE c = call
      BY <1>9, <1>10, <2>1, <2>6, <3>1
    <3>2. CASE c # call
      BY <1>2, <1>4, <2>6, <3>2, SameClaims DEF Rouses
    <3> QED
      BY <3>1, <3>2
  <2> QED
    BY <1>2, <2>2, <2>3, <2>4, <2>5, <2>6, WakingKept
<1>11. Woken(h)'
  BY <1>10 DEF Woken
<1> QED
  BY <1>2, <1>6, <1>7, <1>11, RoutineKept

LEMMA DropScheduled ==
    ASSUME Setting, NEW h \in Hosts, Drop(h), excuses' = {}
    PROVE  Scheduled'
<1>1. PICK j \in queue[h] :
        /\ queue' = [queue EXCEPT ![h] = queue[h] \ {j}]
        /\ excuses' = IF owned[h] = j.epoch THEN excuses \cup {"lost"} ELSE excuses
  BY DEF Drop
<1>2. UNCHANGED <<registry, owned, closed, attempts, recovery, calls>>
  BY DEF Drop
<1>3. /\ Woken(h) /\ StopsDead(h) /\ [Mail!MailNext]_(Mail!mailVars)
      /\ DOMAIN queue = Hosts /\ DOMAIN calls = Hosts
  BY SettingHost DEF Setting
<1>4. owned[h] # j.epoch
  BY <1>1
<1>5. /\ queue'[h] = queue[h] \ {j} /\ DOMAIN queue' = Hosts
      /\ \A g \in Hosts \ {h} : queue'[g] = queue[g]
  BY <1>1, <1>3
<1>6. Here(h) /\ Trimmed(h)
  BY <1>2, <1>3, <1>5 DEF Here, Trimmed
<1>7. StopsDead(h)'
  BY <1>2, <1>3, <1>6, TrimmedStops
<1>8. ASSUME NEW m \in DOMAIN registry'.mail, MayClaim(registry', m, registry'.epoch),
             Client(h)'
      PROVE  Waking(h)'
  <2>1. Client(h) /\ Waking(h)
    BY <1>2, <1>3, <1>8 DEF Woken, Client, MayClaim
  <2>2. ~Claimable(j)
    BY <1>4, <2>1 DEF Claimable, MayClaim, Client
  <2> QED
    BY <1>2, <1>5, <2>1, <2>2, SameClaims
       DEF Waking, Carries, Rouses
<1>9. Woken(h)'
  BY <1>8 DEF Woken
<1> QED
  BY <1>2, <1>6, <1>7, <1>9, RoutineKept

LEMMA ForwardScheduled ==
    ASSUME Setting, NEW h \in Hosts, Forward(h)
    PROVE  Scheduled'
<1>1. PICK j \in DOMAIN attempts[h] :
        /\ attempts[h][j].at = "claimed"
        /\ attempts' = [attempts EXCEPT
             ![h] = With(attempts[h], j, [attempts[h][j] EXCEPT !.at = "forwarding"])]
  BY DEF Forward, SetAttempt
<1>2. UNCHANGED <<registry, owned, closed, queue, recovery, calls>>
  BY DEF Forward
<1>3. /\ Woken(h) /\ StopsDead(h) /\ AttemptsTyped /\ [Mail!MailNext]_(Mail!mailVars)
      /\ DOMAIN queue = Hosts /\ DOMAIN calls = Hosts
  BY SettingHost DEF Setting
<1> DEFINE old == attempts[h][j]
           e == [old EXCEPT !.at = "forwarding"]
           f == With(attempts[h], j, e)
<1>4. e.at = "forwarding" /\ e.stop = old.stop
  <2>1. old \in Attempt
    BY <1>3 DEF AttemptsTyped
  <2> HIDE DEF old
  <2> QED
    BY <2>1 DEF Attempt
<1>5. attempts' = [attempts EXCEPT ![h] = f]
  BY <1>1
<1> HIDE DEF e
<1>6. /\ DOMAIN f = DOMAIN attempts[h] /\ f[j] = e
      /\ \A i \in DOMAIN attempts[h] \ {j} : f[i] = attempts[h][i]
  BY DEF With
<1> HIDE DEF f
<1>7. attempts'[h] = f /\ \A g \in Hosts \ {h} : attempts'[g] = attempts[g]
  BY <1>3, <1>5 DEF AttemptsTyped
<1>8. Here(h)
  BY <1>2, <1>3, <1>7 DEF Here
<1>9. StopsDead(h)'
  <2>1. \A call \in calls'[h] : \A i \in call.stop : Dead(i)'
    BY <1>2, <1>3, DeadStays DEF StopsDead
  <2>2. \A k \in DOMAIN f : \A i \in f[k].stop : Dead(i)
    BY <1>3, <1>4, <1>6 DEF StopsDead
  <2>3. \A k \in DOMAIN attempts'[h] : \A i \in attempts'[h][k].stop : Dead(i)'
    BY <1>3, <1>7, <2>2, DeadStays
  <2> QED
    BY <2>1, <2>3 DEF StopsDead
<1>10. \A i \in DOMAIN attempts[h] : Carries(h, i) => Carries(h, i)'
  <2> TAKE i \in DOMAIN attempts[h]
  <2>1. CASE i = j
    BY <1>1, <1>2, <1>4, <1>6, <1>7, <2>1, SameClaims DEF Carries
  <2>2. CASE i # j
    <3>1. attempts'[h][i] = attempts[h][i]
      BY <1>6, <1>7, <2>2
    <3> QED
      BY <1>2, <3>1, SameClaims DEF Carries
  <2> QED
    BY <2>1, <2>2
<1>11. Woken(h)'
  <2>1. Waking(h) => Waking(h)'
    BY <1>2, <1>6, <1>7, <1>10, SameClaims DEF Waking, Rouses
  <2> QED
    BY <1>2, <1>3, <2>1 DEF Woken, Client
<1> QED
  BY <1>2, <1>8, <1>9, <1>11, RoutineKept

\* A job that is claimed is carried by its attempt; one that is skipped could
\* not be claimed.
LEMMA ClaimOrSkipScheduled ==
    ASSUME Setting, NEW h \in Hosts, NEW j, ClaimOrSkip(h, j),
           \/ j \notin DOMAIN attempts[h] /\ owned[h] = j.epoch
           \/ j \in DOMAIN attempts[h] /\ attempts[h][j].at = "dispatched",
           UNCHANGED <<owned, closed, recovery, calls>>,
           DOMAIN queue' = Hosts,
           \A g \in Hosts \ {h} : queue'[g] = queue[g],
           \A i \in queue[h] \ {j} : i \in queue'[h]
    PROVE  Scheduled'
<1>1. /\ Woken(h) /\ StopsDead(h) /\ AttemptsTyped /\ [Mail!MailNext]_(Mail!mailVars)
      /\ DOMAIN queue = Hosts /\ DOMAIN calls = Hosts
      /\ HostInvariant /\ Current(registry) /\ Sound(registry) /\ Drained(h)
      /\ registry.epoch \in Nat
  BY SettingHost DEF Setting
<1>2. CASE MayClaim(registry, j.msg, j.epoch)
  <2> DEFINE s == registry.mail[j.msg].session
             old == IF j \in DOMAIN attempts[h] THEN attempts[h][j]
                    ELSE NewAttempt("claimed", s)
             e == [old EXCEPT !.at = "claimed", !.session = s]
             f == With(Without(attempts[h], j), j, e)
  <2>1. registry' = Reconciled(Claimed(registry, j.msg))
        /\ attempts' = [attempts EXCEPT ![h] = f]
    BY <1>2 DEF ClaimOrSkip
  <2>2. s \in Nat
    <3>1. j.msg \in DOMAIN registry.mail
      BY <1>2 DEF MayClaim
    <3>2. s \in Ids
      BY <1>1, <3>1, SnapshotFields DEF Sound, Message
    <3> QED
      BY <3>2, IdsAreNumbers
  <2>3. old \in Attempt
    BY <1>1, <2>2, NewAttemptType DEF AttemptsTyped
  <2>4. \A i \in old.stop : Dead(i)
    <3>1. NewAttempt("claimed", s).stop = {}
      BY DEF NewAttempt
    <3> QED
      BY <1>1, <3>1 DEF StopsDead
  <2>5. e.at = "claimed" /\ e.stop = old.stop
    <3> HIDE DEF old, s
    <3> QED
      BY <2>3 DEF Attempt
  <2> HIDE DEF e
  <2>6. /\ DOMAIN f = DOMAIN attempts[h] \cup {j} /\ f[j] = e
        /\ \A i \in DOMAIN attempts[h] \ {j} : f[i] = attempts[h][i]
    BY DEF With, Without
  <2> HIDE DEF f, old
  <2>7. attempts'[h] = f /\ \A g \in Hosts \ {h} : attempts'[g] = attempts[g]
    BY <1>1, <2>1 DEF AttemptsTyped
  <2>8. Here(h)
    BY <1>1, <2>7 DEF Here
  <2>9. StopsDead(h)'
    <3>1. \A call \in calls'[h] : \A i \in call.stop : Dead(i)'
      BY <1>1, DeadStays DEF StopsDead
    <3>2. \A k \in DOMAIN f : \A i \in f[k].stop : Dead(i)
      BY <1>1, <2>4, <2>5, <2>6 DEF StopsDead
    <3>3. \A k \in DOMAIN attempts'[h] : \A i \in attempts'[h][k].stop : Dead(i)'
      BY <1>1, <2>7, <3>2, DeadStays
    <3> QED
      BY <3>1, <3>3 DEF StopsDead
  <2>10. registry'.epoch = registry.epoch /\ j.epoch = registry.epoch
    BY <1>1, <1>2, <2>1, ClaimWithin DEF MayClaim
  <2>11. owned[h] = registry.epoch
    <3>1. CASE j \in DOMAIN attempts[h]
      BY <1>1, <2>10, <3>1 DEF Drained
    <3> QED
      BY <2>10, <3>1
  <2>12. StillRunning(j)'
    <3> DEFINE q == Claimed(registry, j.msg)
               note == registry.mail[j.msg]
               letter == [note EXCEPT !.status = "running", !.started = TRUE,
                                      !.reserved = TRUE]
    <3>1. j.msg \in DOMAIN registry.mail
      BY <1>2 DEF MayClaim
    <3>2. q.mail = [registry.mail EXCEPT ![j.msg] = letter]
      BY <1>1 DEF Sound, Snapshot, Claimed
    <3>3. letter.status = "running"
      <4>1. note \in Message
        BY <1>1, <3>1, SnapshotFields DEF Sound
      <4> HIDE DEF note
      <4> QED
        BY <4>1 DEF Message
    <3>4. Sound(q)
      BY <1>1, <1>2, <2>10, <3>1, ClaimedSound
    <3> HIDE DEF q, letter
    <3>5. registry'.mail = q.mail
      BY <2>1, <3>4, ReconciledCurrent DEF q
    <3> QED
      BY <2>10, <3>1, <3>2, <3>3, <3>5 DEF StillRunning, InStatus
  <2>13. j \in DOMAIN attempts'[h] /\ Carries(h, j)'
    BY <2>5, <2>6, <2>7, <2>12 DEF Carries
  <2>14. Woken(h)'
    BY <2>13 DEF Woken, Waking
  <2> QED
    BY <2>8, <2>9, <2>10, <2>11, <2>14, RoutineKept
<1>3. CASE ~MayClaim(registry, j.msg, j.epoch)
  <2> DEFINE f == Without(attempts[h], j)
  <2>1. registry' = registry /\ attempts' = [attempts EXCEPT ![h] = f]
    BY <1>3 DEF ClaimOrSkip
  <2>2. /\ DOMAIN f = DOMAIN attempts[h] \ {j}
        /\ \A i \in DOMAIN attempts[h] \ {j} : f[i] = attempts[h][i]
    BY DEF Without
  <2> HIDE DEF f
  <2>3. attempts'[h] = f /\ \A g \in Hosts \ {h} : attempts'[g] = attempts[g]
    BY <1>1, <2>1 DEF AttemptsTyped
  <2>4. Here(h) /\ Trimmed(h)
    BY <1>1, <2>2, <2>3 DEF Here, Trimmed
  <2>5. StopsDead(h)'
    BY <1>1, <2>4, TrimmedStops
  <2>6. ~Claimable(j) /\ (j \in DOMAIN attempts[h] => ~Carries(h, j))
    BY <1>3 DEF Claimable, Carries
  <2>7. \A i \in DOMAIN attempts[h] \ {j} : Carries(h, i) => Carries(h, i)'
    BY <2>1, <2>2, <2>3, SameClaims DEF Carries
  <2>8. Waking(h) => Waking(h)'
    BY <2>1, <2>2, <2>3, <2>6, <2>7, SameClaims DEF Waking, Rouses
  <2>9. Woken(h)'
    BY <1>1, <2>1, <2>8 DEF Woken, Client
  <2> QED
    BY <2>1, <2>4, <2>5, <2>9, RoutineKept
<1> QED
  BY <1>2, <1>3

LEMMA DispatchScheduled ==
    ASSUME Setting, NEW h \in Hosts, Dispatch(h)
    PROVE  Scheduled'
<1>1. PICK j \in queue[h] :
        /\ Dispatchable(h, j) /\ ClaimOrSkip(h, j)
        /\ queue' = [queue EXCEPT ![h] = queue[h] \ {j}] \/ queue' = queue
  BY DEF Dispatch
<1>2. UNCHANGED <<owned, closed, recovery, calls>> /\ DOMAIN queue = Hosts
  BY DEF Dispatch, Setting
<1>3. j \notin DOMAIN attempts[h] /\ owned[h] = j.epoch
  BY <1>1 DEF Dispatchable
<1>4. /\ DOMAIN queue' = Hosts
      /\ \A g \in Hosts \ {h} : queue'[g] = queue[g]
      /\ \A i \in queue[h] \ {j} : i \in queue'[h]
  BY <1>1, <1>2
<1> QED
  BY <1>1, <1>2, <1>3, <1>4, ClaimOrSkipScheduled

\* An attempt that leaves without a job to carry.
LEMMA LeftScheduled ==
    ASSUME Setting, NEW h \in Hosts, NEW j, ~Carries(h, j),
           attempts' = [attempts EXCEPT ![h] = Without(attempts[h], j)],
           UNCHANGED <<registry, owned, closed, queue, recovery, calls>>
    PROVE  Scheduled'
<1>1. /\ Woken(h) /\ StopsDead(h) /\ AttemptsTyped /\ [Mail!MailNext]_(Mail!mailVars)
      /\ DOMAIN queue = Hosts /\ DOMAIN calls = Hosts
  BY SettingHost DEF Setting
<1> DEFINE f == Without(attempts[h], j)
<1>2. /\ DOMAIN f = DOMAIN attempts[h] \ {j}
      /\ \A i \in DOMAIN attempts[h] \ {j} : f[i] = attempts[h][i]
  BY DEF Without
<1>3. attempts' = [attempts EXCEPT ![h] = f]
  OBVIOUS
<1> HIDE DEF f
<1>4. attempts'[h] = f /\ \A g \in Hosts \ {h} : attempts'[g] = attempts[g]
  BY <1>1, <1>3 DEF AttemptsTyped
<1>5. Here(h) /\ Trimmed(h)
  BY <1>1, <1>2, <1>4 DEF Here, Trimmed
<1>6. StopsDead(h)'
  BY <1>1, <1>5, TrimmedStops
<1>7. \A i \in DOMAIN attempts[h] \ {j} : Carries(h, i) => Carries(h, i)'
  BY <1>2, <1>4, SameClaims DEF Carries
<1>8. Waking(h) => Waking(h)'
  BY <1>2, <1>4, <1>7, SameClaims DEF Waking, Rouses
<1>9. Woken(h)'
  BY <1>1, <1>8 DEF Woken, Client
<1> QED
  BY <1>5, <1>6, <1>9, RoutineKept

LEMMA AnswerLateScheduled ==
    ASSUME Setting, NEW h \in Hosts, AnswerLate(h)
    PROVE  Scheduled'
<1>1. UNCHANGED <<owned, closed, queue, recovery, calls>> /\ DOMAIN queue = Hosts
  BY DEF AnswerLate, Setting
<1>2. PICK j \in DOMAIN attempts[h] :
        \/ attempts[h][j].at = "dispatched" /\ ClaimOrSkip(h, j)
        \/ /\ attempts[h][j].at = "skipped"
           /\ attempts' = [attempts EXCEPT ![h] = Without(attempts[h], j)]
           /\ UNCHANGED registry
  BY DEF AnswerLate
<1>3. CASE attempts[h][j].at = "dispatched" /\ ClaimOrSkip(h, j)
  <2>1. /\ \A g \in Hosts \ {h} : queue'[g] = queue[g]
        /\ \A i \in queue[h] \ {j} : i \in queue'[h]
    BY <1>1
  <2> QED
    BY <1>1, <1>3, <2>1, ClaimOrSkipScheduled
<1>4. CASE /\ attempts[h][j].at = "skipped"
           /\ attempts' = [attempts EXCEPT ![h] = Without(attempts[h], j)]
           /\ UNCHANGED registry
  <2>1. ~Carries(h, j)
    BY <1>4 DEF Carries
  <2> QED
    BY <1>1, <1>4, <2>1, LeftScheduled
<1> QED
  BY <1>2, <1>3, <1>4

\* A slow store answers for a job that leaves the queue; it skips only what
\* could not be claimed.
LEMMA DispatchSlowlyScheduled ==
    ASSUME Setting, NEW h \in Hosts, DispatchSlowly(h)
    PROVE  Scheduled'
<1>1. UNCHANGED <<registry, owned, closed, recovery, calls>>
  BY DEF DispatchSlowly
<1>2. PICK j \in queue[h] : \E at \in {"dispatched", "skipped"} :
        /\ Dispatchable(h, j)
        /\ queue' = [queue EXCEPT ![h] = queue[h] \ {j}]
        /\ attempts' = [attempts EXCEPT ![h] = With(attempts[h], j, NewAttempt(at, 0))]
        /\ at = "skipped" => ~MayClaim(registry, j.msg, j.epoch)
  BY DEF DispatchSlowly, SetAttempt
<1>3. PICK at \in {"dispatched", "skipped"} :
        /\ Dispatchable(h, j)
        /\ queue' = [queue EXCEPT ![h] = queue[h] \ {j}]
        /\ attempts' = [attempts EXCEPT ![h] = With(attempts[h], j, NewAttempt(at, 0))]
        /\ at = "skipped" => ~MayClaim(registry, j.msg, j.epoch)
  BY <1>2
<1>4. /\ Woken(h) /\ StopsDead(h) /\ AttemptsTyped /\ [Mail!MailNext]_(Mail!mailVars)
      /\ DOMAIN queue = Hosts /\ DOMAIN calls = Hosts
  BY SettingHost DEF Setting
<1> DEFINE e == NewAttempt(at, 0)
           f == With(attempts[h], j, e)
<1>5. e.at = at /\ e.stop = {} /\ j \notin DOMAIN attempts[h]
  BY <1>3 DEF NewAttempt, Dispatchable
<1> HIDE DEF e
<1>6. /\ DOMAIN f = DOMAIN attempts[h] \cup {j} /\ f[j] = e
      /\ \A i \in DOMAIN attempts[h] \ {j} : f[i] = attempts[h][i]
  BY DEF With
<1>7. attempts' = [attempts EXCEPT ![h] = f]
  BY <1>3 DEF e
<1> HIDE DEF f
<1>8. /\ attempts'[h] = f /\ \A g \in Hosts \ {h} : attempts'[g] = attempts[g]
      /\ queue'[h] = queue[h] \ {j} /\ \A g \in Hosts \ {h} : queue'[g] = queue[g]
      /\ DOMAIN queue' = Hosts
  BY <1>3, <1>4, <1>7 DEF AttemptsTyped
<1>9. Here(h)
  BY <1>1, <1>4, <1>8 DEF Here
<1>10. StopsDead(h)'
  <2>1. \A call \in calls'[h] : \A i \in call.stop : Dead(i)'
    BY <1>1, <1>4, DeadStays DEF StopsDead
  <2>2. \A k \in DOMAIN f : \A i \in f[k].stop : Dead(i)
    BY <1>4, <1>5, <1>6 DEF StopsDead
  <2>3. \A k \in DOMAIN attempts'[h] : \A i \in attempts'[h][k].stop : Dead(i)'
    BY <1>4, <1>8, <2>2, DeadStays
  <2> QED
    BY <2>1, <2>3 DEF StopsDead
<1>11. Claimable(j) => j \in DOMAIN attempts'[h] /\ Carries(h, j)'
  BY <1>1, <1>3, <1>5, <1>6, <1>8, SameClaims DEF Carries, Claimable
<1>12. \A i \in DOMAIN attempts[h] : Carries(h, i) => i \in DOMAIN attempts'[h] /\ Carries(h, i)'
  <2> TAKE i \in DOMAIN attempts[h]
  <2>1. attempts'[h][i] = attempts[h][i] /\ i \in DOMAIN attempts'[h]
    BY <1>5, <1>6, <1>8
  <2> QED
    BY <1>1, <2>1, SameClaims DEF Carries
<1>13. Waking(h) => Waking(h)'
  BY <1>1, <1>8, <1>11, <1>12, SameClaims DEF Waking, Rouses
<1>14. Woken(h)'
  BY <1>1, <1>4, <1>13 DEF Woken, Client
<1> QED
  BY <1>1, <1>9, <1>10, <1>14, RoutineKept

LEMMA LeaveLeaves ==
    ASSUME Setting, NEW h \in Hosts, NEW j, NEW stop, Leave(h, j, stop), calls' = calls
    PROVE  /\ Here(h) /\ Trimmed(h)
           /\ DOMAIN attempts'[h] = DOMAIN attempts[h] \ {j}
           /\ queue'[h] = Enqueued(h, ReadyJobs(h, registry', j.epoch)) \ stop
<1>1. AttemptsTyped /\ DOMAIN queue = Hosts /\ DOMAIN calls = Hosts
  BY SettingHost DEF Setting
<1> DEFINE a == Aborted(attempts[h], stop)
           f == Without(a, j)
           rest == Enqueued(h, ReadyJobs(h, registry', j.epoch)) \ stop
<1>2. /\ DOMAIN a = DOMAIN attempts[h]
      /\ \A i \in DOMAIN a : a[i].at = attempts[h][i].at /\ a[i].stop = attempts[h][i].stop
  BY <1>1, AbortedTrims
<1>3. attempts' = [attempts EXCEPT ![h] = f] /\ queue' = [queue EXCEPT ![h] = rest]
  BY DEF Leave
<1> HIDE DEF a, rest
<1>4. DOMAIN f = DOMAIN a \ {j} /\ \A i \in DOMAIN a \ {j} : f[i] = a[i]
  BY DEF Without
<1> HIDE DEF f
<1>5. attempts'[h] = f /\ \A g \in Hosts \ {h} : attempts'[g] = attempts[g]
  BY <1>1, <1>3 DEF AttemptsTyped
<1>6. queue'[h] = rest /\ DOMAIN queue' = Hosts /\ \A g \in Hosts \ {h} : queue'[g] = queue[g]
  BY <1>1, <1>3
<1>7. Here(h)
  BY <1>1, <1>5, <1>6 DEF Here
<1>8. Trimmed(h) /\ DOMAIN attempts'[h] = DOMAIN attempts[h] \ {j}
  BY <1>2, <1>4, <1>5 DEF Trimmed
<1> QED
  BY <1>6, <1>7, <1>8 DEF rest

\* At the epoch, what is ready is enqueued when a run leaves.
LEMMA LeaveWakes ==
    ASSUME Setting, NEW h \in Hosts, NEW j, j.epoch = registry'.epoch, NEW stop,
           Leave(h, j, stop), \A i \in stop : Dead(i)',
           UNCHANGED <<owned, closed, calls>>
    PROVE  Woken(h)'
<1>1. CASE h \in closed
  BY <1>1 DEF Woken, Client
<1>2. CASE h \notin closed
  <2> DEFINE jobs == ReadyJobs(h, registry', j.epoch)
  <2>1. queue'[h] = Enqueued(h, jobs) \ stop
    BY LeaveLeaves
  <2>2. ReadyJobs(h, registry', registry'.epoch) \subseteq jobs
    OBVIOUS
  <2> HIDE DEF jobs
  <2> QED
    BY <1>2, <2>1, <2>2, ReadyWakes DEF Setting
<1> QED
  BY <1>1, <1>2

LEMMA LeaveStops ==
    ASSUME Setting, NEW h \in Hosts, Trimmed(h), calls' = calls
    PROVE  StopsDead(h)'
<1>1. StopsDead(h) /\ [Mail!MailNext]_(Mail!mailVars)
  BY SettingHost DEF Setting
<1>2. \A call \in calls'[h] : call \in calls[h] \/ \A j \in call.stop : Dead(j)'
  OBVIOUS
<1> QED
  BY <1>1, <1>2, TrimmedStops

LEMMA FinishScheduled ==
    ASSUME Setting, NEW h \in Hosts, Finish(h)
    PROVE  Scheduled'
<1>1. UNCHANGED <<registry, owned, closed, recovery, calls>>
  BY DEF Finish
<1>2. PICK j \in DOMAIN attempts[h] :
        attempts[h][j].at = "settled" /\ Leave(h, j, attempts[h][j].stop)
  BY DEF Finish
<1> DEFINE stop == attempts[h][j].stop
<1>3. Leave(h, j, stop)
  BY <1>2
<1>4. Woken(h) /\ StopsDead(h) /\ [Mail!MailNext]_(Mail!mailVars)
  BY SettingHost DEF Setting
<1>5. \A i \in stop : Dead(i)
  BY <1>4 DEF StopsDead
<1> HIDE DEF stop
<1>6. \A i \in stop : Dead(i)'
  BY <1>4, <1>5, DeadStays
<1>7. /\ Here(h) /\ Trimmed(h)
      /\ DOMAIN attempts'[h] = DOMAIN attempts[h] \ {j}
      /\ queue'[h] = Enqueued(h, ReadyJobs(h, registry', j.epoch)) \ stop
  BY <1>1, <1>3, LeaveLeaves
<1>8. StopsDead(h)'
  BY <1>1, <1>7, LeaveStops
<1>9. Woken(h)'
  <2>1. CASE j.epoch = registry.epoch
    BY <1>1, <1>3, <1>6, <2>1, LeaveWakes
  <2>2. CASE j.epoch # registry.epoch
    <3>1. ~Carries(h, j)
      BY <1>2, <2>2 DEF Carries
    <3>2. \A i \in queue[h] : Claimable(i) => i \in queue'[h] \/ Dead(i)'
      BY <1>6, <1>7 DEF Enqueued
    <3>3. \A i \in DOMAIN attempts[h] :
            Carries(h, i) => i \in DOMAIN attempts'[h] /\ Carries(h, i)'
      BY <1>1, <1>7, <3>1, SameClaims DEF Carries, Trimmed
    <3>4. Waking(h) => Waking(h)'
      <4>1. \A call \in calls[h] : Rouses(call) => call \in calls'[h] /\ Rouses(call)'
        BY <1>1, SameClaims DEF Rouses
      <4> QED
        BY <1>1, <3>2, <3>3, <4>1, SameClaims, WakingKept
    <3> QED
      BY <1>1, <1>4, <3>4 DEF Woken, Client
  <2> QED
    BY <2>1, <2>2
<1> QED
  BY <1>1, <1>7, <1>8, <1>9, RoutineKept

-----------------------------------------------------------------------------
(* An outcome is saved.                                                    *)

LEMMA NeverAbsent ==
    ASSUME [Mail!MailNext]_(Mail!mailVars), NEW m \in Ids, Life[m] # "absent"
    PROVE  Life'[m] # "absent"
<1>1. CASE Mail!Move
  BY <1>1 DEF Mail!Move, Mail!Moves, Mail!Endings
<1>2. CASE \E x \in Ids : Mail!Run(x)
  BY <1>2 DEF Mail!Run
<1>3. CASE UNCHANGED Mail!mailVars
  BY <1>3 DEF Mail!mailVars
<1> QED
  BY <1>1, <1>2, <1>3 DEF Mail!MailNext

\* What a spent budget stops waits no longer.
LEMMA StopSettledDead ==
    ASSUME Setting, NEW m, Exhausted(registry') => InStatus(registry', "pending") = {}
    PROVE  \A j \in StopSettled(registry', m) : Dead(j)'
<1>1. Sound(registry) /\ [Mail!MailNext]_(Mail!mailVars) /\ Sound(registry')
  BY DEF Setting, HostInvariant, MailInvariant
<1>2. ASSUME NEW j \in StopSettled(registry', m)
      PROVE  Dead(j)'
  <2>1. /\ InStatus(registry', "pending") = {}
        /\ \E x \in DOMAIN registry.mail : j = Job(x, registry.mail[x].job)
    BY DEF StopSettled, JobsOf, InStatus
  <2>2. j.msg \in DOMAIN registry.mail
    BY <2>1 DEF Job
  <2>3. j.msg \in Ids /\ registry.mail[j.msg].status # "absent"
    BY <1>1, <2>2, SnapshotFields DEF Sound, Message, Statuses, Mail!Endings
  <2>4. Life[j.msg] # "absent"
    BY <2>2, <2>3 DEF Life
  <2>5. Life'[j.msg] # "absent"
    BY <1>1, <2>3, <2>4, NeverAbsent
  <2>6. Life'[j.msg] # "pending"
    BY <2>1, <2>3 DEF Life, InStatus
  <2> QED
    BY <2>3, <2>5, <2>6 DEF Dead
<1> QED
  BY <1>2

LEMMA CompleteScheduled ==
    ASSUME Setting, NEW h \in Hosts, Complete(h)
    PROVE  Scheduled'
<1>1. UNCHANGED <<owned, closed, recovery, calls>>
  BY DEF Complete
<1>2. PICK j \in DOMAIN attempts[h] :
        /\ attempts[h][j].at \in {"claimed", "forwarding"}
        /\ \/ /\ StillRunning(j)
              /\ SaveOutcome(attempts[h][j], j.msg)
              /\ LET stop == StopSettled(registry', j.msg) IN
                 \/ Leave(h, j, stop)
                 \/ /\ SetAttempt(h, j, [attempts[h][j] EXCEPT !.at = "settled",
                                                               !.stop = stop])
                    /\ UNCHANGED queue
           \/ /\ ~StillRunning(j)
              /\ attempts' = [attempts EXCEPT ![h] = Without(attempts[h], j)]
              /\ UNCHANGED <<registry, queue>>
  BY Zenon DEF Complete
<1>3. CASE /\ ~StillRunning(j)
           /\ attempts' = [attempts EXCEPT ![h] = Without(attempts[h], j)]
           /\ UNCHANGED <<registry, queue>>
  <2>1. ~Carries(h, j)
    BY <1>2, <1>3 DEF Carries
  <2> QED
    BY <1>1, <1>3, <2>1, LeftScheduled
<1> DEFINE cut == StopSettled(registry', j.msg)
<1>4. ASSUME StillRunning(j), SaveOutcome(attempts[h][j], j.msg),
             NEW stop, stop = cut,
             \/ Leave(h, j, stop)
             \/ /\ SetAttempt(h, j, [attempts[h][j] EXCEPT !.at = "settled",
                                                           !.stop = stop])
                /\ UNCHANGED queue
      PROVE  Scheduled'
  <2>1. /\ HostInvariant /\ Current(registry) /\ Drained(h) /\ AttemptsTyped
        /\ StopsDead(h) /\ [Mail!MailNext]_(Mail!mailVars)
        /\ DOMAIN queue = Hosts /\ DOMAIN calls = Hosts /\ registry.epoch \in Nat
    BY SettingHost DEF Setting
  <2>2. /\ registry'.epoch = registry.epoch
        /\ Exhausted(registry') => InStatus(registry', "pending") = {}
    BY <1>4, <2>1, OutcomeQueues
  <2>3. \A i \in stop : Dead(i)'
    BY <1>4, <2>2, StopSettledDead
  <2>4. j.epoch = registry.epoch /\ owned[h] = registry.epoch
    BY <1>4, <2>1 DEF StillRunning, Drained
  <2> HIDE DEF cut
  <2>5. CASE Leave(h, j, stop)
    <3>1. Here(h) /\ Trimmed(h)
      BY <1>1, <2>5, LeaveLeaves
    <3>2. Woken(h)'
      BY <1>1, <2>2, <2>3, <2>4, <2>5, LeaveWakes
    <3>3. StopsDead(h)'
      BY <1>1, <3>1, LeaveStops
    <3> QED
      BY <1>1, <2>2, <2>4, <3>1, <3>2, <3>3, RoutineKept
  <2>6. CASE /\ SetAttempt(h, j, [attempts[h][j] EXCEPT !.at = "settled",
                                                        !.stop = stop])
             /\ UNCHANGED queue
    <3> DEFINE old == attempts[h][j]
               e == [old EXCEPT !.at = "settled", !.stop = stop]
               f == With(attempts[h], j, e)
    <3>1. e.at = "settled" /\ e.stop = stop
      <4>1. old \in Attempt
        BY <2>1 DEF AttemptsTyped
      <4> HIDE DEF old
      <4> QED
        BY <4>1 DEF Attempt
    <3>2. attempts' = [attempts EXCEPT ![h] = f]
      BY <2>6 DEF SetAttempt
    <3> HIDE DEF e
    <3>3. /\ DOMAIN f = DOMAIN attempts[h] /\ f[j] = e
          /\ \A i \in DOMAIN attempts[h] \ {j} : f[i] = attempts[h][i]
      BY DEF With
    <3> HIDE DEF f
    <3>4. attempts'[h] = f /\ \A g \in Hosts \ {h} : attempts'[g] = attempts[g]
      BY <2>1, <3>2 DEF AttemptsTyped
    <3>5. Here(h)
      BY <1>1, <2>1, <2>6, <3>4 DEF Here
    <3>6. StopsDead(h)'
      <4>1. \A call \in calls'[h] : \A i \in call.stop : Dead(i)'
        BY <1>1, <2>1, DeadStays DEF StopsDead
      <4>2. ASSUME NEW k \in DOMAIN attempts'[h], NEW i \in attempts'[h][k].stop
            PROVE  Dead(i)'
        <5>1. CASE k = j
          BY <2>3, <3>1, <3>3, <3>4, <4>2, <5>1
        <5>2. CASE k # j
          <6>1. k \in DOMAIN attempts[h] /\ i \in attempts[h][k].stop
            BY <3>3, <3>4, <4>2, <5>2
          <6> QED
            BY <2>1, <6>1, DeadStays DEF StopsDead
        <5> QED
          BY <5>1, <5>2
      <4> QED
        BY <4>1, <4>2 DEF StopsDead
    <3>7. j \in DOMAIN attempts'[h] /\ Carries(h, j)'
      BY <2>2, <2>4, <3>1, <3>3, <3>4 DEF Carries
    <3>8. Woken(h)'
      BY <3>7 DEF Woken, Waking
    <3> QED
      BY <1>1, <2>2, <2>4, <3>5, <3>6, <3>8, RoutineKept
  <2> QED
    BY <1>4, <2>5, <2>6
<1>5. CASE /\ StillRunning(j)
           /\ SaveOutcome(attempts[h][j], j.msg)
           /\ LET stop == StopSettled(registry', j.msg) IN
              \/ Leave(h, j, stop)
              \/ /\ SetAttempt(h, j, [attempts[h][j] EXCEPT !.at = "settled",
                                                            !.stop = stop])
                 /\ UNCHANGED queue
  <2>1. PICK stop : stop = cut
    OBVIOUS
  <2>2. \/ Leave(h, j, stop)
        \/ /\ SetAttempt(h, j, [attempts[h][j] EXCEPT !.at = "settled",
                                                      !.stop = stop])
           /\ UNCHANGED queue
    BY <1>5, <2>1
  <2> QED
    BY <1>4, <1>5, <2>1, <2>2
<1> QED
  BY <1>2, <1>3, <1>5

-----------------------------------------------------------------------------
(* Recoveries and faults.                                                  *)

LEMMA SetRecoveryIs ==
    ASSUME Setting, NEW h \in Hosts, NEW at, NEW epoch, SetRecovery(h, at, epoch)
    PROVE  /\ recovery'[h].at = at /\ recovery'[h].epoch = epoch
           /\ \A g \in Hosts \ {h} : recovery'[g] = recovery[g]
<1>1. DOMAIN recovery = Hosts
  BY DEF Setting, HostInvariant, DrainInvariant, EpochsKnown
<1> DEFINE new == [at |-> at, epoch |-> epoch]
<1>2. new.at = at /\ new.epoch = epoch
  OBVIOUS
<1>3. recovery' = [recovery EXCEPT ![h] = new]
  BY DEF SetRecovery
<1> HIDE DEF new
<1> QED
  BY <1>1, <1>2, <1>3

\* A host whose recovery is under way is busy.
LEMMA RecoveringWakes ==
    ASSUME NEW h \in Hosts, recovery'[h].at # "idle"
    PROVE  Woken(h)'
BY DEF Woken, Waking

LEMMA FencesScheduled ==
    ASSUME Setting, NEW h \in Hosts, NEW at, NEW epoch, at \notin {"idle", "draining"},
           registry' = Fenced, SetRecovery(h, at, epoch),
           UNCHANGED <<owned, closed, queue, attempts, calls>>
    PROVE  Scheduled'
<1>1. /\ HostInvariant /\ Scheduled /\ [Mail!MailNext]_(Mail!mailVars)
      /\ StopsDead(h) /\ DOMAIN queue = Hosts /\ DOMAIN calls = Hosts
      /\ registry.epoch \in Nat
  BY SettingHost DEF Setting
<1>2. registry'.epoch = registry.epoch + 1
  BY <1>1, FenceQueues
<1>3. recovery'[h].at = at /\ \A g \in Hosts \ {h} : recovery'[g] = recovery[g]
  BY SetRecoveryIs
<1>4. Apart(h) /\ Leads(h)
  BY <1>1, <1>2, <1>3 DEF Apart, Leads
<1>5. StopsDead(h)'
  BY <1>1, TrimmedStops DEF Trimmed
<1>6. Woken(h)' /\ DrainsOwned(h)'
  BY <1>3, RecoveringWakes DEF DrainsOwned
<1> QED
  BY <1>1, <1>2, <1>4, <1>5, <1>6, ScheduledKept

LEMMA FenceScheduled ==
    ASSUME Setting, NEW h \in Hosts, Fence(h) \/ FenceAnswerLost(h)
    PROVE  Scheduled'
<1>1. CASE Fence(h)
  BY <1>1, FencesScheduled DEF Fence
<1>2. CASE FenceAnswerLost(h)
  BY <1>2, FencesScheduled DEF FenceAnswerLost
<1> QED
  BY <1>1, <1>2

LEMMA RevokedTrims ==
    ASSUME AttemptsTyped, NEW h \in Hosts, NEW f, f = Revoked(attempts[h])
    PROVE  /\ DOMAIN f = DOMAIN attempts[h]
           /\ \A j \in DOMAIN f : /\ f[j].at = attempts[h][j].at
                                  /\ f[j].stop = attempts[h][j].stop
<1>1. DOMAIN f = DOMAIN attempts[h]
  BY DEF Revoked
<1>2. ASSUME NEW j \in DOMAIN attempts[h]
      PROVE  f[j].at = attempts[h][j].at /\ f[j].stop = attempts[h][j].stop
  <2> DEFINE e == attempts[h][j]
  <2>1. e \in Attempt
    BY DEF AttemptsTyped
  <2>2. f[j] = [e EXCEPT !.aborted = TRUE, !.revoked = TRUE]
    BY DEF Revoked
  <2> HIDE DEF e
  <2>3. f[j].at = e.at /\ f[j].stop = e.stop
    BY <2>1, <2>2 DEF Attempt
  <2> QED
    BY <2>3 DEF e
<1> QED
  BY <1>1, <1>2

LEMMA TakeOverScheduled ==
    ASSUME Setting, NEW h \in Hosts, TakeOver(h)
    PROVE  Scheduled'
<1>1. /\ HostInvariant /\ Scheduled /\ [Mail!MailNext]_(Mail!mailVars)
      /\ StopsDead(h) /\ DOMAIN queue = Hosts /\ DOMAIN calls = Hosts
      /\ AttemptsTyped
  BY SettingHost DEF Setting
<1>2. UNCHANGED <<registry, closed, queue, calls>> /\ recovery[h].at = "fenced"
  BY DEF TakeOver
<1> DEFINE f == Revoked(attempts[h])
           epoch == recovery[h].epoch
<1>3. /\ attempts' = [attempts EXCEPT ![h] = f] /\ owned' = [owned EXCEPT ![h] = epoch]
      /\ SetRecovery(h, "draining", epoch)
  BY DEF TakeOver
<1>4. /\ DOMAIN f = DOMAIN attempts[h]
      /\ \A j \in DOMAIN f : f[j].at = attempts[h][j].at /\ f[j].stop = attempts[h][j].stop
  BY <1>1, RevokedTrims
<1>5. /\ recovery'[h].at = "draining" /\ recovery'[h].epoch = epoch
      /\ \A g \in Hosts \ {h} : recovery'[g] = recovery[g]
  BY <1>3, SetRecoveryIs
<1> HIDE DEF f
<1>6. attempts'[h] = f /\ \A g \in Hosts \ {h} : attempts'[g] = attempts[g]
  BY <1>1, <1>3 DEF AttemptsTyped
<1>7. owned'[h] = epoch /\ \A g \in Hosts \ {h} : owned'[g] = owned[g]
  BY <1>1, <1>3 DEF HostInvariant, DrainInvariant, EpochsKnown
<1>8. Apart(h) /\ Leads(h)
  BY <1>1, <1>2, <1>5, <1>6, <1>7 DEF Apart, Leads
<1>9. Heads(h)' => Heads(h)
  BY <1>2, <1>5, <1>7 DEF Heads
<1>10. StopsDead(h)'
  <2>1. Trimmed(h)
    BY <1>4, <1>6 DEF Trimmed
  <2> QED
    BY <1>1, <1>2, <2>1, TrimmedStops
<1>11. Woken(h)' /\ DrainsOwned(h)'
  BY <1>5, <1>7, RecoveringWakes DEF DrainsOwned
<1> QED
  BY <1>1, <1>8, <1>9, <1>10, <1>11, ScheduledKept

LEMMA ResumeScheduled ==
    ASSUME Setting, NEW h \in Hosts, Resume(h)
    PROVE  Scheduled'
<1>1. /\ HostInvariant /\ Scheduled /\ [Mail!MailNext]_(Mail!mailVars)
      /\ StopsDead(h) /\ DrainsOwned(h)
      /\ DOMAIN queue = Hosts /\ DOMAIN calls = Hosts
  BY SettingHost DEF Setting
<1>2. UNCHANGED <<registry, owned, closed, attempts, calls>> /\ recovery[h].at = "draining"
  BY DEF Resume
<1> DEFINE jobs == ReadyJobs(h, registry, recovery[h].epoch)
<1>3. /\ queue'[h] = Enqueued(h, jobs) /\ DOMAIN queue' = Hosts
      /\ \A g \in Hosts \ {h} : queue'[g] = queue[g]
  BY <1>1 DEF Resume
<1>4. SetRecovery(h, "idle", 0)
  BY DEF Resume, SetRecovery, NoRecovery
<1>5. /\ recovery'[h].at = "idle" /\ \A g \in Hosts \ {h} : recovery'[g] = recovery[g]
  BY <1>4, SetRecoveryIs
<1>6. Apart(h) /\ Leads(h)
  BY <1>1, <1>2, <1>3, <1>5 DEF Apart, Leads
<1>7. Heads(h)' => Heads(h)
  BY <1>2, <1>5 DEF Heads
<1>8. StopsDead(h)' /\ DrainsOwned(h)'
  BY <1>1, <1>2, <1>5, TrimmedStops DEF Trimmed, DrainsOwned
<1>9. Woken(h)'
  <2>1. CASE h \in closed \/ owned[h] # registry.epoch
    BY <1>2, <2>1 DEF Woken, Client
  <2>2. CASE h \notin closed /\ owned[h] = registry.epoch
    <3>1. recovery[h].epoch = registry.epoch
      BY <1>1, <1>2, <2>2 DEF DrainsOwned
    <3>2. PICK stop : stop = {}
      OBVIOUS
    <3>3. /\ queue'[h] = Enqueued(h, jobs) \ stop
          /\ ReadyJobs(h, registry', registry'.epoch) \subseteq jobs
      <4>1. ReadyJobs(h, registry', registry'.epoch) = jobs
        BY <1>2, <3>1 DEF ReadyJobs
      <4> HIDE DEF jobs
      <4> QED
        BY <1>3, <3>2, <4>1
    <3>4. \A i \in stop : Dead(i)'
      BY <3>2
    <3> HIDE DEF jobs
    <3> QED
      BY <1>2, <2>2, <3>3, <3>4, ReadyWakes DEF Setting
  <2> QED
    BY <2>1, <2>2
<1> QED
  BY <1>1, <1>6, <1>7, <1>8, <1>9, ScheduledKept

LEMMA LoadFailsScheduled ==
    ASSUME Setting, NEW h \in Hosts, LoadFails(h)
    PROVE  Scheduled'
<1>1. UNCHANGED <<registry, owned, closed, attempts, recovery, calls>>
  BY DEF LoadFails
<1>2. PICK j \in queue[h] :
        queue' = IF registry.epoch = j.epoch /\ j.msg \in InStatus(registry, "pending")
                 THEN queue ELSE [queue EXCEPT ![h] = queue[h] \ {j}]
  BY DEF LoadFails
<1>3. /\ Woken(h) /\ DOMAIN queue = Hosts /\ DOMAIN calls = Hosts
  BY SettingHost DEF Setting
<1>4. /\ DOMAIN queue' = Hosts /\ \A g \in Hosts \ {h} : queue'[g] = queue[g]
      /\ \A i \in queue[h] : Claimable(i) => i \in queue'[h]
  BY <1>2, <1>3 DEF Claimable, MayClaim, InStatus
<1>5. Here(h) /\ StopsDead(h)'
  BY <1>1, <1>3, <1>4, LeaveStops DEF Here, Trimmed
<1>6. Waking(h) => Waking(h)'
  BY <1>1, <1>4, SameClaims DEF Waking, Carries, Rouses
<1>7. Woken(h)'
  BY <1>1, <1>3, <1>6 DEF Woken, Client
<1> QED
  BY <1>1, <1>5, <1>7, RoutineKept

LEMMA ClaimAnswerLostScheduled ==
    ASSUME Setting, NEW h \in Hosts, ClaimAnswerLost(h)
    PROVE  Scheduled'
<1>1. /\ HostInvariant /\ Current(registry) /\ Scheduled
      /\ [Mail!MailNext]_(Mail!mailVars) /\ StopsDead(h)
      /\ DOMAIN queue = Hosts /\ DOMAIN calls = Hosts
  BY SettingHost DEF Setting
<1>2. UNCHANGED <<owned, closed, attempts, calls>> /\ SetRecovery(h, "asked", 0)
  BY DEF ClaimAnswerLost
<1>3. PICK j \in queue[h] :
        /\ owned[h] = j.epoch /\ MayClaim(registry, j.msg, j.epoch)
        /\ registry' = Reconciled(Claimed(registry, j.msg))
        /\ queue' = [queue EXCEPT ![h] = queue[h] \ {j}]
  BY DEF ClaimAnswerLost, Dispatchable
<1>4. registry'.epoch = registry.epoch /\ owned[h] = registry.epoch
  BY <1>1, <1>3, ClaimWithin DEF MayClaim
<1>5. recovery'[h].at = "asked" /\ \A g \in Hosts \ {h} : recovery'[g] = recovery[g]
  BY <1>2, SetRecoveryIs
<1>6. DOMAIN queue' = Hosts /\ \A g \in Hosts \ {h} : queue'[g] = queue[g]
  BY <1>1, <1>3
<1>7. Apart(h) /\ Leads(h) /\ Heads(h)
  BY <1>1, <1>2, <1>4, <1>5, <1>6 DEF Apart, Leads, Heads
<1>8. StopsDead(h)' /\ Woken(h)' /\ DrainsOwned(h)'
  BY <1>2, <1>5, LeaveStops, RecoveringWakes DEF Trimmed, DrainsOwned
<1> QED
  BY <1>1, <1>7, <1>8, ScheduledKept

LEMMA CompletionLostScheduled ==
    ASSUME Setting, NEW h \in Hosts, CompletionLost(h), excuses' = {}
    PROVE  Scheduled'
<1>1. /\ HostInvariant /\ Scheduled /\ [Mail!MailNext]_(Mail!mailVars)
      /\ StopsDead(h) /\ AttemptsTyped /\ DOMAIN queue = Hosts /\ DOMAIN calls = Hosts
  BY SettingHost DEF Setting
<1>2. UNCHANGED <<owned, closed, queue, calls>>
  BY DEF CompletionLost
<1>3. PICK j \in DOMAIN attempts[h] :
        attempts' = [attempts EXCEPT ![h] = Without(attempts[h], j)]
  BY DEF CompletionLost
<1>4. SetRecovery(h, "asked", 0) /\ registry' = registry
  <2>1. "lost" \notin excuses'
    OBVIOUS
  <2> QED
    BY <2>1 DEF CompletionLost
<1>5. recovery'[h].at = "asked" /\ \A g \in Hosts \ {h} : recovery'[g] = recovery[g]
  BY <1>4, SetRecoveryIs
<1> DEFINE f == Without(attempts[h], j)
<1>6. /\ DOMAIN f = DOMAIN attempts[h] \ {j}
      /\ \A i \in DOMAIN attempts[h] \ {j} : f[i] = attempts[h][i]
  BY DEF Without
<1>7. attempts' = [attempts EXCEPT ![h] = f]
  BY <1>3
<1> HIDE DEF f
<1>8. attempts'[h] = f /\ \A g \in Hosts \ {h} : attempts'[g] = attempts[g]
  BY <1>1, <1>7 DEF AttemptsTyped
<1>9. Apart(h) /\ Leads(h)
  BY <1>1, <1>2, <1>4, <1>5, <1>8 DEF Apart, Leads
<1>10. Heads(h)' => Heads(h)
  BY <1>2, <1>4, <1>5 DEF Heads
<1>11. StopsDead(h)' /\ Woken(h)' /\ DrainsOwned(h)'
  BY <1>2, <1>5, <1>6, <1>8, LeaveStops, RecoveringWakes DEF Trimmed, DrainsOwned
<1> QED
  BY <1>1, <1>9, <1>10, <1>11, ScheduledKept

LEMMA CrashScheduled ==
    ASSUME Setting, NEW h \in Hosts, Crash(h)
    PROVE  Scheduled'
<1>1. /\ HostInvariant /\ Scheduled /\ [Mail!MailNext]_(Mail!mailVars)
      /\ AttemptsTyped /\ DOMAIN queue = Hosts /\ DOMAIN calls = Hosts
      /\ registry.epoch # 0 /\ owned \in [Hosts -> Nat]
  BY SettingHost DEF Setting, HostInvariant, DrainInvariant, EpochsKnown
<1>2. registry' = registry /\ closed' = closed \ {h}
  BY DEF Crash
<1>3. /\ owned'[h] = 0 /\ \A g \in Hosts \ {h} : owned'[g] = owned[g]
      /\ attempts'[h] = NoAttempts /\ \A g \in Hosts \ {h} : attempts'[g] = attempts[g]
  BY <1>1 DEF Crash, AttemptsTyped
<1>4. /\ calls'[h] = {} /\ \A g \in Hosts \ {h} : calls'[g] = calls[g]
      /\ \A g \in Hosts \ {h} : queue'[g] = queue[g]
      /\ DOMAIN queue' = Hosts /\ DOMAIN calls' = Hosts
  BY <1>1 DEF Crash
<1>5. SetRecovery(h, "idle", 0)
  BY DEF Crash, SetRecovery, NoRecovery
<1>6. recovery'[h].at = "idle" /\ \A g \in Hosts \ {h} : recovery'[g] = recovery[g]
  BY <1>5, SetRecoveryIs
<1>7. Apart(h) /\ Leads(h)
  BY <1>2, <1>3, <1>4, <1>6 DEF Apart, Leads
<1>8. ~Heads(h)' /\ Woken(h)' /\ DrainsOwned(h)'
  BY <1>1, <1>2, <1>3, <1>6 DEF Heads, Woken, Client, DrainsOwned
<1>9. StopsDead(h)'
  BY <1>3, <1>4 DEF StopsDead, NoAttempts
<1> QED
  BY <1>1, <1>7, <1>8, <1>9, ScheduledKept

LEMMA CloseScheduled ==
    ASSUME Setting, NEW h \in Hosts, Close(h)
    PROVE  Scheduled'
<1>1. /\ HostInvariant /\ Scheduled /\ [Mail!MailNext]_(Mail!mailVars)
      /\ AttemptsTyped /\ DrainsOwned(h)
      /\ DOMAIN queue = Hosts /\ DOMAIN calls = Hosts
  BY SettingHost DEF Setting
<1>2. /\ UNCHANGED <<registry, owned, queue, recovery, calls>>
      /\ closed' = closed \cup {h}
      /\ \/ attempts' = [attempts EXCEPT ![h] = Aborted(attempts[h], DOMAIN attempts[h])]
         \/ attempts' = attempts
  BY DEF Close
<1>3. Trimmed(h) /\ \A g \in Hosts \ {h} : attempts'[g] = attempts[g]
  <2> DEFINE f == Aborted(attempts[h], DOMAIN attempts[h])
  <2>1. CASE attempts' = attempts
    BY <2>1 DEF Trimmed
  <2>2. CASE attempts' = [attempts EXCEPT ![h] = f]
    <3>1. /\ DOMAIN f = DOMAIN attempts[h]
          /\ \A j \in DOMAIN f : /\ f[j].at = attempts[h][j].at
                                 /\ f[j].stop = attempts[h][j].stop
      BY <1>1, AbortedTrims
    <3> HIDE DEF f
    <3>2. attempts'[h] = f /\ \A g \in Hosts \ {h} : attempts'[g] = attempts[g]
      BY <1>1, <2>2 DEF AttemptsTyped
    <3> QED
      BY <3>1, <3>2 DEF Trimmed
  <2> QED
    BY <1>2, <2>1, <2>2
<1>4. Apart(h) /\ Leads(h)
  BY <1>1, <1>2, <1>3 DEF Apart, Leads
<1>5. (Heads(h)' => Heads(h)) /\ DrainsOwned(h)' /\ Woken(h)'
  BY <1>1, <1>2 DEF Heads, DrainsOwned, Woken, Client
<1>6. StopsDead(h)'
  BY <1>2, <1>3, LeaveStops
<1> QED
  BY <1>1, <1>4, <1>5, <1>6, ScheduledKept

-----------------------------------------------------------------------------
(* The schedule, always.                                                   *)

LEMMA WakeStart == Init => WakeInvariant
<1> SUFFICES ASSUME Init PROVE WakeInvariant
  OBVIOUS
<1>1. registry.epoch = 1 /\ DOMAIN registry.mail = {}
  BY DEF Init, EmptyRegistry
<1>2. PICK h \in Hosts : owned = [g \in Hosts |-> IF g = h THEN 1 ELSE 0]
  BY DEF Init
<1>3. \A g \in Hosts : /\ recovery[g].at = "idle" /\ calls[g] = {}
                       /\ DOMAIN attempts[g] = {}
  BY DEF Init, NoRecovery, NoAttempts
<1>4. Current(registry)
  BY <1>1 DEF Current, InStatus
<1>5. HeadsAlone
  BY <1>1, <1>2, <1>3 DEF HeadsAlone, Heads
<1>6. ASSUME NEW g \in Hosts
      PROVE  Woken(g) /\ DrainsOwned(g) /\ StopsDead(g)
  BY <1>1, <1>3 DEF Woken, DrainsOwned, StopsDead
<1>7. DOMAIN queue = Hosts /\ DOMAIN calls = Hosts
  BY DEF Init
<1> QED
  BY <1>1, <1>4, <1>5, <1>6, <1>7 DEF WakeInvariant, Scheduled

\* What was withdrawn, lost or left unfenced stays so.
LEMMA HistoryGrows ==
    ASSUME [Next]_vars
    PROVE  /\ excuses \subseteq excuses'
           /\ unfenced => unfenced'
<1>1. CASE UNCHANGED vars
  BY <1>1 DEF vars, history
<1>2. ASSUME NEW h \in Hosts, ClientStep(h)
      PROVE  excuses \subseteq excuses' /\ unfenced' = unfenced
  BY <1>2 DEF ClientStep, Spawn, Send, Cancel, Dispose, history
<1>3. ASSUME NEW h \in Hosts, DispatchStep(h)
      PROVE  excuses \subseteq excuses' /\ unfenced' = unfenced
  BY <1>3 DEF DispatchStep, Drop, Dispatch, DispatchSlowly, AnswerLate, Forward,
              Complete, Finish, history
<1>4. ASSUME NEW h \in Hosts, HostStep(h)
      PROVE  excuses \subseteq excuses' /\ unfenced' = unfenced
  BY <1>4 DEF HostStep, Schedule, Fence, TakeOver, Resume, history
<1>5. ASSUME NEW h \in Hosts, FaultStep(h)
      PROVE  excuses \subseteq excuses' /\ (unfenced' = unfenced \/ unfenced' = TRUE)
  BY <1>5 DEF FaultStep, LoadFails, ClaimAnswerLost, FenceAnswerLost, CompletionLost,
              ResumeRecoveryJob, Crash, Close, history
<1> QED
  BY <1>1, <1>2, <1>3, <1>4, <1>5 DEF Next

LEMMA SchedulersStay ==
    ASSUME [Next]_vars, DOMAIN queue = Hosts, DOMAIN calls = Hosts
    PROVE  DOMAIN queue' = Hosts /\ DOMAIN calls' = Hosts
<1>1. CASE UNCHANGED vars
  BY <1>1 DEF vars, hostVars
<1>2. ASSUME NEW h \in Hosts, NEW call, NEW cost, Follow(h, call, cost)
      PROVE  DOMAIN queue' = Hosts /\ DOMAIN calls' = Hosts
  BY <1>2 DEF Follow, Perform
<1>3. ASSUME NEW h \in Hosts, ClientStep(h)
      PROVE  DOMAIN queue' = Hosts /\ DOMAIN calls' = Hosts
  BY <1>2, <1>3 DEF ClientStep, Spawn, Send, Cancel, Dispose
<1>4. ASSUME NEW h \in Hosts, DispatchStep(h)
      PROVE  DOMAIN queue' = Hosts /\ DOMAIN calls' = Hosts
  <2>1. calls' = calls
    BY <1>4 DEF DispatchStep, Drop, Dispatch, DispatchSlowly, AnswerLate, Forward,
                Complete, Finish
  <2>2. queue' = queue \/ \E jobs : queue' = [queue EXCEPT ![h] = jobs]
    BY <1>4 DEF DispatchStep, Drop, Dispatch, DispatchSlowly, AnswerLate, Forward,
                Complete, Finish, Leave
  <2> QED
    BY <2>1, <2>2
<1>5. ASSUME NEW h \in Hosts, HostStep(h)
      PROVE  DOMAIN queue' = Hosts /\ DOMAIN calls' = Hosts
  BY <1>5 DEF HostStep, Schedule, Perform, Fence, TakeOver, Resume
<1>6. ASSUME NEW h \in Hosts, FaultStep(h)
      PROVE  DOMAIN queue' = Hosts /\ DOMAIN calls' = Hosts
  BY <1>6 DEF FaultStep, LoadFails, ClaimAnswerLost, FenceAnswerLost, CompletionLost,
              ResumeRecoveryJob, Crash, Close
<1> QED
  BY <1>1, <1>3, <1>4, <1>5, <1>6 DEF Next

LEMMA StepScheduled ==
    ASSUME Setting, [Next]_vars, excuses' = {}, ~unfenced'
    PROVE  Scheduled'
<1>1. CASE UNCHANGED vars
  <2>1. PICK h \in Hosts : TRUE
    BY HostsAssumption
  <2>2. UNCHANGED <<registry, owned, closed, queue, attempts, recovery, calls>>
    BY <1>1 DEF vars, hostVars
  <2>3. Woken(h) /\ DOMAIN queue = Hosts /\ DOMAIN calls = Hosts
    BY SettingHost DEF Setting
  <2>4. Here(h) /\ StopsDead(h)'
    BY <2>2, <2>3, LeaveStops DEF Here, Trimmed
  <2>5. Woken(h)'
    BY <2>2, <2>3, SameClaims DEF Woken, Waking, Carries, Rouses, Client
  <2> QED
    BY <2>2, <2>4, <2>5, RoutineKept
<1>2. ASSUME NEW h \in Hosts, ClientStep(h)
      PROVE  Scheduled'
  <2>1. ~Cancel(h) /\ ~Dispose(h)
    BY DEF Cancel, Dispose
  <2> QED
    BY <1>2, <2>1, SpawnScheduled, SendScheduled DEF ClientStep
<1>3. ASSUME NEW h \in Hosts, DispatchStep(h)
      PROVE  Scheduled'
  BY <1>3, DropScheduled, DispatchScheduled, DispatchSlowlyScheduled, AnswerLateScheduled,
     ForwardScheduled, CompleteScheduled, FinishScheduled DEF DispatchStep
<1>4. ASSUME NEW h \in Hosts, HostStep(h)
      PROVE  Scheduled'
  BY <1>4, ScheduleScheduled, FenceScheduled, TakeOverScheduled, ResumeScheduled
     DEF HostStep
<1>5. ASSUME NEW h \in Hosts, FaultStep(h)
      PROVE  Scheduled'
  <2>1. ~ResumeRecoveryJob(h)
    BY DEF ResumeRecoveryJob
  <2> QED
    BY <1>5, <2>1, LoadFailsScheduled, ClaimAnswerLostScheduled, FenceScheduled,
       CompletionLostScheduled, CrashScheduled, CloseScheduled DEF FaultStep
<1> QED
  BY <1>1, <1>2, <1>3, <1>4, <1>5 DEF Next

LEMMA WakeStep ==
    ASSUME HostInvariant, BooksInvariant, WakeInvariant, [Next]_vars
    PROVE  WakeInvariant'
<1>1. HostInvariant' /\ [Mail!MailNext]_(Mail!mailVars)
  BY HostsStep DEF StepGood
<1>2. BooksInvariant'
  BY BooksStep
<1>3. /\ Current(registry) /\ registry.epoch # 0
      /\ DOMAIN queue = Hosts /\ DOMAIN calls = Hosts
  BY DEF WakeInvariant
<1>4. Current(registry') /\ registry'.epoch \in {registry.epoch, registry.epoch + 1}
  BY <1>3, StepWithin DEF Within
<1>5. registry'.epoch # 0
  <2>1. registry.epoch \in Nat
    BY SnapshotFields DEF HostInvariant, MailInvariant, Sound
  <2> QED
    BY <1>3, <1>4, <2>1
<1>6. DOMAIN queue' = Hosts /\ DOMAIN calls' = Hosts
  BY <1>3, SchedulersStay
<1>7. ASSUME excuses' = {}, ~unfenced'
      PROVE  Scheduled'
  <2>1. excuses = {} /\ ~unfenced
    BY <1>7, HistoryGrows
  <2>2. Setting
    BY <1>1, <1>2, <1>3, <1>4, <2>1 DEF Setting, WakeInvariant
  <2> QED
    BY <1>7, <2>2, StepScheduled
<1> QED
  BY <1>4, <1>5, <1>6, <1>7 DEF WakeInvariant

(* No message that could run is left where nothing would claim it: while   *)
(* no work is withdrawn, no wake-up is lost and every takeover drained     *)
(* first, a host that owns the epoch is recovering, or has a job, an       *)
(* attempt or a call that schedules it.                                    *)
THEOREM MailAlwaysScheduled == Spec => []MailScheduled
<1>1. Init => BooksInvariant
  <2> SUFFICES ASSUME Init PROVE BooksInvariant
    OBVIOUS
  <2> QED
    BY EmptyBooks DEF Init, BooksInvariant
<1>2. HostInvariant /\ BooksInvariant /\ WakeInvariant /\ [Next]_vars
        => BooksInvariant' /\ WakeInvariant'
  BY BooksStep, WakeStep
<1>3. WakeInvariant => MailScheduled
  <2> SUFFICES ASSUME WakeInvariant, Stranded, excuses = {}, ~unfenced
               PROVE  FALSE
    BY DEF MailScheduled
  <2>1. PICK h \in Hosts : Client(h)
    BY DEF Stranded
  <2>2. Waking(h)
    BY <2>1 DEF Stranded, WakeInvariant, Scheduled, Woken
  <2> QED
    BY <2>2 DEF Stranded, Waking, NoAttempts
<1> QED
  BY <1>1, <1>2, <1>3, WakeStart, HostsAlways, PTL DEF Spec
=============================================================================
