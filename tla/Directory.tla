----------------------------- MODULE Directory -----------------------------
(***************************************************************************)
(* Who is in a group, and how groups begin: batches of people enrolled     *)
(* (MemberService.add_members), one membership edited (update_member), and *)
(* new groups created with a founder and a number of their own             *)
(* (GroupService.create_group).  The enrolments and the edits are about    *)
(* one group; a creation makes another group, and meets them at the rows   *)
(* of members, which all groups share, and at the pool of numbers.         *)
(*                                                                         *)
(* A person is a row of members and, in the group, a membership and its    *)
(* profile.  An insert or an update keeps a row locked, for everybody else, *)
(* until its transaction ends; a second insert of the same person waits    *)
(* for the first and then fails on the unique index.  An update sends the  *)
(* columns whose value is not the one loaded, no others.  A batch writes a *)
(* membership before its profile, an edit after it.                        *)
(* Left out: the names themselves, consents (written under the locks of    *)
(* the membership), new phone numbers of known people, and removed_at.     *)
(***************************************************************************)
EXTENDS Naturals, Sequences, FiniteSets

CONSTANTS
  Person,
  Roster,     (* the memberships at the beginning                          *)
  Enrolment,  (* calls of add_members                                      *)
  Batch,      (* whom each enrols, in order                                *)
  Edit,       (* calls of update_member                                    *)
  Wish,       (* what they may ask for                                     *)
  Renames,    (* those of both kinds that bring another name               *)
  Creation,   (* calls of create_group; each names its group               *)
  Founder,    (* the moderator each one names                              *)
  Number,     (* the pool                                                  *)
  None,
  MaxBusy,    (* bound on the handlers at work at once                     *)
  MaxFail     (* bound on handlers that die or raise                       *)

Handler == Enrolment \cup Edit \cup Creation
Role == {"member", "moderator"}
Status == {"active", "removed"}   (* "removed": any that is not active     *)
NoRow == [role |-> "none", status |-> "none", joined |-> FALSE]
Row == [role : Role, status : Status, joined : BOOLEAN]

ASSUME HandlersAssumption ==
  /\ Enrolment \cap Edit = {} /\ Enrolment \cap Creation = {}
  /\ Edit \cap Creation = {} /\ None \notin Handler \cup Number
ASSUME InputsAssumption ==
  /\ Batch \in [Enrolment -> Seq(Person)]
  /\ \A e \in Enrolment : \A i, j \in DOMAIN Batch[e] :   (* _normalize *)
       Batch[e][i] = Batch[e][j] => i = j
  /\ Wish \subseteq [who : Person, role : Role, status : Status]
  /\ Renames \subseteq Enrolment \cup Edit
  /\ Founder \in [Creation -> Person]
  /\ Roster \in [Person -> Row \cup {NoRow}]
  /\ \A p \in Person :   (* join_group and update_member both see to it *)
       Roster[p].status = "active" => Roster[p].joined
ASSUME FounderAssumption ==
  \E p \in Person : Roster[p] \in Row /\ Roster[p].role = "moderator"
                                   /\ Roster[p].status = "active"
ASSUME BoundsAssumption == MaxBusy \in Nat /\ MaxFail \in Nat

VARIABLES
  known,      (* who has a row in members                                  *)
  row,        (* the memberships of the group                              *)
  line,       (* the group of each number, or None: available              *)
  lock,       (* who has inserted or updated each person or membership     *)
  profile,    (* who has inserted or updated the profile of each           *)
  taken,      (* who has each number for update                            *)
  pc,
  seen,       (* the rows of people as an enrolment or an edit read them   *)
  want,       (* what an edit asks for                                     *)
  pool,       (* the numbers a creation has still to try                   *)
  number,     (* the one it is trying, or has taken                        *)
  overtaken,  (* edits at work while another was committed (history)       *)
  raced,      (* one of those has been committed too (history)             *)
  fails

stored == <<known, row, line>>
locks == <<lock, profile>>
locals == <<seen, want, pool, number>>
history == <<overtaken, raced>>
vars == <<stored, locks, taken, pc, locals, history, fails>>

-----------------------------------------------------------------------------
At(h, l) == pc[h] = l
Goto(h, l) == pc' = [pc EXCEPT ![h] = l]
Ended == {"none", "done", "failed", "refused"}
Busy == {h \in Handler : pc[h] \notin Ended}
Start(h) == At(h, "none") /\ Cardinality(Busy) < MaxBusy

Free(p) == lock[p] = None
Take(h, p) == Free(p) /\ lock' = [lock EXCEPT ![p] = h]

ReleaseFaulty(h) == UNCHANGED locks

(* The end of a transaction gives back what it has locked. *)
Release(h) ==
  /\ lock' = [p \in Person |-> IF lock[p] = h THEN None ELSE lock[p]]
  /\ profile' = [p \in Person |-> IF profile[p] = h THEN None ELSE profile[p]]

Moderates(r) == r.role = "moderator" /\ r.status = "active"

Init ==
  /\ row = Roster
  /\ known = {p \in Person : row[p] # NoRow}
  /\ line = [n \in Number |-> None]
  /\ lock = [p \in Person |-> None]
  /\ profile = [p \in Person |-> None]
  /\ taken = [n \in Number |-> None]
  /\ pc = [h \in Handler |-> "none"]
  /\ seen = [h \in Enrolment \cup Edit |-> <<>>]
  /\ want = [x \in Edit |-> None]
  /\ pool = [k \in Creation |-> {}]
  /\ number = [k \in Creation |-> None]
  /\ overtaken = {}
  /\ raced = FALSE
  /\ fails = 0

-----------------------------------------------------------------------------
(* add_members *)

(* seen[e] has one entry for each person of the batch that was looked up.   *)
Current(e) == Batch[e][Len(seen[e])]
People(e) == {Batch[e][i] : i \in DOMAIN Batch[e]}
Read(e, p) == seen[e][CHOOSE i \in DOMAIN Batch[e] : Batch[e][i] = p].row

(* get_or_create_by_phone and join_group look up the next person ... *)
Look(e) ==
  /\ Len(seen[e]) < Len(Batch[e])
  /\ LET p == Batch[e][Len(seen[e]) + 1] IN
     seen' = [seen EXCEPT ![e] = Append(@, [known |-> p \in known, row |-> row[p]])]
  /\ Goto(e, "write")
  /\ UNCHANGED <<stored, locks, taken, want, pool, number, history, fails>>

StartEnrolment(e) == Start(e) /\ Look(e)
LookUp(e) == At(e, "look") /\ Look(e)

Last(e) == seen[e][Len(seen[e])]

(* The row looked for is there now: the insert fails on the unique index.   *)
Appeared(e) ==
  LET p == Current(e) IN
  \/ ~Last(e).known /\ p \in known
  \/ Last(e).row = NoRow /\ row[p] # NoRow

(* What an enrolment that has read r makes of the row that is there: only   *)
(* the columns that differ from r are sent, and a moderator stays one.      *)
EnrolledFaulty(r, now) ==
  IF r = NoRow THEN [role |-> "member", status |-> "active", joined |-> TRUE]
  ELSE [role |-> r.role, status |-> "active", joined |-> TRUE]

Enrolled(r, now) ==
  IF r = NoRow THEN [role |-> "member", status |-> "active", joined |-> TRUE]
  ELSE [role   |-> now.role,
        status |-> IF r.status = "active" THEN now.status ELSE "active",
        joined |-> TRUE]

(* ... and insert or update that person's rows, which waits for whoever has *)
(* them.                                                                    *)
Enrol(e) ==
  /\ At(e, "write") /\ ~Appeared(e)
  /\ Take(e, Current(e))
  /\ Goto(e, IF e \in Renames THEN "profile" ELSE "look")
  /\ UNCHANGED <<stored, profile, taken, locals, history, fails>>

(* Any failure rolls the whole batch back. *)
RollBack(h) ==
  /\ Release(h)
  /\ taken' = [n \in Number |-> IF taken[n] = h THEN None ELSE taken[n]]
  /\ seen' = [i \in DOMAIN seen |-> IF i = h THEN <<>> ELSE seen[i]]
  /\ want' = [x \in Edit |-> IF x = h THEN None ELSE want[x]]
  /\ pool' = [k \in Creation |-> IF k = h THEN {} ELSE pool[k]]
  /\ number' = [k \in Creation |-> IF k = h THEN None ELSE number[k]]
  /\ overtaken' = overtaken \ {h}
  /\ UNCHANGED <<stored, raced>>

EnrolConflict(e) ==
  /\ At(e, "write") /\ Appeared(e) /\ Free(Current(e))
  /\ RollBack(e)
  /\ Goto(e, "failed")
  /\ UNCHANGED fails

CommitBatch(e) ==
  /\ At(e, "look") /\ Len(seen[e]) = Len(Batch[e])
  /\ known' = known \cup People(e)
  /\ row' = [p \in Person |->
       IF p \in People(e) THEN Enrolled(Read(e, p), row[p]) ELSE row[p]]
  /\ Release(e)
  /\ seen' = [seen EXCEPT ![e] = <<>>]
  /\ Goto(e, "done")
  /\ UNCHANGED <<line, taken, want, pool, number, overtaken, raced, fails>>

-----------------------------------------------------------------------------
(* update_member *)

LosesModerator(r, w) ==
  r.role = "moderator" /\ (w.role # "moderator" \/ w.status # "active")

(* The profile is written first, if there is something to write. *)
First(x) == IF x \in Renames THEN "profile" ELSE "write"

(* The membership is loaded, and found to be a moderator who stops or not. *)
Load(x, w) ==
  /\ Start(x) /\ row[w.who] # NoRow
  /\ want' = [want EXCEPT ![x] = w]
  /\ seen' = [seen EXCEPT ![x] = row[w.who]]
  /\ Goto(x, IF LosesModerator(row[w.who], w) THEN "check" ELSE First(x))
  /\ UNCHANGED <<stored, locks, taken, pool, number, history, fails>>

OtherModeratorsFaulty(p) == {q \in Person \ {p} : row[q].role = "moderator"}

(* _other_active_moderators *)
OtherModerators(p) == {q \in Person \ {p} : Moderates(row[q])}

(* Another statement looks whether somebody else moderates. *)
CheckOthers(x) ==
  /\ At(x, "check") /\ OtherModerators(want[x].who) # {}
  /\ Goto(x, First(x))
  /\ UNCHANGED <<stored, locks, taken, locals, history, fails>>

LastModerator(x) ==
  /\ At(x, "check") /\ OtherModerators(want[x].who) = {}
  /\ RollBack(x)
  /\ Goto(x, "refused")
  /\ UNCHANGED fails

EditedFaulty(r, w, now) ==
  [role   |-> IF w.role = r.role THEN now.role ELSE w.role,
   status |-> IF w.status = r.status THEN now.status ELSE w.status,
   joined |-> now.joined]

(* What the edit sends: the columns that are not as loaded. *)
Edited(r, w, now) ==
  [role   |-> IF w.role = r.role THEN now.role ELSE w.role,
   status |-> IF w.status = r.status THEN now.status ELSE w.status,
   joined |-> now.joined \/ w.status = "active"]

(* The membership is sent with the commit, and waited for.  An edit that    *)
(* leaves it as it is would not have to wait.                               *)
CommitEdit(x) ==
  /\ At(x, "write") /\ Free(want[x].who)
  /\ row' = [row EXCEPT ![want[x].who] = Edited(seen[x], want[x], @)]
  /\ raced' = (raced \/ x \in overtaken)
  /\ overtaken' = (overtaken \cup (Busy \cap Edit)) \ {x}
  /\ profile' = [p \in Person |-> IF profile[p] = x THEN None ELSE profile[p]]
  /\ seen' = [seen EXCEPT ![x] = <<>>]
  /\ want' = [want EXCEPT ![x] = None]
  /\ Goto(x, "done")
  /\ UNCHANGED <<known, line, lock, taken, pool, number, fails>>

-----------------------------------------------------------------------------
(* upsert_profile, of both: another name is sent at once. *)
Whose(h) == IF h \in Edit THEN want[h].who ELSE Current(h)
SaveProfile(h) ==
  /\ At(h, "profile") /\ profile[Whose(h)] = None
  /\ profile' = [profile EXCEPT ![Whose(h)] = h]
  /\ Goto(h, IF h \in Edit THEN "write" ELSE "look")
  /\ UNCHANGED <<stored, lock, taken, locals, history, fails>>

-----------------------------------------------------------------------------
(* create_group *)

(* The founder is known, or has to be inserted. *)
FindFounder(k) ==
  /\ Start(k)
  /\ Goto(k, IF Founder[k] \in known THEN "number" ELSE "insert")
  /\ UNCHANGED <<stored, locks, taken, locals, history, fails>>

InsertFounder(k) ==
  /\ At(k, "insert") /\ Founder[k] \notin known
  /\ Take(k, Founder[k])
  /\ Goto(k, "number")
  /\ UNCHANGED <<stored, profile, taken, locals, history, fails>>

FounderConflict(k) ==
  /\ At(k, "insert") /\ Founder[k] \in known
  /\ RollBack(k)
  /\ Goto(k, "failed")
  /\ UNCHANGED fails

Available == {n \in Number : line[n] = None}

(* assign_available_number: the numbers available when the statement        *)
(* starts, in a random order ...                                            *)
ListNumbers(k) ==
  /\ At(k, "number")
  /\ pool' = [pool EXCEPT ![k] = Available]
  /\ Goto(k, "pick")
  /\ UNCHANGED <<stored, locks, taken, seen, want, number, history, fails>>

TryNumberFaulty(k, n) ==
  /\ At(k, "pick") /\ number[k] = None /\ n \in pool[k]
  /\ number' = [number EXCEPT ![k] = IF taken[n] = None THEN n ELSE None]
  /\ pool' = [pool EXCEPT ![k] = @ \ {n}]
  /\ UNCHANGED <<stored, locks, taken, pc, seen, want, history, fails>>

TryNumber(k, n) ==
  /\ At(k, "pick") /\ number[k] = None /\ n \in pool[k]
  /\ number' = [number EXCEPT ![k] = n]
  /\ pool' = [pool EXCEPT ![k] = @ \ {n}]
  /\ UNCHANGED <<stored, locks, taken, pc, seen, want, history, fails>>

StillAvailableFaulty(n) == taken[n] = None

(* ... each waited for if somebody has it, and looked at again. *)
StillAvailable(n) == taken[n] = None /\ n \in Available

TakeNumber(k) ==
  /\ At(k, "pick") /\ number[k] # None /\ StillAvailable(number[k])
  /\ taken' = [taken EXCEPT ![number[k]] = k]
  /\ Goto(k, "commit")
  /\ UNCHANGED <<stored, locks, locals, history, fails>>

PassOver(k) ==
  /\ At(k, "pick") /\ number[k] # None
  /\ taken[number[k]] = None /\ ~StillAvailable(number[k])
  /\ number' = [number EXCEPT ![k] = None]
  /\ UNCHANGED <<stored, locks, taken, pc, seen, want, pool, history, fails>>

NoNumberLeft(k) ==
  /\ At(k, "pick") /\ number[k] = None /\ pool[k] = {}
  /\ RollBack(k)
  /\ Goto(k, "refused")
  /\ UNCHANGED fails

(* Group, founder's membership, and number in one commit. *)
CommitGroup(k) ==
  /\ At(k, "commit")
  /\ line' = [line EXCEPT ![number[k]] = k]
  /\ known' = known \cup {Founder[k]}
  /\ Release(k)
  /\ taken' = [taken EXCEPT ![number[k]] = None]
  /\ number' = [number EXCEPT ![k] = None]
  /\ pool' = [pool EXCEPT ![k] = {}]
  /\ Goto(k, "done")
  /\ UNCHANGED <<row, seen, want, history, fails>>

-----------------------------------------------------------------------------
(* A handler dies or raises: its route, or the database, rolls back. *)
Fail(h) ==
  /\ h \in Busy /\ fails < MaxFail
  /\ RollBack(h)
  /\ Goto(h, "failed")
  /\ fails' = fails + 1

(* Batches and edits that wait for each other: the database aborts one of   *)
(* those in the circle.                                                     *)
WaitsFor(h) ==
  IF At(h, "write") THEN lock[Whose(h)]
  ELSE IF At(h, "profile") THEN profile[Whose(h)] ELSE None
Deadlocked(h) ==
  LET waiting == {f \in Enrolment \cup Edit : WaitsFor(f) # None} IN
  \E S \in SUBSET waiting : h \in S /\ {WaitsFor(f) : f \in S} = S

AbortDeadlocked(h) ==
  /\ Deadlocked(h)
  /\ RollBack(h)
  /\ Goto(h, "failed")
  /\ UNCHANGED fails

AddMembers(e) ==
  \/ LookUp(e) \/ Enrol(e) \/ SaveProfile(e)
  \/ EnrolConflict(e) \/ CommitBatch(e) \/ AbortDeadlocked(e)
UpdateMember(x) ==
  \/ CheckOthers(x) \/ LastModerator(x) \/ SaveProfile(x)
  \/ CommitEdit(x) \/ AbortDeadlocked(x)
CreateGroup(k) ==
  \/ InsertFounder(k) \/ FounderConflict(k) \/ ListNumbers(k)
  \/ \E n \in Number : TryNumber(k, n)
  \/ TakeNumber(k) \/ PassOver(k) \/ NoNumberLeft(k) \/ CommitGroup(k)

Next ==
  \/ \E e \in Enrolment : StartEnrolment(e) \/ AddMembers(e)
  \/ \E x \in Edit :
       \/ \E w \in Wish : Load(x, w)
       \/ UpdateMember(x)
  \/ \E k \in Creation : FindFounder(k) \/ CreateGroup(k)
  \/ \E h \in Handler : Fail(h)

Spec == Init /\ [][Next]_vars

(* A handler that has started runs on; the database ends deadlocks. *)
Fairness ==
  /\ \A e \in Enrolment : WF_vars(AddMembers(e))
  /\ \A x \in Edit : WF_vars(UpdateMember(x))
  /\ \A k \in Creation : WF_vars(CreateGroup(k))
FairSpec == Spec /\ Fairness

-----------------------------------------------------------------------------
(* Properties *)

(* Types, and the places of the handlers; a membership belongs to a known   *)
(* person, and an active one has a time of joining, whoever made it active. *)
TypeOK ==
  /\ known \in SUBSET Person
  /\ row \in [Person -> Row \cup {NoRow}]
  /\ \A p \in Person : row[p] # NoRow => p \in known
  /\ \A p \in Person : row[p].status = "active" => row[p].joined
  /\ line \in [Number -> Creation \cup {None}]
  /\ lock \in [Person -> Handler \cup {None}]
  /\ profile \in [Person -> Enrolment \cup Edit \cup {None}]
  /\ taken \in [Number -> Creation \cup {None}]
  /\ pc \in [Handler -> Ended \cup {"look", "write", "profile", "check",
                                    "insert", "number", "pick", "commit"}]
  /\ \A e \in Enrolment :
       seen[e] \in Seq([known : BOOLEAN, row : Row \cup {NoRow}])
  /\ \A x \in Edit : seen[x] \in Row \cup {<<>>}
  /\ want \in [Edit -> Wish \cup {None}]
  /\ pool \in [Creation -> SUBSET Number]
  /\ number \in [Creation -> Number \cup {None}]
  /\ overtaken \in SUBSET Edit
  /\ raced \in BOOLEAN
  /\ fails \in 0..MaxFail

HasModerator == \E p \in Person : Moderates(row[p])

(* A group that has a moderator keeps one as long as no edit is committed   *)
(* over another one: the rule is sound for edits that follow each other,    *)
(* whatever is enrolled meanwhile.                                          *)
ModeratorsLostOnlyByOverlap == HasModerator \/ raced

(* "A bulk member add must never demote an existing moderator", nor one who *)
(* has been promoted since the batch read the row.                          *)
EnrolmentNeverDemotes ==
  [][\A p \in Person :
       row[p].role = "moderator" /\ row'[p].role # "moderator" =>
         \E x \in Edit : CommitEdit(x)]_vars

(* Every group that was created has one number, and no number two groups:   *)
(* who waited for a number does not take it from whom it was given to.      *)
OneNumberPerGroup ==
  \A k \in Creation :
    Cardinality({n \in Number : line[n] = k}) = IF pc[k] = "done" THEN 1 ELSE 0

(* A creation is told that no number is left only if none is: it waits for  *)
(* those that another creation holds and may still give back.               *)
RefusedOnlyWhenExhausted ==
  [][\A k \in Creation : pc[k] = "pick" /\ pc'[k] = "refused" => Available = {}]_vars

(* Every handler ends, also when batches take the same people in different  *)
(* orders, or an edit has the profile and a batch the membership.           *)
EveryHandlerEnds == \A h \in Handler : <>[](pc[h] \in Ended)

=============================================================================
