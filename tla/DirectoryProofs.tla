-------------------------- MODULE DirectoryProofs --------------------------
(***************************************************************************)
(* What holds of Directory for any number of people, handlers and phone    *)
(* numbers, and any bounds.                                                *)
(***************************************************************************)
EXTENDS Directory, FiniteSetTheorems, TLAPS

-----------------------------------------------------------------------------
(* A number that a creation has taken is still available, and only the      *)
(* creation that took it commits it; a group that is done has the one it    *)
(* committed.                                                               *)
NumbersInv ==
  /\ line \in [Number -> Creation \cup {None}]
  /\ taken \in [Number -> Creation \cup {None}]
  /\ number \in [Creation -> Number \cup {None}]
  /\ DOMAIN pc = Handler
  /\ \A n \in Number : taken[n] # None => line[n] = None
  /\ \A k \in Creation :
       /\ pc[k] = "commit" => number[k] \in Number /\ taken[number[k]] = k
       /\ pc[k] # "commit" => \A n \in Number : taken[n] # k
       /\ \A n \in Number : taken[n] = k => number[k] = n
       /\ pc[k] = "done" => \E n \in Number : line[n] = k
       /\ pc[k] # "done" => \A n \in Number : line[n] # k
       /\ \A n, m \in Number : line[n] = k /\ line[m] = k => n = m

(* Numbers change hands only while they are locked. *)
LEMMA NextNumbersInv ==
  ASSUME NumbersInv, [Next]_vars
  PROVE  NumbersInv'
<1> USE HandlersAssumption DEF NumbersInv, Handler, At, Goto, stored, locks, locals, history, RollBack, Ended, Busy
<1>1. ASSUME NEW e \in Enrolment, StartEnrolment(e) PROVE NumbersInv'
  BY <1>1 DEF StartEnrolment, Look, Start
<1>2. ASSUME NEW e \in Enrolment, LookUp(e) PROVE NumbersInv'
  BY <1>2 DEF LookUp, Look
<1>3. ASSUME NEW e \in Enrolment, Enrol(e) PROVE NumbersInv'
  BY <1>3 DEF Enrol, Take
<1>4. ASSUME NEW e \in Enrolment, EnrolConflict(e) PROVE NumbersInv'
  BY <1>4 DEF EnrolConflict
<1>5. ASSUME NEW e \in Enrolment, CommitBatch(e) PROVE NumbersInv'
  BY <1>5 DEF CommitBatch, Release
<1>6. ASSUME NEW h \in Enrolment \cup Edit, AbortDeadlocked(h) PROVE NumbersInv'
  BY <1>6 DEF AbortDeadlocked
<1>7. ASSUME NEW x \in Edit, NEW w \in Wish, Load(x, w) PROVE NumbersInv'
  BY <1>7 DEF Load, Start
<1>8. ASSUME NEW x \in Edit, CheckOthers(x) PROVE NumbersInv'
  BY <1>8 DEF CheckOthers
<1>9. ASSUME NEW x \in Edit, LastModerator(x) PROVE NumbersInv'
  BY <1>9 DEF LastModerator
<1>10. ASSUME NEW x \in Edit, CommitEdit(x) PROVE NumbersInv'
  BY <1>10 DEF CommitEdit
<1>11. ASSUME NEW k \in Creation, FindFounder(k) PROVE NumbersInv'
  BY <1>11 DEF FindFounder, Start
<1>12. ASSUME NEW k \in Creation, InsertFounder(k) PROVE NumbersInv'
  BY <1>12 DEF InsertFounder, Take
<1>13. ASSUME NEW k \in Creation, FounderConflict(k) PROVE NumbersInv'
  BY <1>13 DEF FounderConflict
<1>14. ASSUME NEW k \in Creation, ListNumbers(k) PROVE NumbersInv'
  BY <1>14 DEF ListNumbers, Available
<1>15. ASSUME NEW k \in Creation, NEW n \in Number, TryNumber(k, n) PROVE NumbersInv'
  BY <1>15 DEF TryNumber
<1>16. ASSUME NEW k \in Creation, TakeNumber(k) PROVE NumbersInv'
  BY <1>16 DEF TakeNumber, StillAvailable, Available
<1>17. ASSUME NEW k \in Creation, PassOver(k) PROVE NumbersInv'
  BY <1>17 DEF PassOver
<1>18. ASSUME NEW k \in Creation, NoNumberLeft(k) PROVE NumbersInv'
  BY <1>18 DEF NoNumberLeft
<1>19. ASSUME NEW k \in Creation, CommitGroup(k) PROVE NumbersInv'
  BY <1>19 DEF CommitGroup, Release
<1>20. ASSUME NEW h \in Handler, Fail(h) PROVE NumbersInv'
  BY <1>20 DEF Fail
<1>21. CASE UNCHANGED vars
  BY <1>21 DEF vars
<1>22. ASSUME NEW h \in Enrolment \cup Edit, SaveProfile(h) PROVE NumbersInv'
  BY <1>22 DEF SaveProfile
<1> QED
  BY <1>1, <1>2, <1>3, <1>4, <1>5, <1>6, <1>7, <1>8, <1>9, <1>10, <1>11,
     <1>12, <1>13, <1>14, <1>15, <1>16, <1>17, <1>18, <1>19, <1>20, <1>21, <1>22
     DEF Next, AddMembers, UpdateMember, CreateGroup

(* Every group has its number, and a number one group. *)
THEOREM GroupsHaveOneNumber == Spec => []OneNumberPerGroup
<1>1. Init => NumbersInv
  BY HandlersAssumption DEF Init, NumbersInv, Handler
<1>2. NumbersInv => OneNumberPerGroup
  <2>1. ASSUME NumbersInv, NEW k \in Creation
        PROVE  Cardinality({n \in Number : line[n] = k}) = IF pc[k] = "done" THEN 1 ELSE 0
    <3>1. CASE pc[k] = "done"
      <4>1. PICK n \in Number : {m \in Number : line[m] = k} = {n}
        BY <2>1, <3>1 DEF NumbersInv
      <4> QED BY <3>1, <4>1, FS_Singleton
    <3>2. CASE pc[k] # "done"
      <4>1. {n \in Number : line[n] = k} = {}
        BY <2>1, <3>2 DEF NumbersInv
      <4> QED BY <3>2, <4>1, FS_EmptySet
    <3> QED BY <3>1, <3>2
  <2> QED BY <2>1 DEF OneNumberPerGroup
<1> QED BY <1>1, <1>2, NextNumbersInv, PTL DEF Spec

-----------------------------------------------------------------------------
Seen == [known : BOOLEAN, row : Row \cup {NoRow}]

(* An enrolment holds whom it has written: who had no membership when it    *)
(* looked has none until it commits.                                        *)
Holds(e, i) ==
  /\ lock[Batch[e][i]] = e
  /\ seen[e][i].row = NoRow => row[Batch[e][i]] = NoRow
Enrolls(e) ==
  /\ seen[e] \in Seq(Seen) /\ Len(seen[e]) <= Len(Batch[e])
  /\ pc[e] = "write" => Len(seen[e]) > 0
  /\ \A i \in DOMAIN Batch[e] : i <= Len(seen[e]) /\ seen[e][i].row \in Row =>
       row[Batch[e][i]] \in Row
  /\ \A i \in DOMAIN Batch[e] :
       i < Len(seen[e]) \/ (i = Len(seen[e]) /\ pc[e] \in {"look", "profile"}) =>
         Holds(e, i)

(* An edit is of a membership that is there, and stays. *)
Edits(x) ==
  pc[x] \in {"check", "profile", "write"} => want[x] \in Wish /\ row[want[x].who] \in Row

BatchInv ==
  /\ row \in [Person -> Row \cup {NoRow}]
  /\ lock \in [Person -> Handler \cup {None}]
  /\ DOMAIN pc = Handler /\ DOMAIN seen = Enrolment \cup Edit /\ DOMAIN want = Edit
  /\ \A x \in Edit : pc[x] \in Ended \cup {"check", "profile", "write"} /\ Edits(x)
  /\ \A e \in Enrolment :
       /\ pc[e] = "none" => seen[e] = <<>>
       /\ pc[e] \in Ended \cup {"look", "profile", "write"}
       /\ pc[e] \in {"look", "profile", "write"} => Enrolls(e)

(* What a commit of e finds. *)
LEMMA CommitHolds ==
  ASSUME BatchInv, NEW e \in Enrolment, CommitBatch(e), NEW p \in People(e)
  PROVE  /\ p \in Person /\ lock[p] = e
         /\ Read(e, p) \in Row \cup {NoRow}
         /\ Read(e, p) = NoRow => row[p] = NoRow
         /\ Read(e, p) # NoRow => row[p] \in Row
<1> DEFINE j == CHOOSE i \in DOMAIN Batch[e] : Batch[e][i] = p
<1>1. j \in DOMAIN Batch[e] /\ Batch[e][j] = p
  BY DEF People
<1>2. Batch[e] \in Seq(Person)
  BY InputsAssumption
<1>3. Enrolls(e) /\ pc[e] = "look" /\ Len(seen[e]) = Len(Batch[e])
  BY DEF CommitBatch, At, BatchInv
<1> HIDE DEF j
<1>4. Holds(e, j)
  BY <1>1, <1>2, <1>3 DEF Enrolls
<1>5. seen[e][j] \in Seen
  BY <1>1, <1>2, <1>3 DEF Enrolls
<1>6. Read(e, p) = seen[e][j].row
  BY DEF Read, j
<1>7. seen[e][j].row \in Row => row[p] \in Row
  BY <1>1, <1>2, <1>3 DEF Enrolls
<1> QED BY <1>1, <1>2, <1>4, <1>5, <1>6, <1>7 DEF Holds, Seen

(* What another handler does leaves an enrolment what it holds. *)
LEMMA EnrollsStable ==
  ASSUME NEW e \in Enrolment, Enrolls(e), pc'[e] = pc[e], seen'[e] = seen[e],
         \A p \in Person : /\ lock[p] = e => lock'[p] = e /\ row'[p] = row[p]
                           /\ row[p] \in Row => row'[p] \in Row
  PROVE  Enrolls(e)'
<1>1. Batch[e] \in Seq(Person)
  BY InputsAssumption
<1>2. ASSUME NEW i \in DOMAIN Batch[e]
      PROVE  /\ Holds(e, i) => Holds(e, i)'
             /\ seen[e][i].row \in Row /\ row[Batch[e][i]] \in Row =>
                  seen'[e][i].row \in Row /\ row'[Batch[e][i]] \in Row
  <2>1. Batch[e][i] \in Person /\ seen'[e][i] = seen[e][i]
    BY <1>1
  <2>2. Holds(e, i) => Holds(e, i)'
    <3> SUFFICES ASSUME Holds(e, i) PROVE Holds(e, i)'
      OBVIOUS
    <3>1. lock'[Batch[e][i]] = e /\ row'[Batch[e][i]] = row[Batch[e][i]]
      BY <2>1 DEF Holds
    <3> QED BY <2>1, <3>1 DEF Holds
  <2> QED BY <2>1, <2>2
<1> QED BY <1>2 DEF Enrolls

(* A step of another handler, that keeps to its own rows. *)
Aside(h) ==
  /\ row' \in [Person -> Row \cup {NoRow}]
  /\ lock' \in [Person -> Handler \cup {None}]
  /\ DOMAIN pc' = Handler /\ DOMAIN seen' = Enrolment \cup Edit /\ DOMAIN want' = Edit
  /\ \A p \in Person : row[p] \in Row => row'[p] \in Row
  /\ \A e \in Enrolment \ {h} :
       /\ pc'[e] = pc[e] /\ seen'[e] = seen[e]
       /\ \A p \in Person : lock[p] = e => lock'[p] = e /\ row'[p] = row[p]
  /\ \A x \in Edit \ {h} : pc'[x] = pc[x] /\ want'[x] = want[x]
  /\ h \in Enrolment => pc'[h] \in {"done", "failed"}
  /\ h \in Edit => /\ pc'[h] \in Ended \cup {"check", "profile", "write"}
                   /\ pc'[h] \in {"check", "profile", "write"} =>
                        want'[h] \in Wish /\ row'[want'[h].who] \in Row

(* It keeps what the enrolments hold. *)
LEMMA AsideKeepsBatches ==
  ASSUME BatchInv, NEW h, Aside(h)
  PROVE  BatchInv'
<1>1. ASSUME NEW e \in Enrolment \ {h}, pc'[e] \in {"look", "profile", "write"}
      PROVE  Enrolls(e)'
  BY <1>1, EnrollsStable DEF BatchInv, Aside
<1>2. ASSUME NEW x \in Edit
      PROVE  Edits(x)' /\ pc'[x] \in Ended \cup {"check", "profile", "write"}
  BY InputsAssumption DEF BatchInv, Aside, Edits
<1> QED BY <1>1, <1>2 DEF BatchInv, Aside, Ended

(* A handler that gives up frees its own rows, and no others. *)
LEMMA RollBackIsAside ==
  ASSUME BatchInv, NEW h \in Handler, RollBack(h),
         \E l \in Ended \ {"none"} : (h \in Enrolment => l = "failed") /\ Goto(h, l)
  PROVE  Aside(h)
BY HandlersAssumption
   DEF BatchInv, Aside, RollBack, Release, Goto, stored, Ended, Handler

(* The edits and the creations touch only rows that nobody holds. *)
LEMMA OthersAreAside ==
  ASSUME BatchInv, NEW h \in Edit \cup Creation,
         \/ \E w \in Wish : h \in Edit /\ Load(h, w)
         \/ h \in Edit /\ UpdateMember(h) /\ ~SaveProfile(h)
         \/ h \in Creation /\ (FindFounder(h) \/ CreateGroup(h))
  PROVE  Aside(h)
<1> USE HandlersAssumption
    DEF BatchInv, Aside, Handler, At, Goto, stored, locks, locals, history, Start
<1>1. ASSUME \/ LastModerator(h) \/ FounderConflict(h) \/ NoNumberLeft(h)
             \/ AbortDeadlocked(h)
      PROVE  Aside(h)
  <2>1. RollBack(h) /\ (Goto(h, "failed") \/ Goto(h, "refused"))
    BY <1>1 DEF LastModerator, FounderConflict, NoNumberLeft, AbortDeadlocked
  <2>2. {"failed", "refused"} \subseteq Ended \ {"none"}
    BY DEF Ended
  <2> QED BY <2>1, <2>2, RollBackIsAside
<1>2. ASSUME NEW w \in Wish, h \in Edit, Load(h, w) PROVE Aside(h)
  BY <1>2, InputsAssumption DEF Load, First
<1>3. ASSUME h \in Edit, CheckOthers(h) PROVE Aside(h)
  BY <1>3 DEF CheckOthers, Edits, First
<1>4. ASSUME h \in Edit, CommitEdit(h) PROVE Aside(h)
  <2>1. ASSUME NEW e \in Enrolment, NEW p \in Person, lock[p] = e
        PROVE  lock'[p] = e /\ row'[p] = row[p]
    BY <1>4, <2>1 DEF CommitEdit, Free
  <2>2. want[h] \in Wish /\ want[h].who \in Person /\ row[want[h].who] \in Row
    BY <1>4, InputsAssumption DEF CommitEdit, Edits
  <2>3. Edited(seen[h], want[h], row[want[h].who]) \in Row
    <3>1. want[h].role \in Role /\ want[h].status \in Status
      BY <2>2, InputsAssumption
    <3> QED BY <2>2, <3>1 DEF Edited, Row
  <2>4. /\ row' \in [Person -> Row \cup {NoRow}]
        /\ \A p \in Person : row[p] \in Row => row'[p] \in Row
    BY <1>4, <2>2, <2>3 DEF CommitEdit
  <2> QED BY <1>4, <2>1, <2>4 DEF CommitEdit, Ended
<1>5. ASSUME h \in Creation, FindFounder(h) PROVE Aside(h)
  BY <1>5 DEF FindFounder
<1>6. ASSUME h \in Creation, InsertFounder(h) PROVE Aside(h)
  BY <1>6 DEF InsertFounder, Take, Free
<1>7. ASSUME h \in Creation,
             \/ ListNumbers(h) \/ TakeNumber(h) \/ PassOver(h)
             \/ \E n \in Number : TryNumber(h, n)
      PROVE  Aside(h)
  BY <1>7 DEF ListNumbers, TakeNumber, PassOver, TryNumber
<1>8. ASSUME h \in Creation, CommitGroup(h) PROVE Aside(h)
  BY <1>8 DEF CommitGroup, Release
<1> QED BY <1>1, <1>2, <1>3, <1>4, <1>5, <1>6, <1>7, <1>8 DEF UpdateMember, CreateGroup

(* The commit of a batch is aside, too: it changes the rows it holds. *)
LEMMA CommitIsAside ==
  ASSUME BatchInv, NEW e \in Enrolment, CommitBatch(e)
  PROVE  Aside(e)
<1> USE HandlersAssumption
<1>1. ASSUME NEW p \in Person
      PROVE  /\ row'[p] \in Row \cup {NoRow} /\ (row[p] \in Row => row'[p] \in Row)
             /\ p \notin People(e) => row'[p] = row[p]
             /\ p \in People(e) => lock[p] = e
  <2>1. CASE p \notin People(e)
    BY <2>1 DEF CommitBatch, BatchInv
  <2>2. CASE p \in People(e)
    <3>1. row'[p] = Enrolled(Read(e, p), row[p]) /\ row[p] \in Row \cup {NoRow}
      BY <2>2 DEF CommitBatch, BatchInv
    <3>2. /\ lock[p] = e /\ Read(e, p) \in Row \cup {NoRow}
          /\ Read(e, p) # NoRow => row[p] \in Row
      BY <2>2, CommitHolds
    <3>3. ASSUME NEW r \in Row \cup {NoRow}, NEW now \in Row \cup {NoRow},
                 r # NoRow => now \in Row
          PROVE  Enrolled(r, now) \in Row
      BY <3>3 DEF Enrolled, Row, NoRow, Role, Status
    <3> QED BY <2>2, <3>1, <3>2, <3>3
  <2> QED BY <2>1, <2>2
<1>2. ASSUME NEW f \in Enrolment \ {e}, NEW p \in Person, lock[p] = f
      PROVE  lock'[p] = f /\ row'[p] = row[p]
  BY <1>1, <1>2 DEF CommitBatch, Release
<1>3. row' \in [Person -> Row \cup {NoRow}] /\ lock' \in [Person -> Handler \cup {None}]
  BY <1>1 DEF CommitBatch, Release, BatchInv
<1> QED BY <1>1, <1>2, <1>3 DEF CommitBatch, Aside, BatchInv, Goto, Handler, Ended

(* The next person is looked up. *)
LEMMA LookKeepsBatches ==
  ASSUME BatchInv, NEW e \in Enrolment, Look(e), pc[e] \in {"none", "look"}
  PROVE  BatchInv'
<1> USE HandlersAssumption
<1>1. Batch[e] \in Seq(Person)
  BY InputsAssumption
<1>2. seen[e] \in Seq(Seen) /\ Len(seen[e]) < Len(Batch[e])
  <2>1. CASE pc[e] = "none"
    <3>1. seen[e] = <<>>
      BY <2>1 DEF BatchInv
    <3> QED BY <3>1 DEF Look
  <2>2. CASE pc[e] = "look"
    BY <2>2 DEF BatchInv, Enrolls, Look
  <2> QED BY <2>1, <2>2
<1>3. UNCHANGED <<row, lock, want>> /\ pc' = [pc EXCEPT ![e] = "write"]
  BY DEF Look, stored, locks, Goto
<1> DEFINE p == Batch[e][Len(seen[e]) + 1]
           s == [known |-> p \in known, row |-> row[p]]
<1>4. s \in Seen /\ s.row = row[p] /\ seen' = [seen EXCEPT ![e] = Append(@, s)]
  <2>1. p \in Person /\ row[p] \in Row \cup {NoRow}
    BY <1>1, <1>2 DEF BatchInv
  <2> QED BY <2>1 DEF Look, Seen
<1> HIDE DEF s
<1>5. seen'[e] = Append(seen[e], s) /\ pc'[e] = "write"
  BY <1>3, <1>4 DEF BatchInv, Handler
<1>6. Enrolls(e)'
  <2>1. seen'[e] \in Seq(Seen) /\ Len(seen'[e]) = Len(seen[e]) + 1
    BY <1>2, <1>4, <1>5
  <2>2. ASSUME NEW i \in DOMAIN Batch[e], i <= Len(seen[e])
        PROVE  /\ seen'[e][i] = seen[e][i] /\ Holds(e, i)
               /\ seen[e][i].row \in Row => row[Batch[e][i]] \in Row
    <3>1. i \in Nat /\ i > 0
      BY <1>1
    <3>2. seen'[e][i] = seen[e][i]
      BY <1>2, <1>5, <2>2, <3>1
    <3>3. pc[e] = "look"
      BY <1>2, <2>2, <3>1 DEF BatchInv
    <3> QED BY <1>2, <2>2, <3>1, <3>2, <3>3 DEF BatchInv, Enrolls
  <2>3. seen'[e][Len(seen[e]) + 1] = s
    BY <1>2, <1>5
  <2>4. ASSUME NEW i \in DOMAIN Batch[e], i <= Len(seen'[e]), seen'[e][i].row \in Row
        PROVE  row'[Batch[e][i]] \in Row
    <3>1. i \in Nat /\ (i <= Len(seen[e]) \/ i = Len(seen[e]) + 1)
      BY <1>1, <1>2, <2>1, <2>4
    <3> QED BY <1>3, <1>4, <2>2, <2>3, <2>4, <3>1
  <2>5. ASSUME NEW i \in DOMAIN Batch[e], i < Len(seen'[e])
        PROVE  Holds(e, i)'
    <3>1. i <= Len(seen[e])
      BY <1>1, <1>2, <2>1, <2>5
    <3> QED BY <1>3, <2>2, <3>1 DEF Holds
  <2>6. Len(seen'[e]) <= Len(Batch[e]) /\ Len(seen'[e]) > 0
    BY <1>1, <1>2, <2>1
  <2> QED BY <1>5, <2>1, <2>4, <2>5, <2>6 DEF Enrolls
<1>7. ASSUME NEW f \in Enrolment \ {e}
      PROVE  pc'[f] = pc[f] /\ seen'[f] = seen[f] /\ (Enrolls(f) => Enrolls(f)')
  BY <1>3, <1>4, EnrollsStable
<1>8. ASSUME NEW x \in Edit PROVE Edits(x)' /\ pc'[x] = pc[x]
  BY <1>3 DEF BatchInv, Edits
<1> QED BY <1>3, <1>4, <1>5, <1>6, <1>7, <1>8 DEF BatchInv

(* The person looked up is written, and held from then on. *)
LEMMA EnrolKeepsBatches ==
  ASSUME BatchInv, NEW e \in Enrolment, Enrol(e)
  PROVE  BatchInv'
<1> USE HandlersAssumption
<1>1. Batch[e] \in Seq(Person)
  BY InputsAssumption
<1>2. Enrolls(e) /\ pc[e] = "write" /\ ~Appeared(e)
  BY DEF BatchInv, Enrol, At
<1>3. /\ UNCHANGED <<row, seen, want>> /\ lock[Current(e)] = None
      /\ lock' = [lock EXCEPT ![Current(e)] = e]
      /\ \E l \in {"look", "profile"} : pc' = [pc EXCEPT ![e] = l]
  BY DEF Enrol, Take, Free, stored, locals, Goto
<1>4. Len(seen[e]) \in DOMAIN Batch[e] /\ Current(e) \in Person
  BY <1>1, <1>2 DEF Enrolls, Current
<1>5. /\ \A p \in Person \ {Current(e)} : lock'[p] = lock[p]
      /\ lock'[Current(e)] = e /\ pc'[e] \in {"look", "profile"}
  BY <1>3, <1>4 DEF BatchInv, Handler
<1>6. seen[e][Len(seen[e])].row = NoRow => row[Current(e)] = NoRow
  BY <1>2 DEF Appeared, Last
<1>7. Enrolls(e)'
  <2>1. ASSUME NEW i \in DOMAIN Batch[e],
               i < Len(seen[e]) \/ i = Len(seen[e])
        PROVE  Holds(e, i)'
    <3>1. CASE i = Len(seen[e])
      BY <1>3, <1>5, <1>6, <3>1 DEF Holds, Current
    <3>2. CASE i < Len(seen[e])
      <4>1. Holds(e, i) /\ Batch[e][i] \in Person
        BY <1>1, <1>2, <3>2 DEF Enrolls
      <4> QED BY <1>3, <1>5, <4>1 DEF Holds
    <3> QED BY <2>1, <3>1, <3>2
  <2> QED BY <1>2, <1>3, <1>5, <2>1 DEF Enrolls
<1>8. ASSUME NEW f \in Enrolment \ {e}
      PROVE  pc'[f] = pc[f] /\ seen'[f] = seen[f] /\ (Enrolls(f) => Enrolls(f)')
  <2>1. ASSUME NEW p \in Person, lock[p] = f
        PROVE  lock'[p] = f /\ row'[p] = row[p]
    BY <1>3, <1>5, <2>1 DEF Handler
  <2>2. pc'[f] = pc[f] /\ seen'[f] = seen[f]
    BY <1>3 DEF BatchInv, Handler
  <2> QED BY <1>3, <2>1, <2>2, EnrollsStable
<1>9. ASSUME NEW x \in Edit PROVE Edits(x)' /\ pc'[x] = pc[x]
  BY <1>3 DEF BatchInv, Edits
<1>10. lock' \in [Person -> Handler \cup {None}]
  BY <1>3, <1>4 DEF BatchInv, Handler
<1> QED BY <1>3, <1>5, <1>7, <1>8, <1>9, <1>10 DEF BatchInv

(* Its profile is another row. *)
LEMMA SaveKeepsBatches ==
  ASSUME BatchInv, NEW h \in Enrolment \cup Edit, SaveProfile(h)
  PROVE  BatchInv'
<1> USE HandlersAssumption
<1>1. /\ UNCHANGED <<row, lock, seen, want>> /\ pc[h] = "profile"
      /\ pc' = [pc EXCEPT ![h] = IF h \in Edit THEN "write" ELSE "look"]
  BY DEF SaveProfile, At, Goto, stored, locals
<1>2. \A g \in Handler : pc'[g] = IF g # h THEN pc[g]
                                  ELSE IF h \in Edit THEN "write" ELSE "look"
  BY <1>1 DEF BatchInv
<1>3. ASSUME NEW e \in Enrolment
      PROVE  /\ pc'[e] = "none" => pc[e] = "none"
             /\ pc'[e] \in Ended \cup {"look", "profile", "write"}
             /\ pc'[e] \in {"look", "profile", "write"} => Enrolls(e)'
  BY <1>1, <1>2 DEF BatchInv, Handler, Enrolls, Holds
<1>4. ASSUME NEW x \in Edit
      PROVE  pc'[x] \in Ended \cup {"check", "profile", "write"} /\ Edits(x)'
  BY <1>1, <1>2 DEF BatchInv, Handler, Edits
<1> QED BY <1>1, <1>3, <1>4 DEF BatchInv

(* What an enrolment has written is its own until it commits. *)
THEOREM BatchInvariant == Spec => []BatchInv
<1>1. Init => BatchInv
  BY HandlersAssumption, InputsAssumption DEF Init, BatchInv, Handler, Ended, Edits
<1>2. BatchInv /\ [Next]_vars => BatchInv'
  <2> SUFFICES ASSUME BatchInv, [Next]_vars PROVE BatchInv'
    OBVIOUS
  <2>1. ASSUME NEW e \in Enrolment, StartEnrolment(e) \/ AddMembers(e) PROVE BatchInv'
    <3>1. CASE StartEnrolment(e) \/ LookUp(e)
      BY <3>1, LookKeepsBatches DEF StartEnrolment, Start, LookUp, At
    <3>2. CASE Enrol(e)
      BY <3>2, EnrolKeepsBatches
    <3>3. CASE CommitBatch(e)
      BY <3>3, CommitIsAside, AsideKeepsBatches
    <3>4. CASE EnrolConflict(e) \/ AbortDeadlocked(e)
      BY <3>4, RollBackIsAside, AsideKeepsBatches
         DEF EnrolConflict, AbortDeadlocked, Ended, Handler
    <3>5. CASE SaveProfile(e)
      BY <3>5, SaveKeepsBatches
    <3> QED BY <2>1, <3>1, <3>2, <3>3, <3>4, <3>5 DEF AddMembers
  <2>2. ASSUME NEW h \in Handler, Fail(h) PROVE BatchInv'
    BY <2>2, RollBackIsAside, AsideKeepsBatches DEF Fail, Ended
  <2>3. ASSUME NEW x \in Edit, (\E w \in Wish : Load(x, w)) \/ UpdateMember(x)
        PROVE  BatchInv'
    <3>1. CASE SaveProfile(x)
      BY <3>1, SaveKeepsBatches
    <3>2. CASE ~SaveProfile(x)
      BY <2>3, <3>2, OthersAreAside, AsideKeepsBatches
    <3> QED BY <3>1, <3>2
  <2>4. ASSUME NEW k \in Creation, FindFounder(k) \/ CreateGroup(k)
        PROVE  BatchInv'
    BY <2>4, OthersAreAside, AsideKeepsBatches
  <2>5. CASE UNCHANGED vars
    BY <2>5 DEF vars, stored, locks, locals, BatchInv, Enrolls, Holds, Edits
  <2> QED BY <2>1, <2>2, <2>3, <2>4, <2>5 DEF Next
<1> QED BY <1>1, <1>2, PTL DEF Spec

(* A batch makes nobody less of a moderator, not even one who has been      *)
(* promoted, or whose membership was made, since it looked.                 *)
LEMMA CommitKeepsRoles ==
  ASSUME BatchInv, NEW e \in Enrolment, CommitBatch(e), NEW p \in Person, row[p] \in Row
  PROVE  row'[p].role = row[p].role /\ row'[p].status \in {row[p].status, "active"}
<1>1. CASE p \notin People(e)
  BY <1>1 DEF CommitBatch
<1>2. CASE p \in People(e)
  <2>1. row'[p] = Enrolled(Read(e, p), row[p])
    BY <1>2 DEF CommitBatch
  <2>2. row[p] # NoRow
    BY DEF Row, NoRow, Role, Status
  <2>3. Read(e, p) # NoRow
    BY <1>2, <2>2, CommitHolds
  <2> QED BY <2>1, <2>3 DEF Enrolled
<1> QED BY <1>1, <1>2

(* Only the enrolments and the edits change a membership. *)
LEMMA RowSteps ==
  ASSUME [Next]_vars
  PROVE  \/ row' = row
         \/ \E e \in Enrolment : CommitBatch(e)
         \/ \E x \in Edit : CommitEdit(x)
BY DEF Next, AddMembers, UpdateMember, CreateGroup, StartEnrolment, LookUp, Look, Enrol, SaveProfile,
       EnrolConflict, AbortDeadlocked, Load, CheckOthers, LastModerator, FindFounder,
       InsertFounder, FounderConflict, ListNumbers, TryNumber, TakeNumber, PassOver,
       NoNumberLeft, CommitGroup, Fail, RollBack, stored, vars

(* The role of a moderator is taken by an edit, never by an enrolment. *)
THEOREM EnrolmentsKeepModerators == Spec => EnrolmentNeverDemotes
<1>1. ASSUME BatchInv, [Next]_vars, NEW p \in Person,
             row[p].role = "moderator", row'[p].role # "moderator"
      PROVE  \E x \in Edit : CommitEdit(x)
  <2>1. row[p] \in Row
    BY <1>1 DEF BatchInv, NoRow
  <2>2. ~\E e \in Enrolment : CommitBatch(e)
    BY <1>1, <2>1, CommitKeepsRoles
  <2> QED BY <1>1, <2>2, RowSteps
<1>2. BatchInv /\ [Next]_vars =>
        [\A p \in Person :
           row[p].role = "moderator" /\ row'[p].role # "moderator" =>
             \E x \in Edit : CommitEdit(x)]_vars
  BY <1>1
<1> QED BY <1>2, BatchInvariant, PTL DEF Spec, EnrolmentNeverDemotes

-----------------------------------------------------------------------------
(* As long as no edit has been committed over another one: an edit that no  *)
(* other has overtaken still finds the role it has loaded, and if it takes  *)
(* a moderator away there is another one.                                   *)
Foresees(x) ==
  x \notin overtaken /\ pc[x] \in {"check", "profile", "write"} =>
    /\ row[want[x].who].role = seen[x].role
    /\ row[want[x].who].status \in {seen[x].status, "active"}
    /\ pc[x] # "check" /\ LosesModerator(seen[x], want[x]) =>
         OtherModerators(want[x].who) # {}
ModeratorsInv == ~raced => HasModerator /\ \A x \in Edit : Foresees(x)

(* A batch is no reason for an edit to look again. *)
LEMMA CommitKeepsModerators ==
  ASSUME BatchInv, ModeratorsInv, NEW e \in Enrolment, CommitBatch(e)
  PROVE  ModeratorsInv'
<1>1. \A p \in Person : row[p] \in Row =>
        row'[p].role = row[p].role /\ row'[p].status \in {row[p].status, "active"}
  BY CommitKeepsRoles
<1>2. \A p \in Person : Moderates(row[p]) => Moderates(row'[p])
  BY <1>1 DEF BatchInv, Moderates, NoRow
<1>3. ASSUME NEW x \in Edit, Foresees(x) PROVE Foresees(x)'
  <2>1. /\ UNCHANGED <<want, overtaken>> /\ pc'[x] = pc[x]
        /\ seen'[x] = seen[x]
    BY HandlersAssumption DEF CommitBatch, BatchInv, Goto, Handler
  <2>2. pc[x] \in {"check", "profile", "write"} =>
          want[x] \in Wish /\ want[x].who \in Person /\ row[want[x].who] \in Row
    BY InputsAssumption DEF BatchInv, Edits
  <2>3. OtherModerators(want[x].who) # {} =>
          {q \in Person \ {want[x].who} : Moderates(row'[q])} # {}
    BY <1>2 DEF OtherModerators
  <2> QED BY <1>1, <1>3, <2>1, <2>2, <2>3
          DEF Foresees, OtherModerators, Moderates, LosesModerator
<1> QED BY <1>2, <1>3 DEF CommitBatch, ModeratorsInv, HasModerator

(* An edit that none has overtaken leaves a moderator, and overtakes all    *)
(* the others.                                                              *)
LEMMA EditKeepsModerators ==
  ASSUME BatchInv, ModeratorsInv, NEW x \in Edit, CommitEdit(x)
  PROVE  ModeratorsInv'
<1> SUFFICES ASSUME ~raced' PROVE HasModerator' /\ \A y \in Edit : Foresees(y)'
  BY DEF ModeratorsInv
<1>1. ~raced /\ x \notin overtaken /\ pc[x] = "write"
  BY DEF CommitEdit, At
<1>2. HasModerator /\ Foresees(x)
  BY <1>1 DEF ModeratorsInv
<1>3. want[x] \in Wish /\ want[x].who \in Person
  BY <1>1, InputsAssumption DEF BatchInv, Edits
<1>4. row' = [row EXCEPT ![want[x].who] = Edited(seen[x], want[x], @)]
  BY DEF CommitEdit
<1>5. HasModerator'
  <2>1. CASE OtherModerators(want[x].who) # {}
    <3>1. PICK q \in Person \ {want[x].who} : Moderates(row[q])
      BY <2>1 DEF OtherModerators
    <3>2. row'[q] = row[q]
      BY <1>4, <3>1 DEF BatchInv
    <3> QED BY <3>1, <3>2 DEF HasModerator, Moderates
  <2>2. CASE OtherModerators(want[x].who) = {}
    <3>1. Moderates(row[want[x].who])
      BY <1>2, <2>2 DEF HasModerator, OtherModerators
    <3>2. seen[x].role = "moderator" /\ ~LosesModerator(seen[x], want[x])
      BY <1>1, <1>2, <2>2, <3>1 DEF Foresees, Moderates
    <3>3. Moderates(Edited(seen[x], want[x], row[want[x].who]))
      BY <3>1, <3>2 DEF Moderates, Edited, LosesModerator
    <3>4. row'[want[x].who] = Edited(seen[x], want[x], row[want[x].who])
      BY <1>3, <1>4 DEF BatchInv
    <3> QED BY <1>3, <3>3, <3>4 DEF HasModerator, Moderates
  <2> QED BY <2>1, <2>2
<1>6. ASSUME NEW y \in Edit PROVE Foresees(y)'
  <2>1. CASE y = x
    BY <2>1 DEF CommitEdit, Goto, BatchInv, Handler, Foresees
  <2>2. CASE y # x
    <3>1. pc'[y] = pc[y] /\ overtaken' = (overtaken \cup (Busy \cap Edit)) \ {x}
      BY <2>2 DEF CommitEdit, Goto, BatchInv, Handler
    <3>2. pc[y] \in {"check", "profile", "write"} => y \in overtaken'
      BY <2>2, <3>1 DEF Busy, Handler, Ended
    <3> QED BY <3>1, <3>2 DEF Foresees
  <2> QED BY <2>1, <2>2
<1> QED BY <1>5, <1>6

(* The other steps: an edit begins with what it has loaded and goes on when *)
(* it has found another moderator; the rest concerns no edit at work.       *)
LEMMA StepsKeepModerators ==
  ASSUME BatchInv, ModeratorsInv, [Next]_vars, row' = row,
         ~\E x \in Edit : CommitEdit(x)
  PROVE  ModeratorsInv'
<1> USE HandlersAssumption DEF Handler, Goto, At, BatchInv
<1>1. ASSUME NEW x \in Edit, NEW w \in Wish, Load(x, w)
      PROVE  /\ raced' = raced /\ Foresees(x)'
             /\ overtaken' = overtaken
             /\ \A y \in Edit \ {x} : pc'[y] = pc[y] /\ seen'[y] = seen[y] /\ want'[y] = want[y]
  BY <1>1 DEF Load, First, history, Foresees, stored
<1>2. ASSUME NEW x \in Edit, CheckOthers(x)
      PROVE  /\ raced' = raced /\ overtaken' = overtaken /\ UNCHANGED <<seen, want>>
             /\ \A y \in Edit \ {x} : pc'[y] = pc[y]
             /\ OtherModerators(want[x].who) # {} /\ pc[x] = "check"
             /\ pc'[x] \in {"profile", "write"}
  BY <1>2 DEF CheckOthers, First, history, locals
<1>3. ASSUME NEW h \in Handler, RollBack(h),
             Goto(h, "failed") \/ Goto(h, "refused")
      PROVE  /\ raced' = raced
             /\ \A y \in Edit \ {h} :
                  /\ pc'[y] = pc[y] /\ seen'[y] = seen[y] /\ want'[y] = want[y]
                  /\ y \in overtaken => y \in overtaken'
             /\ h \in Edit => pc'[h] \in {"failed", "refused"}
  BY <1>3 DEF RollBack
<1>4. ASSUME NEW h \in Enrolment \cup Creation, UNCHANGED <<want, history>>,
             \A y \in Edit : pc'[y] = pc[y] /\ seen'[y] = seen[y]
      PROVE  ModeratorsInv'
  BY <1>4 DEF ModeratorsInv, HasModerator, Foresees, OtherModerators, history
<1> HIDE DEF BatchInv, Handler, Goto, At
<1>5. ASSUME NEW x \in Edit, NEW w \in Wish, Load(x, w) PROVE ModeratorsInv'
  BY <1>1, <1>5 DEF ModeratorsInv, HasModerator, Foresees, OtherModerators
<1>6. ASSUME NEW x \in Edit, CheckOthers(x) PROVE ModeratorsInv'
  BY <1>2, <1>6 DEF ModeratorsInv, HasModerator, Foresees, OtherModerators
<1>7. ASSUME NEW h \in Handler, RollBack(h), Goto(h, "failed") \/ Goto(h, "refused")
      PROVE  ModeratorsInv'
  BY <1>3, <1>7 DEF ModeratorsInv, HasModerator, Foresees, OtherModerators
<1>8. ASSUME NEW e \in Enrolment, StartEnrolment(e) \/ LookUp(e) \/ Enrol(e)
      PROVE  ModeratorsInv'
  <2>1. /\ UNCHANGED <<want, history>>
        /\ \A y \in Edit : pc'[y] = pc[y] /\ seen'[y] = seen[y]
    BY <1>8, HandlersAssumption
       DEF StartEnrolment, LookUp, Look, Enrol, history, locals, Goto, BatchInv, Handler
  <2> QED BY <1>4, <2>1
<1>9. ASSUME NEW k \in Creation,
             \/ FindFounder(k) \/ InsertFounder(k) \/ ListNumbers(k) \/ TakeNumber(k)
             \/ PassOver(k) \/ CommitGroup(k) \/ \E n \in Number : TryNumber(k, n)
      PROVE  ModeratorsInv'
  <2>1. /\ UNCHANGED <<want, history>>
        /\ \A y \in Edit : pc'[y] = pc[y] /\ seen'[y] = seen[y]
    BY <1>9, HandlersAssumption
       DEF FindFounder, InsertFounder, ListNumbers, TakeNumber, PassOver, CommitGroup,
           TryNumber, history, locals, Goto, BatchInv, Handler
  <2> QED BY <1>4, <2>1
<1>10. ASSUME NEW e \in Enrolment, EnrolConflict(e) \/ AbortDeadlocked(e)
       PROVE  ModeratorsInv'
  BY <1>7, <1>10 DEF EnrolConflict, AbortDeadlocked, Handler
<1>11. ASSUME NEW x \in Edit, LastModerator(x) \/ AbortDeadlocked(x)
       PROVE  ModeratorsInv'
  BY <1>7, <1>11 DEF LastModerator, AbortDeadlocked, Handler
<1>12. ASSUME NEW k \in Creation, FounderConflict(k) \/ NoNumberLeft(k)
       PROVE  ModeratorsInv'
  BY <1>7, <1>12 DEF FounderConflict, NoNumberLeft, Handler
<1>13. ASSUME NEW h \in Handler, Fail(h) PROVE ModeratorsInv'
  BY <1>7, <1>13 DEF Fail
<1>14. CASE UNCHANGED vars
  BY <1>14 DEF vars, history, locks, locals, stored, ModeratorsInv, HasModerator, Foresees,
               OtherModerators
<1>15. ASSUME NEW e \in Enrolment, CommitBatch(e) PROVE ModeratorsInv'
  BY <1>15, CommitKeepsModerators
<1>16. ASSUME NEW h \in Enrolment \cup Edit, SaveProfile(h) PROVE ModeratorsInv'
  <2>1. UNCHANGED <<seen, want, overtaken, raced>>
    BY <1>16 DEF SaveProfile, locals, history
  <2>2. ASSUME NEW y \in Edit
        PROVE  /\ pc'[y] \in {"check", "profile", "write"} =>
                    pc[y] \in {"check", "profile", "write"}
               /\ pc'[y] # "check" => pc[y] # "check" \/ pc'[y] = pc[y]
    BY <1>16, HandlersAssumption DEF SaveProfile, At, Goto, BatchInv, Handler
  <2> QED BY <2>1, <2>2 DEF ModeratorsInv, HasModerator, Foresees, OtherModerators
<1> QED BY <1>5, <1>6, <1>8, <1>9, <1>10, <1>11, <1>12, <1>13, <1>14, <1>15, <1>16
        DEF Next, AddMembers, UpdateMember, CreateGroup

(* A group loses its last moderator only to edits that overlap. *)
THEOREM ModeratorsStay == Spec => []ModeratorsLostOnlyByOverlap
<1>1. ASSUME Init PROVE ModeratorsInv
  <2>1. HasModerator
    BY <1>1, FounderAssumption DEF Init, HasModerator, Moderates
  <2>2. ASSUME NEW x \in Edit PROVE Foresees(x)
    <3>1. pc[x] = "none"
      BY <1>1 DEF Init, Handler
    <3> QED BY <3>1 DEF Foresees
  <2> QED BY <2>1, <2>2 DEF ModeratorsInv
<1>2. BatchInv /\ ModeratorsInv /\ [Next]_vars => ModeratorsInv'
  BY RowSteps, CommitKeepsModerators, EditKeepsModerators, StepsKeepModerators
<1>3. ModeratorsInv => ModeratorsLostOnlyByOverlap
  BY DEF ModeratorsInv, ModeratorsLostOnlyByOverlap
<1> QED BY <1>1, <1>2, <1>3, BatchInvariant, PTL DEF Spec

-----------------------------------------------------------------------------
(* A creation that looks for a number still has every available one before  *)
(* it: numbers are given away, and none comes back.                         *)
SearchInv ==
  /\ DOMAIN pc = Handler
  /\ pool \in [Creation -> SUBSET Number] /\ number \in [Creation -> Number \cup {None}]
  /\ \A k \in Creation : pc[k] = "pick" =>
       \A n \in Available : n \in pool[k] \/ n = number[k]

(* A number is passed over only when it has been given away.                *)
LEMMA NextSearchInv ==
  ASSUME NumbersInv, SearchInv, [Next]_vars
  PROVE  SearchInv'
<1> USE HandlersAssumption DEF SearchInv, Handler, At, Goto, stored, locks, locals, history, RollBack,
       Ended, Busy, Available
<1>1. ASSUME NEW e \in Enrolment, StartEnrolment(e) PROVE SearchInv'
  BY <1>1 DEF StartEnrolment, Look, Start
<1>2. ASSUME NEW e \in Enrolment, LookUp(e) PROVE SearchInv'
  BY <1>2 DEF LookUp, Look
<1>3. ASSUME NEW e \in Enrolment, Enrol(e) PROVE SearchInv'
  BY <1>3 DEF Enrol, Take
<1>4. ASSUME NEW e \in Enrolment, EnrolConflict(e) PROVE SearchInv'
  BY <1>4 DEF EnrolConflict
<1>5. ASSUME NEW e \in Enrolment, CommitBatch(e) PROVE SearchInv'
  BY <1>5 DEF CommitBatch, Release
<1>6. ASSUME NEW h \in Enrolment \cup Edit, AbortDeadlocked(h) PROVE SearchInv'
  BY <1>6 DEF AbortDeadlocked
<1>7. ASSUME NEW x \in Edit, NEW w \in Wish, Load(x, w) PROVE SearchInv'
  BY <1>7 DEF Load, Start
<1>8. ASSUME NEW x \in Edit, CheckOthers(x) PROVE SearchInv'
  BY <1>8 DEF CheckOthers
<1>9. ASSUME NEW x \in Edit, LastModerator(x) PROVE SearchInv'
  BY <1>9 DEF LastModerator
<1>10. ASSUME NEW x \in Edit, CommitEdit(x) PROVE SearchInv'
  BY <1>10 DEF CommitEdit
<1>11. ASSUME NEW k \in Creation, FindFounder(k) PROVE SearchInv'
  BY <1>11 DEF FindFounder, Start
<1>12. ASSUME NEW k \in Creation, InsertFounder(k) PROVE SearchInv'
  BY <1>12 DEF InsertFounder, Take
<1>13. ASSUME NEW k \in Creation, FounderConflict(k) PROVE SearchInv'
  BY <1>13 DEF FounderConflict
<1>14. ASSUME NEW k \in Creation, ListNumbers(k) PROVE SearchInv'
  BY <1>14 DEF ListNumbers
<1>15. ASSUME NEW k \in Creation, NEW n \in Number, TryNumber(k, n) PROVE SearchInv'
  BY <1>15 DEF TryNumber
<1>16. ASSUME NEW k \in Creation, TakeNumber(k) PROVE SearchInv'
  BY <1>16 DEF TakeNumber, StillAvailable
<1>17. ASSUME NEW k \in Creation, PassOver(k) PROVE SearchInv'
  BY <1>17 DEF PassOver, StillAvailable
<1>18. ASSUME NEW k \in Creation, NoNumberLeft(k) PROVE SearchInv'
  BY <1>18 DEF NoNumberLeft
<1>19. ASSUME NEW k \in Creation, CommitGroup(k) PROVE SearchInv'
  BY <1>19 DEF CommitGroup, Release, NumbersInv
<1>20. ASSUME NEW h \in Handler, Fail(h) PROVE SearchInv'
  BY <1>20 DEF Fail
<1>21. CASE UNCHANGED vars
  BY <1>21 DEF vars
<1>22. ASSUME NEW h \in Enrolment \cup Edit, SaveProfile(h) PROVE SearchInv'
  BY <1>22 DEF SaveProfile
<1> QED
  BY <1>1, <1>2, <1>3, <1>4, <1>5, <1>6, <1>7, <1>8, <1>9, <1>10, <1>11,
     <1>12, <1>13, <1>14, <1>15, <1>16, <1>17, <1>18, <1>19, <1>20, <1>21, <1>22
     DEF Next, AddMembers, UpdateMember, CreateGroup

(* What a creation has before it never runs dry of what is available.       *)
THEOREM SearchInvariant == Spec => [](NumbersInv /\ SearchInv)
<1>1. Init => NumbersInv /\ SearchInv
  BY HandlersAssumption DEF Init, NumbersInv, SearchInv, Handler
<1> QED BY <1>1, NextNumbersInv, NextSearchInv, PTL DEF Spec

(* Only a creation that has nothing left before it is refused.              *)
LEMMA RefusalEffect ==
  ASSUME SearchInv, Next, NEW k \in Creation, pc[k] = "pick", pc'[k] = "refused"
  PROVE  NoNumberLeft(k)
<1> USE HandlersAssumption DEF SearchInv, Handler
<1>1. ASSUME NEW h \in Handler, NEW l, Goto(h, l), l # "refused" \/ h # k PROVE FALSE
  BY <1>1 DEF Goto
<1>2. ASSUME NEW e \in Enrolment, StartEnrolment(e) \/ AddMembers(e)
      PROVE  \E l : Goto(e, l)
  BY <1>2 DEF StartEnrolment, AddMembers, LookUp, Look, Enrol, EnrolConflict, CommitBatch,
              AbortDeadlocked, SaveProfile
<1>3. ASSUME NEW x \in Edit, (\E w \in Wish : Load(x, w)) \/ UpdateMember(x)
      PROVE  \E l : Goto(x, l)
  BY <1>3 DEF UpdateMember, Load, CheckOthers, LastModerator, CommitEdit, AbortDeadlocked,
              SaveProfile
<1>4. ASSUME NEW c \in Creation, FindFounder(c) \/ CreateGroup(c)
      PROVE  \/ \E l \in {"number", "insert", "failed", "pick", "commit", "done"} : Goto(c, l)
             \/ UNCHANGED pc
             \/ NoNumberLeft(c) /\ Goto(c, "refused")
  <2>1. FindFounder(c) => \E l \in {"number", "insert"} : Goto(c, l)
    BY DEF FindFounder
  <2>2. InsertFounder(c) \/ FounderConflict(c) \/ ListNumbers(c) \/ TakeNumber(c)
          \/ CommitGroup(c) =>
        \E l \in {"number", "failed", "pick", "commit", "done"} : Goto(c, l)
    BY DEF InsertFounder, FounderConflict, ListNumbers, TakeNumber, CommitGroup
  <2>3. PassOver(c) \/ (\E n \in Number : TryNumber(c, n)) => UNCHANGED pc
    BY DEF PassOver, TryNumber
  <2>4. NoNumberLeft(c) => Goto(c, "refused")
    BY DEF NoNumberLeft
  <2> QED BY <1>4, <2>1, <2>2, <2>3, <2>4 DEF CreateGroup
<1>5. ASSUME NEW h \in Handler, Fail(h) PROVE Goto(h, "failed")
  BY <1>5 DEF Fail
<1>6. CASE \E e \in Enrolment : StartEnrolment(e) \/ AddMembers(e)
  BY <1>1, <1>2, <1>6
<1>7. CASE \E x \in Edit : (\E w \in Wish : Load(x, w)) \/ UpdateMember(x)
  BY <1>1, <1>3, <1>7
<1>8. CASE \E c \in Creation : FindFounder(c) \/ CreateGroup(c)
  <2>1. PICK c \in Creation : FindFounder(c) \/ CreateGroup(c)
    BY <1>8
  <2>2. ~UNCHANGED pc
    OBVIOUS
  <2> QED BY <1>1, <1>4, <2>1, <2>2
<1>9. CASE \E h \in Handler : Fail(h)
  BY <1>1, <1>5, <1>9
<1> QED BY <1>6, <1>7, <1>8, <1>9 DEF Next

(* "No numbers available" is never said of a pool that has one: not to a    *)
(* creation that waited for a number which came back.                       *)
THEOREM RefusedOnlyWithoutNumbers == Spec => RefusedOnlyWhenExhausted
<1>1. ASSUME SearchInv, [Next]_vars
      PROVE  [\A k \in Creation : pc[k] = "pick" /\ pc'[k] = "refused" => Available = {}]_vars
  <2> SUFFICES ASSUME Next, NEW k \in Creation, pc[k] = "pick", pc'[k] = "refused"
               PROVE  Available = {}
    BY <1>1
  <2>1. number[k] = None /\ pool[k] = {}
    BY <1>1, RefusalEffect DEF NoNumberLeft
  <2> QED BY <1>1, <2>1, HandlersAssumption DEF SearchInv, Available
<1> QED BY <1>1, SearchInvariant, PTL DEF Spec, RefusedOnlyWhenExhausted
-----------------------------------------------------------------------------
(* The places of the handlers, and what they carry from one step to the     *)
(* next.                                                                    *)
Place ==
  Ended \cup {"look", "write", "profile", "check", "insert", "number", "pick", "commit"}
LocalsInv ==
  /\ pc \in [Handler -> Place]
  /\ DOMAIN seen = Enrolment \cup Edit
  /\ \A e \in Enrolment : seen[e] \in Seq(Seen)
  /\ \A x \in Edit : seen[x] \in Row \cup {<<>>}
  /\ want \in [Edit -> Wish \cup {None}]
  /\ overtaken \in SUBSET Edit
  /\ raced \in BOOLEAN
  /\ fails \in 0..MaxFail

(* A handler that gives up carries nothing on. *)
LEMMA RollBackKeepsLocals ==
  ASSUME LocalsInv, NEW h \in Handler, RollBack(h),
         Goto(h, "failed") \/ Goto(h, "refused"), fails' \in 0..MaxFail
  PROVE  LocalsInv'
<1>1. pc' \in [Handler -> Place]
  BY DEF LocalsInv, Goto, Place, Ended
<1>2. <<>> \in Seq(Seen)
  OBVIOUS
<1>3. /\ DOMAIN seen' = Enrolment \cup Edit
      /\ \A e \in Enrolment : seen'[e] \in Seq(Seen)
      /\ \A x \in Edit : seen'[x] \in Row \cup {<<>>}
  BY <1>2 DEF LocalsInv, RollBack
<1>4. want' \in [Edit -> Wish \cup {None}]
  BY DEF LocalsInv, RollBack
<1> QED BY <1>1, <1>3, <1>4 DEF LocalsInv, RollBack

(* What is looked up is a row, or that there is none. *)
LEMMA LookKeepsLocals ==
  ASSUME BatchInv, LocalsInv, NEW e \in Enrolment, Look(e)
  PROVE  LocalsInv'
<1>1. Batch[e] \in Seq(Person) /\ seen[e] \in Seq(Seen) /\ Len(seen[e]) < Len(Batch[e])
  BY InputsAssumption DEF LocalsInv, Look
<1> DEFINE p == Batch[e][Len(seen[e]) + 1]
           s == [known |-> p \in known, row |-> row[p]]
<1>2. p \in Person /\ row[p] \in Row \cup {NoRow}
  BY <1>1 DEF BatchInv
<1>3. s \in Seen
  BY <1>2 DEF Seen
<1>4. seen' = [seen EXCEPT ![e] = Append(@, s)]
  BY DEF Look
<1> HIDE DEF s
<1>5. Append(seen[e], s) \in Seq(Seen)
  BY <1>1, <1>3
<1>6. /\ DOMAIN seen' = Enrolment \cup Edit
      /\ \A f \in Enrolment : seen'[f] \in Seq(Seen)
      /\ \A x \in Edit : seen'[x] \in Row \cup {<<>>}
  BY <1>4, <1>5, HandlersAssumption DEF LocalsInv
<1>7. pc' \in [Handler -> Place] /\ UNCHANGED <<want, history, fails>>
  BY DEF LocalsInv, Look, Goto, Place
<1> QED BY <1>6, <1>7 DEF LocalsInv, history

(* Every step leaves each variable a value of its kind. *)
LEMMA NextLocalsInv ==
  ASSUME BatchInv, LocalsInv, [Next]_vars
  PROVE  LocalsInv'
<1> USE HandlersAssumption
<1>1. ASSUME NEW e \in Enrolment, StartEnrolment(e) \/ LookUp(e) PROVE LocalsInv'
  BY <1>1, LookKeepsLocals DEF StartEnrolment, LookUp
<1>2. ASSUME NEW e \in Enrolment, Enrol(e) PROVE LocalsInv'
  BY <1>2 DEF Enrol, LocalsInv, Goto, locks, locals, history, Place, Handler
<1>3. ASSUME NEW e \in Enrolment, CommitBatch(e) PROVE LocalsInv'
  <2>1. <<>> \in Seq(Seen)
    OBVIOUS
  <2>3. pc' \in [Handler -> Place]
    BY <1>3 DEF CommitBatch, LocalsInv, Goto, Place, Ended, Handler
  <2>4. /\ DOMAIN seen' = Enrolment \cup Edit
        /\ \A f \in Enrolment : seen'[f] \in Seq(Seen)
        /\ \A x \in Edit : seen'[x] \in Row \cup {<<>>}
    BY <1>3, <2>1 DEF CommitBatch, LocalsInv
  <2> QED BY <1>3, <2>3, <2>4 DEF CommitBatch, LocalsInv
<1>4. ASSUME NEW x \in Edit, NEW w \in Wish, Load(x, w) PROVE LocalsInv'
  <2>1. w.who \in Person /\ row[w.who] \in Row
    BY <1>4, InputsAssumption DEF BatchInv, Load
  <2>2. /\ DOMAIN seen' = Enrolment \cup Edit
        /\ \A e \in Enrolment : seen'[e] \in Seq(Seen)
        /\ \A y \in Edit : seen'[y] \in Row \cup {<<>>}
    BY <1>4, <2>1 DEF Load, LocalsInv
  <2>3. pc' \in [Handler -> Place] /\ want' \in [Edit -> Wish \cup {None}]
    BY <1>4 DEF Load, First, LocalsInv, Goto, Place, Handler
  <2> QED BY <1>4, <2>2, <2>3 DEF Load, LocalsInv, history
<1>5. ASSUME NEW x \in Edit, CheckOthers(x) PROVE LocalsInv'
  BY <1>5 DEF CheckOthers, First, LocalsInv, Goto, locks, locals, history, Place, Handler
<1>6. ASSUME NEW x \in Edit, CommitEdit(x) PROVE LocalsInv'
  <2>1. <<>> \in Seq(Seen)
    OBVIOUS
  <2>2. /\ DOMAIN seen' = Enrolment \cup Edit
        /\ \A e \in Enrolment : seen'[e] \in Seq(Seen)
        /\ \A y \in Edit : seen'[y] \in Row \cup {<<>>}
    BY <1>6, <2>1 DEF CommitEdit, LocalsInv
  <2>3. pc' \in [Handler -> Place] /\ want' \in [Edit -> Wish \cup {None}]
    BY <1>6 DEF CommitEdit, LocalsInv, Goto, Place, Ended, Handler
  <2>4. overtaken' \in SUBSET Edit /\ raced' \in BOOLEAN
    BY <1>6 DEF CommitEdit, LocalsInv
  <2> QED BY <1>6, <2>2, <2>3, <2>4 DEF CommitEdit, LocalsInv
<1>7. ASSUME NEW k \in Creation,
             \/ FindFounder(k) \/ InsertFounder(k) \/ ListNumbers(k) \/ TakeNumber(k)
             \/ PassOver(k) \/ CommitGroup(k) \/ \E n \in Number : TryNumber(k, n)
      PROVE  LocalsInv'
  <2>1. UNCHANGED <<seen, want, history, fails>>
    BY <1>7 DEF FindFounder, InsertFounder, ListNumbers, TakeNumber, PassOver, CommitGroup,
                TryNumber, locals
  <2>2. pc' \in [Handler -> Place]
    BY <1>7 DEF FindFounder, InsertFounder, ListNumbers, TakeNumber, PassOver, CommitGroup,
                TryNumber, Goto, LocalsInv, Place, Ended, Handler
  <2> QED BY <2>1, <2>2 DEF LocalsInv, history
<1>8. ASSUME NEW e \in Enrolment, EnrolConflict(e) \/ AbortDeadlocked(e) PROVE LocalsInv'
  BY <1>8, RollBackKeepsLocals DEF EnrolConflict, AbortDeadlocked, Handler, LocalsInv
<1>9. ASSUME NEW x \in Edit, LastModerator(x) \/ AbortDeadlocked(x) PROVE LocalsInv'
  BY <1>9, RollBackKeepsLocals DEF LastModerator, AbortDeadlocked, Handler, LocalsInv
<1>10. ASSUME NEW k \in Creation, FounderConflict(k) \/ NoNumberLeft(k) PROVE LocalsInv'
  BY <1>10, RollBackKeepsLocals DEF FounderConflict, NoNumberLeft, Handler, LocalsInv
<1>11. ASSUME NEW h \in Handler, Fail(h) PROVE LocalsInv'
  <2>1. fails' \in 0..MaxFail
    BY <1>11, BoundsAssumption DEF Fail, LocalsInv
  <2> QED BY <1>11, <2>1, RollBackKeepsLocals DEF Fail
<1>12. CASE UNCHANGED vars
  BY <1>12 DEF vars, locals, history, LocalsInv
<1>13. ASSUME NEW h \in Enrolment \cup Edit, SaveProfile(h) PROVE LocalsInv'
  BY <1>13 DEF SaveProfile, LocalsInv, Goto, locals, history, Place, Handler
<1> QED
  BY <1>1, <1>2, <1>3, <1>4, <1>5, <1>6, <1>7, <1>8, <1>9, <1>10, <1>11, <1>12,
     <1>13
     DEF Next, AddMembers, UpdateMember, CreateGroup

(* A membership belongs to somebody known, and whoever is active in it has  *)
(* a time of joining.                                                       *)
MembersInv ==
  /\ known \in SUBSET Person
  /\ \A p \in Person : row[p] # NoRow => p \in known
  /\ \A p \in Person : row[p].status = "active" => row[p].joined

(* People become known, and nobody is forgotten. *)
LEMMA KnownSteps ==
  ASSUME [Next]_vars
  PROVE  \/ known' = known
         \/ \E e \in Enrolment : CommitBatch(e)
         \/ \E k \in Creation : CommitGroup(k) /\ row' = row
BY DEF Next, AddMembers, UpdateMember, CreateGroup, StartEnrolment, LookUp, Look, Enrol, SaveProfile,
       EnrolConflict, AbortDeadlocked, Load, CheckOthers, LastModerator, FindFounder,
       InsertFounder, FounderConflict, ListNumbers, TryNumber, TakeNumber, PassOver,
       NoNumberLeft, CommitGroup, CommitEdit, Fail, RollBack, stored, vars

(* An enrolment makes people known, an edit keeps to memberships there are, *)
(* and both give a time of joining to whom they make active.                *)
LEMMA NextMembersInv ==
  ASSUME BatchInv, MembersInv, [Next]_vars
  PROVE  MembersInv'
<1>1. ASSUME NEW e \in Enrolment, CommitBatch(e) PROVE MembersInv'
  <2>1. Batch[e] \in Seq(Person)
    BY InputsAssumption
  <2>2. People(e) \in SUBSET Person
    BY <2>1 DEF People
  <2>3. ASSUME NEW p \in Person
        PROVE  /\ row'[p] # NoRow => p \in known'
               /\ row'[p].status = "active" => row'[p].joined
    <3>1. CASE p \in People(e)
      <4>1. row'[p] = Enrolled(Read(e, p), row[p])
        BY <1>1, <3>1 DEF CommitBatch
      <4>2. row'[p].joined
        BY <4>1 DEF Enrolled
      <4> QED BY <1>1, <3>1, <4>2 DEF CommitBatch
    <3>2. CASE p \notin People(e)
      BY <1>1, <3>2 DEF CommitBatch, MembersInv
    <3> QED BY <3>1, <3>2
  <2> QED BY <1>1, <2>2, <2>3 DEF CommitBatch, MembersInv
<1>2. ASSUME NEW x \in Edit, CommitEdit(x) PROVE MembersInv'
  <2>1. want[x] \in Wish /\ want[x].who \in Person /\ row[want[x].who] \in Row
    BY <1>2, InputsAssumption DEF CommitEdit, At, BatchInv, Edits
  <2>2. row[want[x].who] # NoRow
    BY <2>1 DEF Row, NoRow, Role
  <2>3. row' = [row EXCEPT ![want[x].who] = Edited(seen[x], want[x], row[want[x].who])]
    BY <1>2 DEF CommitEdit
  <2>4. Edited(seen[x], want[x], row[want[x].who]).status = "active" =>
          Edited(seen[x], want[x], row[want[x].who]).joined
    BY <2>1 DEF Edited, MembersInv
  <2> QED BY <1>2, <2>1, <2>2, <2>3, <2>4 DEF CommitEdit, MembersInv, BatchInv
<1>3. ASSUME NEW k \in Creation, CommitGroup(k), row' = row
      PROVE  MembersInv'
  BY <1>3, InputsAssumption DEF CommitGroup, MembersInv
<1>4. CASE UNCHANGED <<row, known>>
  BY <1>4 DEF MembersInv
<1> QED BY <1>1, <1>2, <1>3, <1>4, RowSteps, KnownSteps

(* A profile is locked by those who write profiles. *)
ProfileInv == profile \in [Person -> Enrolment \cup Edit \cup {None}]
LEMMA NextProfileInv ==
  ASSUME ProfileInv, [Next]_vars
  PROVE  ProfileInv'
<1>1. \/ profile' = profile
      \/ \E h \in Handler : Release(h)
      \/ \E x \in Edit : CommitEdit(x)
      \/ \E h \in Enrolment \cup Edit : SaveProfile(h)
  BY DEF Next, AddMembers, UpdateMember, CreateGroup, StartEnrolment, LookUp, Look, Enrol,
         EnrolConflict, AbortDeadlocked, CommitBatch, Load, CheckOthers, LastModerator,
         FindFounder, InsertFounder, FounderConflict, ListNumbers, TryNumber, TakeNumber,
         PassOver, NoNumberLeft, CommitGroup, Fail, RollBack, locks, vars, Handler
<1> QED BY <1>1 DEF ProfileInv, Release, CommitEdit, SaveProfile

(* Every variable has its type, for any number of everything. *)
THEOREM TypeCorrect == Spec => []TypeOK
<1>1. ASSUME Init PROVE LocalsInv
  <2>1. <<>> \in Seq(Seen)
    OBVIOUS
  <2>2. fails \in 0..MaxFail
    BY <1>1, BoundsAssumption DEF Init
  <2>3. pc \in [Handler -> Place] /\ want \in [Edit -> Wish \cup {None}]
    BY <1>1 DEF Init, Place, Ended
  <2>4. /\ DOMAIN seen = Enrolment \cup Edit
        /\ \A e \in Enrolment : seen[e] \in Seq(Seen)
        /\ \A x \in Edit : seen[x] \in Row \cup {<<>>}
    BY <1>1, <2>1 DEF Init
  <2> QED BY <1>1, <2>2, <2>3, <2>4 DEF Init, LocalsInv
<1>2. ASSUME Init PROVE MembersInv
  BY <1>2, InputsAssumption DEF Init, MembersInv
<1>3. NumbersInv /\ SearchInv /\ BatchInv /\ LocalsInv /\ MembersInv /\ ProfileInv
        => TypeOK
  BY DEF NumbersInv, SearchInv, BatchInv, LocalsInv, MembersInv, ProfileInv, TypeOK, Place,
         Seen
<1>4. Init => ProfileInv
  BY DEF Init, ProfileInv
<1> QED BY <1>1, <1>2, <1>3, <1>4, NextLocalsInv, NextMembersInv, NextProfileInv,
           BatchInvariant, SearchInvariant, PTL DEF Spec
=============================================================================
