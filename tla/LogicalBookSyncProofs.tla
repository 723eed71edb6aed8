----------------------- MODULE LogicalBookSyncProofs -----------------------
(***************************************************************************)
(* For every number of devices, every library and every order of their     *)
(* steps: a change is acknowledged only when the canonical document         *)
(* descends from its merge.                                                *)
(*                                                                         *)
(* The inductive invariant says what a run may rely on at each phase: the  *)
(* operations it will acknowledge and the legacy documents it will retire  *)
(* are among the changes it merges, and from the verification on those     *)
(* changes are in the document.  That survives the writes of other devices *)
(* because a write replaces only the document its merge was made from.     *)
(*                                                                         *)
(* The last section is about the merge itself: what one snapshot and what  *)
(* one change do to the ownership of variants.                             *)
(***************************************************************************)
EXTENDS LogicalBookSync, TLAPS

Fields == {"phase", "ops", "changes", "listed", "base", "seed", "state", "left",
           "attempt", "includes"}

IsRun(r) == r = [f \in Fields |-> r[f]]

Verified == {"check", "replace", "backups", "legacy", "acknowledge"}

RunIsSound(r, merged) ==
    /\ IsRun(r)
    /\ r.ops \subseteq r.changes /\ r.listed \subseteq r.changes
    /\ r.phase \in Verified => r.changes \subseteq merged

IInv ==
    /\ run = [d \in Present |-> run[d]]
    /\ acked \subseteq included
    /\ \A d \in Present : RunIsSound(run[d], included)

\* Included never loses a change while runs stay sound: enough for every step that
\* changes the run of one device.
LEMMA OneRunChanges ==
    ASSUME IInv, NEW d \in Present, NEW r, run' = [run EXCEPT ![d] = r],
           DOMAIN device' = DOMAIN device,
           included \subseteq included', acked' \subseteq included',
           RunIsSound(r, included')
    PROVE  IInv'
<1>1. Present' = Present  BY DEF Present
<1>2. run' = [e \in Present |-> run'[e]]  BY DEF IInv
<1>3. ASSUME NEW e \in Present PROVE RunIsSound(run'[e], included')
  <2>1. CASE e = d  BY <2>1 DEF IInv
  <2>2. CASE e # d
    <3>1. run'[e] = run[e]  BY <2>2 DEF IInv
    <3>2. RunIsSound(run[e], included)  BY DEF IInv
    <3> QED  BY <3>1, <3>2 DEF RunIsSound
  <2> QED  BY SMTT(40), <2>1, <2>2
<1> QED  BY SMTT(40), <1>1, <1>2, <1>3 DEF IInv

\* A step that leaves runs and histories alone.
LEMMA RunsUntouched ==
    ASSUME IInv, DOMAIN device' = DOMAIN device, UNCHANGED <<run, included, acked>>
    PROVE  IInv'
BY DEF IInv, Present

LEMMA IdleIsSound == ASSUME NEW merged PROVE RunIsSound(IdleRun, merged)
BY DEF RunIsSound, IsRun, IdleRun, Fields, Verified

\* Moving to a phase before the verification asks nothing of the document.
LEMMA PhaseIsSound ==
    ASSUME NEW r, NEW merged, NEW more, RunIsSound(r, merged), merged \subseteq more,
           NEW phase, phase \notin Verified \/ r.changes \subseteq more
    PROVE  RunIsSound([r EXCEPT !.phase = phase], more)
BY DEF RunIsSound, IsRun, Fields

LEMMA RetryIsSound ==
    ASSUME NEW r, NEW merged, RunIsSound(r, merged)
    PROVE  RunIsSound([r EXCEPT !.phase = "reread", !.attempt = @ + 1], merged)
BY Zenon DEF RunIsSound, IsRun, Fields, Verified

LEMMA AttemptIsSound ==
    ASSUME NEW r, NEW merged, IsRun(r), r.ops \subseteq r.changes,
           r.listed \subseteq r.changes, NEW base, NEW state, NEW left
    PROVE  RunIsSound([r EXCEPT !.phase = "reconcile", !.base = base, !.state = state,
                                !.left = left, !.includes = included], merged)
BY ZenonT(40) DEF RunIsSound, IsRun, Fields, Verified

-----------------------------------------------------------------------------
LEMMA Initially == Init => IInv
<1> SUFFICES ASSUME Init PROVE IInv
    OBVIOUS
<1>1. PICK first \in Beginnings : LET present == DOMAIN first.libs IN
         /\ device = [d \in present |->
                         [lib |-> first.libs[d], excluded |-> {}, pending |-> {},
                          wanted |-> {}]]
         /\ run = [d \in present |-> IdleRun]
  BY ZenonT(40) DEF Init
<1>2. Present = DOMAIN first.libs /\ run = [d \in Present |-> IdleRun]
  BY SMTT(40), <1>1 DEF Present
<1>3. acked \subseteq included  BY DEF Init
<1> QED  BY SMTT(40), <1>2, <1>3, IdleIsSound DEF IInv

\* The user's steps touch neither runs nor histories.
LEMMA UserKeepsIInv ==
    ASSUME IInv, NEW d \in Present, UserActs(d) \/ FinishesEdit(d)
    PROVE  IInv'
<1>1. DOMAIN device' = DOMAIN device /\ UNCHANGED <<run, included, acked>>
  <2>1. ASSUME NEW v \in Variants, BeginImport(d, v)
        PROVE  DOMAIN device' = DOMAIN device /\ UNCHANGED <<run, included, acked>>
    BY SMTT(40), <2>1 DEF BeginImport, Local
  <2>2. ASSUME NEW b, NEW v, AddFormat(d, b, v)
        PROVE  DOMAIN device' = DOMAIN device /\ UNCHANGED <<run, included, acked>>
    BY SMTT(40), <2>2 DEF AddFormat, Local, Commit
  <2>3. ASSUME NEW b, NEW v, Associate(d, b, v)
        PROVE  DOMAIN device' = DOMAIN device /\ UNCHANGED <<run, included, acked>>
    BY SMTT(40), <2>3 DEF Associate, Local, Commit
  <2>4. ASSUME NEW b, NEW v, BeginDetach(d, b, v)
        PROVE  DOMAIN device' = DOMAIN device /\ UNCHANGED <<run, included, acked>>
    BY SMTT(40), <2>4 DEF BeginDetach, Begin, Local
  <2>5. ASSUME NEW b, NEW v, BeginDelete(d, b, v)
        PROVE  DOMAIN device' = DOMAIN device /\ UNCHANGED <<run, included, acked>>
    BY SMTT(40), <2>5 DEF BeginDelete, Begin, Local
  <2>6. ASSUME NEW b, NEW v, BeginPrefer(d, b, v)
        PROVE  DOMAIN device' = DOMAIN device /\ UNCHANGED <<run, included, acked>>
    BY SMTT(40), <2>6 DEF BeginPrefer, Begin, Local
  <2>7. ASSUME NEW k, BeginReconcile(d, k)
        PROVE  DOMAIN device' = DOMAIN device /\ UNCHANGED <<run, included, acked>>
    BY SMTT(40), <2>7 DEF BeginReconcile, Begin, Local
  <2>8. CASE CommitEdit(d)  BY ZenonT(40), <2>8 DEF CommitEdit, Commit
  <2>9. CASE FinishImport(d)  BY ZenonT(40), <2>9 DEF FinishImport
  <2> QED  BY SMTT(40), <2>1, <2>2, <2>3, <2>4, <2>5, <2>6, <2>7, <2>8, <2>9
           DEF UserActs, FinishesEdit
<1> QED  BY SMTT(40), <1>1, RunsUntouched

LEMMA ConflictKeepsIInv ==
    ASSUME IInv, NEW d \in Present, WriteConflict(d),
           UNCHANGED <<device, included, acked>>
    PROVE  IInv'
<1>1. RunIsSound(run[d], included)  BY DEF IInv
<1>2. CASE run[d].attempt + 1 >= WriteAttempts
  <2>1. run' = [run EXCEPT ![d] = IdleRun]
    BY SMTT(40), <1>2 DEF WriteConflict, Finish, Become
  <2> QED  BY SMTT(40), <2>1, IdleIsSound, OneRunChanges DEF IInv
<1>3. CASE ~(run[d].attempt + 1 >= WriteAttempts)
  <2>1. run' = [run EXCEPT ![d] = [run[d] EXCEPT !.phase = "reread", !.attempt = @ + 1]]
    BY SMTT(40), <1>3 DEF WriteConflict, Become
  <2> QED  BY ZenonT(40), <2>1, <1>1, RetryIsSound, OneRunChanges DEF IInv
<1> QED  BY SMTT(40), <1>2, <1>3

\* The steps of a run, one by one.
LEMMA RunKeepsIInv ==
    ASSUME IInv, NEW d \in Present, Synchronize(d)
    PROVE  IInv'
<1>1. RunIsSound(run[d], included)  BY DEF IInv
<1>2. ASSUME NEW phase, Goto(d, phase), DOMAIN device' = DOMAIN device,
             included \subseteq included', acked' \subseteq included',
             phase \notin Verified \/ run[d].changes \subseteq included'
      PROVE  IInv'
  <2>1. run' = [run EXCEPT ![d] = [run[d] EXCEPT !.phase = phase]]
    BY <1>2 DEF Goto, Become
  <2>2. RunIsSound([run[d] EXCEPT !.phase = phase], included')
    BY SMTT(40), <1>1, <1>2, PhaseIsSound
  <2> QED  BY ZenonT(40), <1>2, <2>1, <2>2, OneRunChanges
<1>3. ASSUME Finish(d), DOMAIN device' = DOMAIN device,
             included' = included, acked' \subseteq included
      PROVE  IInv'
  <2>1. run' = [run EXCEPT ![d] = IdleRun]  BY SMTT(40), <1>3 DEF Finish, Become
  <2> QED  BY ZenonT(40), <1>3, <2>1, IdleIsSound, OneRunChanges
<1>4. ASSUME NEW r, NEW base, Attempt(d, r, base), IsRun(r), r.ops \subseteq r.changes,
             r.listed \subseteq r.changes, UNCHANGED <<device, acked, included>>
      PROVE  IInv'
  <2>1. PICK state, left : run' = [run EXCEPT ![d] =
           [r EXCEPT !.phase = "reconcile", !.base = base, !.state = state,
                     !.left = left, !.includes = included]]
    BY ZenonT(40), <1>4 DEF Attempt, Become
  <2>2. RunIsSound([r EXCEPT !.phase = "reconcile", !.base = base, !.state = state,
                             !.left = left, !.includes = included], included')
    BY ZenonT(40), <1>4, AttemptIsSound
  <2> QED  BY SMTT(40), <1>4, <2>1, <2>2, OneRunChanges DEF IInv
<1>5. CASE Start(d)
  <2> DEFINE ops == {c \in device[d].pending : IsSynchronizedChange(c)}
             seeding == remote.doc = {} /\ remote.legacy = {}
             seed == IF seeding THEN Snapshot(device[d].lib) ELSE EmptyState
             r == [IdleRun EXCEPT !.ops = ops, !.changes = ops \cup remote.legacy,
                                  !.listed = remote.legacy, !.seed = seed]
  <2>1. Attempt(d, r, remote.doc) /\ UNCHANGED <<device, acked, included>>
    BY SMTT(40), <1>5 DEF Start
  <2> HIDE DEF seed, ops
  <2>2. IsRun(r) /\ r.ops \subseteq r.changes /\ r.listed \subseteq r.changes
    BY ZenonT(40) DEF IsRun, IdleRun, Fields
  <2> QED  BY ZenonT(40), <1>4, <2>1, <2>2
<1>6. CASE Reconcile(d)
  <2>1. DOMAIN device' = DOMAIN device /\ UNCHANGED <<acked, included>>
    BY SMTT(40), <1>6 DEF Reconcile
  <2>2. \/ Finish(d)
        \/ \E left : run' = [run EXCEPT ![d] = [run[d] EXCEPT !.left = left]]
    BY ZenonT(40), <1>6 DEF Reconcile, Become
  <2>3. ASSUME NEW left, run' = [run EXCEPT ![d] = [run[d] EXCEPT !.left = left]]
        PROVE  IInv'
    <3>1. RunIsSound([run[d] EXCEPT !.left = left], included)
      BY SMTT(40), <1>1 DEF RunIsSound, IsRun, Fields
    <3> QED  BY SMTT(40), <2>1, <2>3, <3>1, OneRunChanges DEF IInv
  <2> QED  BY SMTT(40), <1>3, <2>1, <2>2, <2>3 DEF IInv
<1>7. CASE Serialize(d)
  <2>1. UNCHANGED <<device, acked, included>>  BY SMTT(40), <1>7 DEF Serialize
  <2>2. Finish(d) \/ Goto(d, "verify") \/ Goto(d, "write")
    BY SMTT(40), <1>7 DEF Serialize
  <2> QED  BY SMTT(40), <1>2, <1>3, <2>1, <2>2 DEF IInv, Verified
<1>8. CASE Write(d)
  <2>1. CASE remote.doc = run[d].base
    <3>1. included' = included \cup run[d].changes /\ UNCHANGED <<device, acked>>
      BY SMTT(40), <1>8, <2>1 DEF Write, Overwrites
    <3>2. Goto(d, "verify")  BY SMTT(40), <1>8, <2>1 DEF Write
    <3> QED  BY ZenonT(40), <1>2, <3>1, <3>2 DEF IInv, Verified
  <2>2. CASE remote.doc # run[d].base
    BY SMTT(40), <1>8, <2>2, ConflictKeepsIInv DEF Write
  <2> QED  BY SMTT(40), <2>1, <2>2
<1>9. CASE Verify(d)
  <2>1. CASE remote.doc = {run[d].state}
    <3>1. /\ Goto(d, "check") /\ included' = included \cup run[d].changes
          /\ UNCHANGED <<device, acked>>
      BY SMTT(40), <1>9, <2>1 DEF Verify
    <3> QED  BY SMTT(40), <1>2, <3>1 DEF IInv
  <2>2. CASE remote.doc # {run[d].state}
    BY SMTT(40), <1>9, <2>2, ConflictKeepsIInv DEF Verify
  <2> QED  BY SMTT(40), <2>1, <2>2
<1>10. CASE Reread(d)
  <2>1. Attempt(d, run[d], remote.doc) /\ UNCHANGED <<device, acked, included>>
    BY SMTT(40), <1>10 DEF Reread
  <2> QED  BY SMTT(40), <1>1, <1>4, <2>1 DEF RunIsSound
<1>11. CASE Check(d)
  <2>1. At(d, "check") /\ UNCHANGED <<device, acked, included>>
    BY SMTT(40), <1>11 DEF Check
  <2>2. Finish(d) \/ Goto(d, "replace")  BY SMTT(40), <1>11 DEF Check
  <2>3. run[d].changes \subseteq included
    BY SMTT(40), <1>1, <2>1 DEF RunIsSound, Verified, At
  <2> QED  BY SMTT(40), <1>2, <1>3, <2>1, <2>2, <2>3 DEF IInv
<1>12. CASE Replace(d)
  <2>1. /\ At(d, "replace") /\ Goto(d, "backups") /\ UNCHANGED <<acked, included>>
        /\ DOMAIN device' = DOMAIN device
    BY SMTT(40), <1>12 DEF Replace
  <2>2. run[d].changes \subseteq included
    BY SMTT(40), <1>1, <2>1 DEF RunIsSound, Verified, At
  <2> QED  BY SMTT(40), <1>2, <2>1, <2>2 DEF IInv
<1>13. CASE DeleteBackups(d)
  <2>1. /\ At(d, "backups") /\ Goto(d, "legacy") /\ UNCHANGED <<acked, included>>
        /\ DOMAIN device' = DOMAIN device
    BY SMTT(40), <1>13 DEF DeleteBackups
  <2>2. run[d].changes \subseteq included
    BY SMTT(40), <1>1, <2>1 DEF RunIsSound, Verified, At
  <2> QED  BY SMTT(40), <1>2, <2>1, <2>2 DEF IInv
<1>14. CASE DeleteLegacy(d)
  <2>1. /\ At(d, "legacy") /\ Goto(d, "acknowledge") /\ UNCHANGED <<device, included>>
        /\ acked' = acked \cup run[d].listed
    BY SMTT(40), <1>14 DEF DeleteLegacy
  <2>2. run[d].changes \subseteq included
    BY SMTT(40), <1>1, <2>1 DEF RunIsSound, Verified, At
  <2>3. acked' \subseteq included  BY SMTT(40), <1>1, <2>1, <2>2 DEF IInv, RunIsSound
  <2> QED  BY SMTT(40), <1>2, <2>1, <2>2, <2>3
<1>15. CASE Acknowledge(d)
  <2>1. /\ At(d, "acknowledge") /\ Finish(d) /\ included' = included
        /\ acked' = acked \cup run[d].ops /\ DOMAIN device' = DOMAIN device
    BY SMTT(40), <1>15 DEF Acknowledge
  <2>2. run[d].changes \subseteq included
    BY SMTT(40), <1>1, <2>1 DEF RunIsSound, Verified, At
  <2>3. acked' \subseteq included  BY SMTT(40), <1>1, <2>1, <2>2 DEF IInv, RunIsSound
  <2> QED  BY SMTT(40), <1>3, <2>1, <2>3
<1> QED
  BY SMTT(40), <1>5, <1>6, <1>7, <1>8, <1>9, <1>10, <1>11, <1>12, <1>13, <1>14, <1>15
  DEF Synchronize

LEMMA FailKeepsIInv ==
    ASSUME IInv, NEW d \in Present, Fail(d)
    PROVE  IInv'
<1>1. run' = [run EXCEPT ![d] = IdleRun] /\ UNCHANGED <<device, included, acked>>
  BY SMTT(40) DEF Fail, Finish, Become
<1> QED  BY SMTT(40), <1>1, IdleIsSound, OneRunChanges DEF IInv

\* A change leaves the journal of a device, and a legacy change document leaves the
\* destination, only after a document that descends from its merge was written and
\* read back: for every number of devices and variants, every retry bound and
\* every interruption (LogicalBookSyncService.run, writeMergedState).
THEOREM AcknowledgedIsMergedAlways == Spec => []AcknowledgedIsMerged
<1>1. Init => IInv  BY SMTT(40), Initially
<1>2. IInv /\ [Next]_vars => IInv'
  <2> SUFFICES ASSUME IInv, [Next]_vars PROVE IInv'
      BY SMTT(40)
  <2>1. CASE UNCHANGED vars  BY SMTT(40), <2>1, RunsUntouched DEF vars
  <2>2. ASSUME NEW d \in Present,
               UserActs(d) \/ FinishesEdit(d) \/ Synchronize(d) \/ Fail(d)
        PROVE  IInv'
    BY SMTT(40), <2>2, UserKeepsIInv, RunKeepsIInv, FailKeepsIInv
  <2> QED  BY SMTT(40), <2>1, <2>2 DEF Next
<1>3. IInv => AcknowledgedIsMerged  BY SMTT(40) DEF IInv, AcknowledgedIsMerged
<1> QED  BY <1>1, <1>2, <1>3, PTL DEF Spec

-----------------------------------------------------------------------------
(* One change merged. *)

\* No two books of a document own a variant.
Exclusive(books) ==
    \A b1, b2 \in DOMAIN books : b1 # b2 => books[b1].variants \cap books[b2].variants = {}

\* A document keeps its fields.
IsDocument(s) ==
    s = [books |-> s.books, removedBooks |-> s.removedBooks, variants |-> s.variants,
         removedVariants |-> s.removedVariants, preferences |-> s.preferences,
         reconciliations |-> s.reconciliations]

\* The removals of a change leave every variant with at most one owner: the books
\* the snapshots are then tried against (applyChange, candidateBooks).
LEMMA RemovalsKeepOneOwner ==
  ASSUME NEW s, NEW c, NEW changes, IsDocument(s), Exclusive(s.books)
  PROVE  IsDocument(WithRemovals(s, c, changes)) /\ Exclusive(WithRemovals(s, c, changes).books)
<1> DEFINE gone == {b \in c.removed :
                   /\ TombstoneClockWins(c.id, Lookup(Clocks(s.books), b),
                                         changes, TRUE, FALSE)
                   /\ ClockWins(c.id, Lookup(s.removedBooks, b), changes)}
           removed == [b \in gone |-> c.id] @@ s.removedBooks
           new == WithRemovals(s, c, changes)
<1>1. new = [s EXCEPT !.books = Without(s.books, gone), !.removedBooks = removed]
  BY SMTT(40) DEF WithRemovals
<1> HIDE DEF gone, removed, new
<1>2. IsDocument(new) /\ new.books = Without(s.books, gone)
  BY Zenon, <1>1 DEF IsDocument
<1>3. Exclusive(Without(s.books, gone))
  BY SMTT(40) DEF Exclusive, Without
<1>4. QED
  BY SMTT(40), <1>2, <1>3 DEF new

\* What the snapshots of a change are folded into.
IsMembership(acc) ==
    /\ acc = [state |-> acc.state, competing |-> acc.competing]
    /\ IsDocument(acc.state)
    /\ Exclusive(acc.state.books)

\* Each snapshot applyChange takes, whatever the change, the snapshots accepted
\* before it and the variants it names, leaves every variant with at most one
\* owner: membershipConflicts is tried against the books accepted so far.
THEOREM SnapshotKeepsOneOwner ==
  ASSUME NEW c, NEW acc, NEW b, IsMembership(acc)
  PROVE  IsMembership(TakeSnapshot(c, acc, b))
<1>1. CASE MembershipConflicts(c, b, acc.state.books)
  BY SMTT(40), <1>1 DEF TakeSnapshot, IsMembership
<1>2. CASE ~MembershipConflicts(c, b, acc.state.books)
  <2> DEFINE books == With(acc.state.books, b, [variants |-> c.books[b], clock |-> c.id])
             removed == Without(acc.state.removedBooks, {b})
             new == TakeSnapshot(c, acc, b)
  <2>1. new = [acc EXCEPT !.state.books = books, !.state.removedBooks = removed]
    BY SMTT(40), <1>2 DEF TakeSnapshot
  <2>2. /\ DOMAIN books = DOMAIN acc.state.books \cup {b}
        /\ books[b].variants = c.books[b]
        /\ \A o \in DOMAIN acc.state.books : o # b => books[o] = acc.state.books[o]
    BY SMTT(40) DEF With
  <2> HIDE DEF books, removed, new
  <2>3. new = [state |-> new.state, competing |-> new.competing]
    BY Zenon, <2>1 DEF IsMembership
  <2>4. IsDocument(new.state) /\ new.state.books = books
    BY Zenon, <2>1 DEF IsDocument, IsMembership
  <2>5. Exclusive(books)
    BY SMTT(40), <1>2, <2>2 DEF Exclusive, MembershipConflicts, IsMembership
  <2>6. QED
    BY SMTT(40), <2>3, <2>4, <2>5 DEF new, IsMembership
<1>3. QED
  BY SMTT(40), <1>1, <1>2

\* A collision opens a reconciliation and leaves the books as they were.
LEMMA CollisionKeepsOneOwner ==
  ASSUME NEW s, NEW c, NEW competing, NEW changes, IsDocument(s)
  PROVE  /\ IsDocument(Collides(s, c, competing, changes))
         /\ Collides(s, c, competing, changes).books = s.books
<1> DEFINE k == Conflict(s, c, competing)
           more == (k.id :> [status |-> "open", clock |-> c.id,
                             accepted |-> k.accepted, rejected |-> k.rejected])
                     @@ s.reconciliations
           new == Collides(s, c, competing, changes)
<1>1. new = s \/ new = [s EXCEPT !.reconciliations = more]
  BY SMTT(40) DEF Collides
<1> HIDE DEF more, new
<1>2. IsDocument(new) /\ new.books = s.books
  BY SMTT(40), <1>1 DEF IsDocument
<1>3. QED
  BY SMTT(40), <1>2 DEF new

\* The preferences, resolutions and exact variants of a change touch no book.
LEMMA EffectsKeepBooks ==
  ASSUME NEW s, NEW c, NEW changes, IsDocument(s)
  PROVE  /\ IsDocument(WithPreferences(s, c, changes))
         /\ WithPreferences(s, c, changes).books = s.books
         /\ IsDocument(WithResolutions(s, c, changes))
         /\ WithResolutions(s, c, changes).books = s.books
         /\ IsDocument(WithVariants(s, c, changes))
         /\ WithVariants(s, c, changes).books = s.books
<1>1. \E p : WithPreferences(s, c, changes) = [s EXCEPT !.preferences = p]
  BY ZenonT(30) DEF WithPreferences
<1>2. \E r : WithResolutions(s, c, changes) = [s EXCEPT !.reconciliations = r]
  BY Zenon DEF WithResolutions
<1>3. \E v, r : WithVariants(s, c, changes) = [s EXCEPT !.variants = v, !.removedVariants = r]
  BY Zenon DEF WithVariants
<1>4. QED
  BY Zenon, <1>1, <1>2, <1>3 DEF IsDocument

\* A whole change gives no variant a second owner, if its snapshots give none: a
\* change that collides takes no snapshot at all, and nothing that follows the
\* snapshots in applyChange touches the books.
LEMMA ChangeKeepsOneOwner ==
  ASSUME NEW s, NEW c, NEW changes, IsDocument(s), Exclusive(s.books),
         IsMembership(WithSnapshots(s, c, changes))
  PROVE  IsDocument(ApplyChange(s, c, changes)) /\ Exclusive(ApplyChange(s, c, changes).books)
<1> DEFINE taken == WithSnapshots(s, c, changes)
           member == IF taken.competing = {} THEN taken.state
                     ELSE Collides(s, c, taken.competing, changes)
           preferred == WithPreferences(member, c, changes)
           resolved == WithResolutions(preferred, c, changes)
<1>1. ApplyChange(s, c, changes) = WithVariants(resolved, c, changes)
  BY SMTT(40) DEF ApplyChange
<1>2. IsDocument(member) /\ Exclusive(member.books)
  BY SMTT(40), CollisionKeepsOneOwner DEF IsMembership
<1> HIDE DEF member
<1>3. IsDocument(preferred) /\ preferred.books = member.books
  BY SMTT(40), <1>2, EffectsKeepBooks
<1> HIDE DEF preferred
<1>4. IsDocument(resolved) /\ resolved.books = member.books
  BY SMTT(40), <1>3, EffectsKeepBooks
<1> HIDE DEF resolved
<1>5. QED
  BY SMTT(40), <1>1, <1>2, <1>4, EffectsKeepBooks

=============================================================================
