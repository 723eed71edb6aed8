--------------------------- MODULE SyncRootProofs ---------------------------
(* What holds of the migration of the previous root for every set of        *)
(* devices, provider and bound.                                             *)
EXTENDS SyncRoot, TLAPS

EntryType == [edits : SUBSET Nat, root : {"current", "previous"}]
RootType == [Entries -> EntryType]
Stages == {"idle", "inventory", "source", "target", "copy", "schema", "logical",
           "upgrade", "work", "state", "cleanup", "removing"}
PassType == [stage : Stages, todo : SUBSET Entries, inventory : RootType,
             source : EntryType, expected : EntryType, attempt : Nat]
WorkerType == [stage : {"idle", "read", "write"}, expected : EntryType]

TypeOK ==
    /\ old \in RootType /\ cur \in RootType
    /\ pass \in [Devices -> PassType]
    /\ worker \in [Devices -> WorkerType]
    /\ edits \in [Devices -> SUBSET Nat]
    /\ ever \in SUBSET Nat
    /\ made \in Nat

-----------------------------------------------------------------------------
(* The inductive invariant.                                                 *)

\* Everything in the current root names the current root.
RootsCurrent == \A e \in Entries : cur[e].root = "current"

\* An edit that the previous root has held is in one of the two roots, and the
\* previous root holds no other.
EditsKept ==
    /\ ever \subseteq old["progress"].edits \cup cur["progress"].edits
    /\ old["progress"].edits \subseteq ever

\* The other documents and the publication are in one of the two roots.
EntriesKept ==
    \A e \in {"bookManifest", "publication", "manifest"} : IsThere(old[e]) \/ IsThere(cur[e])

\* No client writes a publication to the previous root any more.
OldPublication == Entry({0}, "previous")
PublicationFixed == old["publication"] \in {Absent, OldPublication}

\* What the pass found of an entry is in the current root.
Carried(inventory, e, now) ==
    Supported(e) /\ IsThere(inventory[e]) =>
      /\ IsThere(now[e])
      /\ e = "progress" => inventory[e].edits \subseteq now[e].edits

Copying == {"source", "target", "copy"}
Copied == {"schema", "logical", "upgrade", "work", "state", "cleanup", "removing"}

\* What a pass knows of the two roots at each of its stages.
Knows(p, before, now, all) ==
    /\ p.inventory["progress"].edits \subseteq all
    /\ p.stage \in Copying \cup Copied =>
         /\ p.inventory["publication"] \in {Absent, OldPublication}
         /\ IsThere(before["publication"]) => IsThere(p.inventory["publication"])
    /\ p.stage \in Copying => \A e \in Entries \ p.todo : Carried(p.inventory, e, now)
    /\ p.stage \in {"target", "copy"} =>
         /\ p.todo # {} /\ Supported(First(p.todo))
         /\ IsThere(p.source) /\ p.source.root = "current"
         /\ First(p.todo) = "progress" =>
              p.inventory["progress"].edits \subseteq p.source.edits \cup now["progress"].edits
    /\ p.stage \in Copied => \A e \in Entries : Carried(p.inventory, e, now)
    /\ p.stage \in {"cleanup", "removing"} => \A e \in p.todo : IsThere(p.inventory[e])
    /\ p.stage = "cleanup" /\ IsThere(p.inventory["publication"]) => "publication" \in p.todo
    /\ p.stage = "removing" /\ IsThere(before["publication"]) => "publication" \in p.todo

\* What holds of the two roots, whatever the passes are at.
Roots ==
    /\ RootsCurrent /\ EditsKept /\ EntriesKept /\ PublicationFixed
    /\ PublicationKeepsItsManifest

Inv == TypeOK /\ Roots /\ \A d \in Devices : Knows(pass[d], old, cur, ever)

-----------------------------------------------------------------------------
(* The operators.                                                           *)

\* An inventory that is not empty has a first and a last entry; the book
\* manifest is the last only where it is the only one.
LEMMA FirstAndLast ==
  ASSUME NEW S \in SUBSET Entries, S # {}
  PROVE  /\ First(S) \in S /\ Last(S) \in S
         /\ Last(S) = "bookManifest" => S = {"bookManifest"}
<1> USE DEF Entries, Rank
<1>1. \E e \in S : \A f \in S : Rank[e] <= Rank[f]
  <2>1. CASE "bookManifest" \in S
    BY <2>1
  <2>2. CASE "bookManifest" \notin S /\ "publication" \in S
    BY <2>2
  <2>3. CASE "bookManifest" \notin S /\ "publication" \notin S /\ "manifest" \in S
    BY <2>3
  <2>4. CASE S \subseteq {"unsupported", "progress"} /\ "unsupported" \in S
    BY <2>4
  <2>5. CASE S \subseteq {"progress"}
    <3>1. PICK x \in S : TRUE
      BY Zenon
    <3>2. \A f \in S : f = x
      BY <2>5, <3>1
    <3>3. Rank[x] <= Rank[x]
      BY <2>5, <3>1
    <3> QED
      BY <3>1, <3>2, <3>3
  <2> QED
    BY <2>1, <2>2, <2>3, <2>4, <2>5
<1>2. \E e \in S : \A f \in S : Rank[f] <= Rank[e]
  <2>1. CASE "progress" \in S
    BY <2>1
  <2>2. CASE "progress" \notin S /\ "unsupported" \in S
    BY <2>2
  <2>3. CASE "progress" \notin S /\ "unsupported" \notin S /\ "manifest" \in S
    BY <2>3
  <2>4. CASE S \subseteq {"bookManifest", "publication"} /\ "publication" \in S
    BY <2>4
  <2>5. CASE S \subseteq {"bookManifest"}
    <3>1. PICK x \in S : TRUE
      BY Zenon
    <3>2. \A f \in S : f = x
      BY <2>5, <3>1
    <3>3. Rank[x] <= Rank[x]
      BY <2>5, <3>1
    <3> QED
      BY <3>1, <3>2, <3>3
  <2> QED
    BY <2>1, <2>2, <2>3, <2>4, <2>5
<1>3. First(S) \in S
  BY Zenon, <1>1 DEF First
<1>4. Last(S) \in S /\ \A f \in S : Rank[f] <= Rank[Last(S)]
  BY Zenon, <1>2 DEF Last
<1>5. Last(S) = "bookManifest" => S = {"bookManifest"}
  <2> SUFFICES ASSUME Last(S) = "bookManifest" PROVE S = {"bookManifest"}
    OBVIOUS
  <2>1. \A f \in S : f = "bookManifest"
    BY <1>4
  <2> QED
    BY Zenon, <1>4, <2>1
<1> QED
  BY <1>3, <1>4, <1>5

\* The fields of an entry.
LEMMA EntryFields ==
  ASSUME NEW es, NEW root
  PROVE  Entry(es, root).edits = es /\ Entry(es, root).root = root
  BY SMTT(40) DEF Entry

\* The fields of an entry.
LEMMA EntryTyped ==
  ASSUME NEW es \in SUBSET Nat, NEW root \in {"current", "previous"}
  PROVE  /\ Entry(es, root) \in EntryType
         /\ Entry(es, root).edits = es /\ Entry(es, root).root = root
  BY DEF Entry, EntryType

\* The absent entry, and an inventory of absent ones.
LEMMA AbsentTyped ==
  /\ Absent \in EntryType /\ ~IsThere(Absent) /\ Absent.root = "current"
  /\ Absent.edits = {}
  /\ NoInventory \in RootType
  BY DEF Entry, EntryType, Absent, IsThere, NoInventory, RootType

\* The publication of the previous root is there.
LEMMA OldPublicationThere == IsThere(OldPublication) /\ OldPublication # Absent
  BY DEF Entry, Absent, IsThere, OldPublication

\* The fields of a pass.
LEMMA PassTyped ==
  ASSUME NEW stage \in Stages, NEW todo \in SUBSET Entries, NEW inventory \in RootType,
         NEW source \in EntryType, NEW expected \in EntryType, NEW attempt \in Nat
  PROVE  Pass(stage, todo, inventory, source, expected, attempt) \in PassType
  BY DEF Pass, PassType

\* A device at rest.
LEMMA IdleTyped ==
  /\ Idle \in PassType /\ Idle.stage = "idle" /\ Idle.inventory = NoInventory
  /\ Resting \in WorkerType
<1>1. Idle \in PassType
  BY AbsentTyped, PassTyped DEF Idle, Stages
<1> QED
  BY <1>1, AbsentTyped DEF Idle, Pass, Resting, Worker, WorkerType

\* A pass that is over, or has not looked yet, knows nothing.
LEMMA NothingKnown ==
  ASSUME NEW p, p.stage \in {"idle", "inventory"}, p.inventory = NoInventory,
         NEW before, NEW now, NEW all
  PROVE  Knows(p, before, now, all)
  BY AbsentTyped DEF Knows, Copying, Copied, NoInventory, Entries

-----------------------------------------------------------------------------
(* Types.                                                                   *)

\* The pass that goes on with the next entry.
LEMMA FollowingTyped ==
  ASSUME NEW p \in PassType
  PROVE  Following(p) \in PassType
<1>1. p.todo \ {First(p.todo)} \in SUBSET Entries /\ p.inventory \in RootType
  BY DEF PassType
<1> QED
  BY <1>1, AbsentTyped, PassTyped DEF Following, Stages

\* Every step keeps the two roots, the passes and the workers typed.
LEMMA TypeStep == TypeOK /\ [Next]_vars => TypeOK'
<1> SUFFICES ASSUME TypeOK, [Next]_vars PROVE TypeOK'
  OBVIOUS
<1> USE DEF TypeOK
<1>p. \A d \in Devices :
        /\ pass[d] \in PassType /\ pass[d].todo \in SUBSET Entries
        /\ pass[d].inventory \in RootType /\ pass[d].source \in EntryType
        /\ pass[d].attempt \in Nat
  BY DEF PassType
<1>a. Absent \in EntryType /\ NoInventory \in RootType /\ Idle \in PassType
      /\ Resting \in WorkerType
  BY AbsentTyped, IdleTyped
<1>e. \A e \in Entries : old[e] \in EntryType /\ cur[e] \in EntryType
  BY DEF RootType
<1>n. \A x \in EntryType : Normalized(x) \in EntryType
  BY DEF Normalized, Entry, EntryType
<1>c. \A e : \A x \in EntryType : Create(e, x) => cur' \in RootType
  BY Zenon DEF Create, RootType
<1>w. \A e, y : \A x \in EntryType : Written(e, y, x) => cur' \in RootType
  BY Zenon DEF Written, RootType
<1>u. UpgradedManifest \in EntryType
  BY DEF UpgradedManifest, Entry, EntryType, Legacy, Current
<1>1. CASE UNCHANGED vars
  BY <1>1 DEF vars
<1>2. CASE OldClientWrites
  <2>1. made + 1 \in Nat /\ old["progress"].edits \in SUBSET Nat
    BY <1>e DEF EntryType, Entries
  <2>2. Entry(old["progress"].edits \cup {made + 1}, "previous") \in EntryType
    BY <2>1, EntryTyped
  <2> QED
    BY ZenonT(40), <1>2, <2>1, <2>2 DEF OldClientWrites, RootType
<1>3. ASSUME NEW d \in Devices, Start(d) PROVE TypeOK'
  <2>1. Pass("inventory", {}, NoInventory, Absent, Absent, 0) \in PassType
    BY <1>a, PassTyped DEF Stages
  <2> QED
    BY <1>3, <2>1 DEF Start, Goes
<1>4. ASSUME NEW d \in Devices, Inventory(d) PROVE TypeOK'
  <2>1. Pass("source", {e \in Entries : IsThere(old[e])}, old, Absent, Absent, 0) \in PassType
    BY <1>a, PassTyped DEF Stages
  <2> QED
    BY <1>4, <2>1 DEF Inventory, Goes, Remote, Past
<1>5. ASSUME NEW d \in Devices, ReadSource(d) PROVE TypeOK'
  <2> DEFINE p == pass[d]
             e == First(p.todo)
  <2>0. p \in PassType /\ p.todo \in SUBSET Entries /\ p.inventory \in RootType
    BY <1>p
  <2>1. Following(p) \in PassType
    BY <2>0, FollowingTyped
  <2>2. p.todo # {} /\ e \in Entries
    BY <1>5, <2>0, FirstAndLast DEF ReadSource
  <2>3. Pass("target", p.todo, p.inventory, Normalized(old[e]), Absent, 0) \in PassType
    BY <2>0, <2>2, <1>a, <1>e, <1>n, PassTyped DEF Stages
  <2> QED
    BY <1>5, <1>a, <2>1, <2>3 DEF ReadSource, Goes, Ends, Remote, Past
<1>6. ASSUME NEW d \in Devices, ReadTarget(d) PROVE TypeOK'
  <2> DEFINE p == pass[d]
  <2>1. Following(p) \in PassType
    BY SMTT(40), <1>p, FollowingTyped
  <2>2. Pass("copy", p.todo, p.inventory, p.source, Absent, 0) \in PassType
    BY <1>p, <1>a, PassTyped DEF Stages
  <2> QED
    BY <1>6, <1>a, <2>1, <2>2 DEF ReadTarget, Goes, Ends, Remote
<1>7. ASSUME NEW d \in Devices, Copy(d) PROVE TypeOK'
  <2>1. Following(pass[d]) \in PassType
    BY SMTT(40), <1>p, FollowingTyped
  <2>2. cur' \in RootType
    BY SMTT(40), <1>7, <1>p, <1>c DEF Copy
  <2> QED
    BY <1>7, <1>a, <2>1, <2>2 DEF Copy, Goes, Ends, Past
<1>8. ASSUME NEW d \in Devices, Prepared(d) PROVE TypeOK'
  <2>1. Pass("schema", {}, pass[d].inventory, Absent, Absent, 0) \in PassType
    BY SMTT(40), <1>p, <1>a, PassTyped DEF Stages
  <2> QED
    BY SMTT(40), <1>8, <2>1 DEF Prepared, Goes, Remote, Past
<1>9. ASSUME NEW d \in Devices, SchemaRead(d) \/ PrepareLegacyUpgrade(d) PROVE TypeOK'
  <2> DEFINE p == pass[d]
             m == cur["manifest"]
  <2>1. \A stage \in {"work", "logical", "upgrade"} :
          Pass(stage, {}, p.inventory, Absent, m, p.attempt) \in PassType
    BY <1>p, <1>a, <1>e, PassTyped DEF Stages, Entries
  <2> QED
    BY ZenonT(40), <1>9, <1>a, <2>1
    DEF SchemaRead, PrepareLegacyUpgrade, Goes, Ends, Remote, Past
<1>10. ASSUME NEW d \in Devices, SchemaWrite(d) PROVE TypeOK'
  <2> DEFINE p == pass[d]
  <2>1. /\ Pass("work", {}, p.inventory, Absent, Absent, 0) \in PassType
        /\ Pass("schema", {}, p.inventory, Absent, Absent, p.attempt + 1) \in PassType
    BY SMTT(40), <1>p, <1>a, PassTyped DEF Stages
  <2>2. cur' \in RootType
    BY ZenonT(40), <1>10, <1>u, <1>w DEF SchemaWrite
  <2> QED
    BY Zenon, <1>10, <1>a, <2>1, <2>2 DEF SchemaWrite, Goes, Ends, Past
<1>11. ASSUME NEW d \in Devices, Books(d) PROVE TypeOK'
  <2>1. Pass("state", {}, pass[d].inventory, Absent, Absent, 0) \in PassType
    BY <1>p, <1>a, PassTyped DEF Stages
  <2>2. Worker("read", Absent) \in WorkerType
    BY SMTT(40), <1>a DEF Worker, WorkerType
  <2> QED
    BY SMTT(40), <1>11, <2>1, <2>2 DEF Books, Goes, Remote, Past
<1>12. ASSUME NEW d \in Devices, WorkerReads(d) PROVE TypeOK'
  <2>1. Worker("write", cur["progress"]) \in WorkerType
    BY SMTT(40), <1>e DEF Worker, WorkerType, Entries
  <2> QED
    BY <1>12, <1>a, <2>1 DEF WorkerReads, Remote, Past
<1>13. ASSUME NEW d \in Devices, WorkerWrites(d) PROVE TypeOK'
  <2> DEFINE x == Entry(worker[d].expected.edits \cup edits[d], "current")
  <2>1. worker[d].expected.edits \cup edits[d] \in SUBSET Nat
    BY DEF WorkerType, EntryType
  <2>2. x \in EntryType
    BY SMTT(40), <2>1, EntryTyped
  <2>3. Worker("read", Absent) \in WorkerType
    BY <1>a DEF Worker, WorkerType
  <2>4. cur' \in RootType
    BY SMTT(40), <1>13, <1>w, <2>2 DEF WorkerWrites
  <2> QED
    BY <1>13, <1>a, <2>3, <2>4 DEF WorkerWrites, Past
<1>14. ASSUME NEW d \in Devices, Worked(d) PROVE TypeOK'
  <2>1. Pass("cleanup", {e \in Entries : IsThere(pass[d].inventory[e])}, pass[d].inventory,
             Absent, Absent, 0) \in PassType
    BY SMTT(40), <1>p, <1>a, PassTyped DEF Stages
  <2> QED
    BY SMTT(40), <1>14, <2>1 DEF Worked, Goes, Remote, Past
<1>15. ASSUME NEW d \in Devices, CleanupGitHub(d) PROVE TypeOK'
  <2>1. old' \in RootType
    BY SMTT(40), <1>15, <1>a, <1>e DEF CleanupGitHub, RootType
  <2> QED
    BY SMTT(40), <1>15, <1>a, <2>1 DEF CleanupGitHub, Ends, Past
<1>16. ASSUME NEW d \in Devices, CleanupMega(d) PROVE TypeOK'
  <2>1. Pass("removing", pass[d].todo, pass[d].inventory, Absent, Absent, 0) \in PassType
    BY SMTT(40), <1>p, <1>a, PassTyped DEF Stages
  <2> QED
    BY SMTT(40), <1>16, <1>a, <2>1 DEF CleanupMega, Goes, Ends, Remote, Past
<1>17. ASSUME NEW d \in Devices, RemoveFile(d) PROVE TypeOK'
  <2> DEFINE e == NextRemoved(pass[d].todo)
  <2>1. Pass("removing", pass[d].todo \ {e}, pass[d].inventory, Absent, Absent, 0) \in PassType
    BY ZenonT(40), <1>p, <1>a, PassTyped DEF Stages
  <2>2. old' \in RootType
    BY ZenonT(40), <1>17, <1>a DEF RemoveFile, RootType
  <2> QED
    BY ZenonT(40), <1>17, <1>a, <2>1, <2>2 DEF RemoveFile, Goes, Ends, Past
<1>18. ASSUME NEW d \in Devices, Fail(d) PROVE TypeOK'
  BY SMTT(40), <1>18, <1>a DEF Fail, Ends, Remote
<1>19. ASSUME NEW d \in Devices, LoseReply(d) PROVE TypeOK'
  <2>1. old' \in RootType
    BY ZenonT(40), <1>19, <1>a DEF LoseReply, RootType
  <2>2. cur' \in RootType
    BY ZenonT(40), <1>19, <1>p, <1>c, <1>w, <1>u DEF LoseReply
  <2> QED
    BY ZenonT(40), <1>19, <1>a, <2>1, <2>2 DEF LoseReply, Ends
<1>20. ASSUME NEW d \in Devices, Read(d) PROVE TypeOK'
  BY SMTT(40), <1>20 DEF Read, Remote
<1> QED
  BY SMTT(40), <1>1, <1>2, <1>3, <1>4, <1>5, <1>6, <1>7, <1>8, <1>9, <1>10, <1>11, <1>12,
     <1>13, <1>14, <1>15, <1>16, <1>17, <1>18, <1>19, <1>20 DEF Next, Step

-----------------------------------------------------------------------------
(* The two roots.                                                           *)

\* How the roots may change under a pass: entries of the current root stay and
\* its reading state grows, the publication of the previous root does not come
\* back, and no edit is forgotten.
Moves(before, now, all, before2, now2, all2) ==
    /\ \A e \in Entries : IsThere(now[e]) => IsThere(now2[e])
    /\ now["progress"].edits \subseteq now2["progress"].edits
    /\ IsThere(before2["publication"]) => IsThere(before["publication"])
    /\ all \subseteq all2

\* What a pass knows stays true while others move.
LEMMA KnownStaysTrue ==
  ASSUME NEW p, NEW before, NEW now, NEW all, NEW before2, NEW now2, NEW all2,
         Knows(p, before, now, all), Moves(before, now, all, before2, now2, all2)
  PROVE  Knows(p, before2, now2, all2)
<1>1. \A e \in Entries : Carried(p.inventory, e, now) => Carried(p.inventory, e, now2)
  BY SMTT(40) DEF Carried, Moves
<1>2. /\ p.inventory["progress"].edits \subseteq all2
      /\ p.stage \in Copying => \A e \in Entries \ p.todo : Carried(p.inventory, e, now2)
      /\ p.stage \in Copied => \A e \in Entries : Carried(p.inventory, e, now2)
  BY ZenonT(40), <1>1 DEF Knows, Moves
<1>3. /\ p.stage \in Copying \cup Copied =>
           /\ p.inventory["publication"] \in {Absent, OldPublication}
           /\ IsThere(before2["publication"]) => IsThere(p.inventory["publication"])
      /\ p.stage = "removing" /\ IsThere(before2["publication"]) => "publication" \in p.todo
  BY ZenonT(40) DEF Knows, Moves
<1>4. p.stage \in {"target", "copy"} =>
         /\ p.todo # {} /\ Supported(First(p.todo))
         /\ IsThere(p.source) /\ p.source.root = "current"
         /\ First(p.todo) = "progress" =>
              p.inventory["progress"].edits \subseteq p.source.edits \cup now2["progress"].edits
  BY ZenonT(40) DEF Knows, Moves
<1>5. /\ p.stage \in {"cleanup", "removing"} => \A e \in p.todo : IsThere(p.inventory[e])
      /\ p.stage = "cleanup" /\ IsThere(p.inventory["publication"]) => "publication" \in p.todo
  BY ZenonT(40) DEF Knows
<1> QED
  BY ZenonT(40), <1>2, <1>3, <1>4, <1>5 DEF Knows

\* A step of one device, with the others' passes as they are.
LEMMA DeviceStep ==
  ASSUME Inv, TypeOK', Roots', Moves(old, cur, ever, old', cur', ever'),
         NEW d \in Devices, NEW p, pass' = [pass EXCEPT ![d] = p], Knows(p, old', cur', ever')
  PROVE  Inv'
<1>1. \A c \in Devices : c # d => Knows(pass[c], old', cur', ever')
  BY SMTT(40), KnownStaysTrue DEF Inv
<1>2. \A c \in Devices : pass'[c] = IF c = d THEN p ELSE pass[c]
  BY DEF Inv, TypeOK
<1>3. \A c \in Devices : Knows(pass'[c], old', cur', ever')
  BY <1>1, <1>2
<1> QED
  BY SMTT(40), <1>3 DEF Inv

\* A step that leaves the passes as they are.
LEMMA OtherStep ==
  ASSUME Inv, TypeOK', Roots', Moves(old, cur, ever, old', cur', ever'), UNCHANGED pass
  PROVE  Inv'
<1>1. \A c \in Devices : Knows(pass'[c], old', cur', ever')
  BY SMTT(40), KnownStaysTrue DEF Inv
<1> QED
  BY SMTT(40), <1>1 DEF Inv

\* A step that leaves the roots as they are.
LEMMA Still ==
  ASSUME Inv, UNCHANGED <<old, cur, ever>>
  PROVE  Roots' /\ Moves(old, cur, ever, old', cur', ever')
  BY ZenonT(40) DEF Inv, Roots, RootsCurrent, EditsKept, EntriesKept, PublicationFixed,
     PublicationKeepsItsManifest, Moves

\* An entry is added to the current root, or its reading state grows.
LEMMA CurrentGrows ==
  ASSUME Inv, TypeOK', UNCHANGED <<old, ever>>, NEW e \in Entries, NEW x,
         cur' = [cur EXCEPT ![e] = x], IsThere(x), x.root = "current",
         e = "progress" => cur["progress"].edits \subseteq x.edits
  PROVE  Roots' /\ Moves(old, cur, ever, old', cur', ever')
<1>1. \A f \in Entries : cur'[f] = IF f = e THEN x ELSE cur[f]
  BY ZenonT(40) DEF Inv, TypeOK, RootType
<1>2. /\ \A f \in Entries : IsThere(cur[f]) => IsThere(cur'[f])
      /\ cur["progress"].edits \subseteq cur'["progress"].edits
      /\ \A f \in Entries : cur'[f].root = "current"
  BY SMTT(40), <1>1 DEF Entries, Inv, Roots, RootsCurrent
<1>3. Moves(old, cur, ever, old', cur', ever')
  BY SMTT(40), <1>2 DEF Moves
<1>4. RootsCurrent' /\ EditsKept'
  BY SMTT(40), <1>2 DEF Inv, Roots, RootsCurrent, EditsKept
<1>5. EntriesKept'
  BY SMTT(40), <1>2 DEF Inv, Roots, EntriesKept, Entries
<1>6. PublicationFixed' /\ PublicationKeepsItsManifest'
  BY SMTT(40) DEF Inv, Roots, PublicationFixed, PublicationKeepsItsManifest
<1> QED
  BY ZenonT(40), <1>3, <1>4, <1>5, <1>6 DEF Roots

\* Entries that a finished pass found, and that are as it found them, are
\* removed from the previous root: the book manifest only with the publication.
LEMMA PreviousShrinks ==
  ASSUME Inv, TypeOK', UNCHANGED <<cur, ever>>, NEW d \in Devices,
         pass[d].stage \in {"cleanup", "removing"},
         NEW S \in SUBSET pass[d].todo,
         \A e \in Entries : old'[e] = IF e \in S THEN Absent ELSE old[e],
         \A e \in S : old[e] \in {Absent, pass[d].inventory[e]},
         "bookManifest" \in S =>
            "publication" \in S \/ ~IsThere(old["publication"])
  PROVE  Roots' /\ Moves(old, cur, ever, old', cur', ever')
<1> DEFINE p == pass[d]
<1>1. /\ p.todo \in SUBSET Entries
      /\ \A e \in p.todo : IsThere(p.inventory[e])
      /\ \A e \in Entries : Carried(p.inventory, e, cur)
      /\ p.inventory["progress"].edits \subseteq ever
  BY ZenonT(40) DEF Inv, TypeOK, PassType, Knows, Copied
<1>2. \A e \in S : Supported(e) => IsThere(cur[e])
  BY ZenonT(40), <1>1 DEF Carried
<1>3. "progress" \in S => old["progress"].edits \subseteq cur["progress"].edits
  <2> SUFFICES ASSUME "progress" \in S PROVE old["progress"].edits \subseteq cur["progress"].edits
    BY SMTT(40)
  <2>1. p.inventory["progress"].edits \subseteq cur["progress"].edits
    BY ZenonT(40), <1>1 DEF Carried, Supported, Entries
  <2>2. Absent.edits = {}
    BY SMTT(40), AbsentTyped
  <2> QED
    BY SMTT(40), <2>1, <2>2
<1>4. Moves(old, cur, ever, old', cur', ever')
  BY SMTT(40), AbsentTyped DEF Moves, Entries
<1>5. EntriesKept'
  BY ZenonT(40), <1>2 DEF Inv, Roots, EntriesKept, Entries, Supported
<1>6. EditsKept'
  <2>1. CASE "progress" \in S
    BY ZenonT(40), <2>1, <1>3, AbsentTyped DEF Inv, Roots, EditsKept, Entries
  <2>2. CASE "progress" \notin S
    BY ZenonT(40), <2>2 DEF Inv, Roots, EditsKept, Entries
  <2> QED
    BY SMTT(40), <2>1, <2>2
<1>7. PublicationFixed' /\ PublicationKeepsItsManifest'
  BY ZenonT(40), AbsentTyped
  DEF Inv, Roots, PublicationFixed, PublicationKeepsItsManifest, Entries
<1>8. RootsCurrent'
  BY ZenonT(40) DEF Inv, Roots, RootsCurrent
<1> QED
  BY ZenonT(40), <1>4, <1>5, <1>6, <1>7, <1>8 DEF Roots

-----------------------------------------------------------------------------
(* The steps.                                                               *)

\* The initial state: everything is in the previous root and no pass runs.
LEMMA InitInv == Init => Inv
<1> SUFFICES ASSUME Init PROVE Inv
  OBVIOUS
<1>1. PICK schema \in {Legacy, Compatible, Current} : old = PreviousRoot(schema)
  BY DEF Init
<1>2. Legacy .. schema \in SUBSET Nat /\ Legacy .. schema # {}
  BY SMTT(40) DEF Legacy, Compatible, Current
<1>3. /\ old["bookManifest"] = Entry({0}, "previous")
      /\ old["publication"] = Entry({0}, "previous")
      /\ old["manifest"] = Entry(Legacy .. schema, "previous")
      /\ old["unsupported"] = Entry({0}, "previous")
      /\ old["progress"] = Entry({0}, "previous")
      /\ DOMAIN old = Entries /\ old = [e \in Entries |-> old[e]]
  BY SMTT(40), <1>1 DEF PreviousRoot, Entries
<1>4. /\ Entry({0}, "previous") \in EntryType /\ Entry({0}, "previous").edits = {0}
      /\ Entry(Legacy .. schema, "previous") \in EntryType
      /\ Entry(Legacy .. schema, "previous").edits = Legacy .. schema
  <2>1. {0} \in SUBSET Nat
    OBVIOUS
  <2> QED
    BY ZenonT(40), <1>2, <2>1, EntryTyped
<1>5. old \in RootType
  BY <1>3, <1>4 DEF RootType, Entries
<1>6. cur \in RootType /\ \A e \in Entries : cur[e] = Absent
  BY SMTT(40), AbsentTyped DEF Init, RootType
<1>7. TypeOK
  BY SMTT(40), <1>5, <1>6, IdleTyped DEF Init, TypeOK
<1>8. RootsCurrent /\ EditsKept
  BY ZenonT(40), <1>3, <1>4, <1>6, AbsentTyped DEF RootsCurrent, EditsKept, Init
<1>9. EntriesKept /\ PublicationFixed /\ PublicationKeepsItsManifest
  BY Zenon, <1>2, <1>3, <1>4
  DEF EntriesKept, PublicationFixed, PublicationKeepsItsManifest, IsThere, OldPublication
<1>10. \A d \in Devices : Knows(pass[d], old, cur, ever)
  BY IdleTyped, NothingKnown DEF Init
<1> QED
  BY <1>7, <1>8, <1>9, <1>10 DEF Inv, Roots

\* The pass of a device ends.
LEMMA EndsInv ==
  ASSUME Inv, TypeOK', Roots', Moves(old, cur, ever, old', cur', ever'),
         NEW d \in Devices, Ends(d)
  PROVE  Inv'
<1>1. Knows(Idle, old', cur', ever')
  BY IdleTyped, NothingKnown
<1> QED
  BY ZenonT(40), <1>1, DeviceStep DEF Ends

\* One entry more is carried over.
LEMMA FollowingKnows ==
  ASSUME NEW p \in PassType, NEW before, NEW now, NEW all,
         Knows(p, before, now, all), p.stage \in Copying, p.todo # {},
         Carried(p.inventory, First(p.todo), now)
  PROVE  Knows(Following(p), before, now, all)
<1> DEFINE q == Following(p)
<1>1. /\ q.stage = "source" /\ q.inventory = p.inventory
      /\ q.todo = p.todo \ {First(p.todo)}
  BY ZenonT(40) DEF Following, Pass
<1>2. \A e \in Entries \ q.todo : Carried(q.inventory, e, now)
  BY ZenonT(40), <1>1 DEF Knows
<1>3. ASSUME NEW r, r = q PROVE Knows(r, before, now, all)
  <2>1. r.stage = "source" /\ r.inventory = p.inventory
        /\ \A e \in Entries \ r.todo : Carried(r.inventory, e, now)
    BY ZenonT(40), <1>1, <1>2, <1>3
  <2> HIDE DEF q
  <2> QED
    BY ZenonT(40), <2>1 DEF Knows, Copying, Copied
<1> QED
  BY <1>3

\* A pass that has copied everything goes on without forgetting what it found.
LEMMA CopiedKnows ==
  ASSUME NEW p, NEW q, NEW before, NEW now, NEW all, Knows(p, before, now, all),
         p.stage \in Copied \/ (p.stage = "source" /\ p.todo = {}),
         q.inventory = p.inventory,
         q.stage \in {"schema", "logical", "upgrade", "work", "state"}
  PROVE  Knows(q, before, now, all)
<1>1. \A e \in Entries : Carried(q.inventory, e, now)
  BY ZenonT(40) DEF Knows, Copying
<1> QED
  BY ZenonT(40), <1>1 DEF Knows, Copying, Copied

\* The content that is copied contains what the pass found of the entry.
LEMMA CopyKnows ==
  ASSUME NEW p \in PassType, NEW before, NEW now, NEW all, Knows(p, before, now, all),
         p.stage \in {"target", "copy"}, NEW now2,
         IsThere(now2[First(p.todo)]),
         First(p.todo) = "progress" =>
            p.source.edits \cup now["progress"].edits \subseteq now2["progress"].edits
  PROVE  Carried(p.inventory, First(p.todo), now2)
  BY ZenonT(40) DEF Knows, Carried

\* Every step keeps the invariant.
LEMMA InvStep == Inv /\ [Next]_vars => Inv'
<1> SUFFICES ASSUME Inv, [Next]_vars PROVE Inv'
  OBVIOUS
<1>t. TypeOK /\ TypeOK'
  BY TypeStep DEF Inv
<1>r. Roots
  BY SMTT(40) DEF Inv
<1>p. \A d \in Devices :
        /\ pass[d] \in PassType /\ pass[d].todo \in SUBSET Entries
        /\ Knows(pass[d], old, cur, ever)
  BY DEF Inv, TypeOK, PassType
<1>i. UNCHANGED <<old, cur, ever>> => Roots' /\ Moves(old, cur, ever, old', cur', ever')
  BY Still
<1>1. CASE UNCHANGED vars
  <2>1. UNCHANGED <<old, cur, ever, pass>>
    BY SMTT(40), <1>1 DEF vars
  <2> QED
    BY SMTT(40), <1>t, <1>i, <2>1, OtherStep
<1>2. CASE OldClientWrites
  <2> DEFINE x == Entry(old["progress"].edits \cup {made + 1}, "previous")
  <2>1. /\ old' = [old EXCEPT !["progress"] = x]
        /\ ever' = ever \cup {made + 1} /\ UNCHANGED <<cur, pass>>
    BY SMTT(40), <1>2 DEF OldClientWrites
  <2>2. \A e \in Entries : old'[e] = IF e = "progress" THEN x ELSE old[e]
    BY SMTT(40), <1>t, <2>1 DEF TypeOK, RootType
  <2>3. x.edits = old["progress"].edits \cup {made + 1}
    BY SMTT(40) DEF Entry
  <2> HIDE DEF x
  <2>4. Moves(old, cur, ever, old', cur', ever')
    BY SMTT(40), <2>1, <2>2 DEF Moves, Entries
  <2>5. EditsKept'
    BY SMTT(40), <1>r, <2>1, <2>2, <2>3 DEF Roots, EditsKept, Entries
  <2>6. RootsCurrent' /\ EntriesKept' /\ PublicationFixed' /\ PublicationKeepsItsManifest'
    BY SMTT(40), <1>r, <2>1, <2>2 DEF Roots, RootsCurrent, EntriesKept, PublicationFixed,
       PublicationKeepsItsManifest, Entries
  <2> QED
    BY SMTT(40), <1>t, <2>1, <2>4, <2>5, <2>6, OtherStep DEF Roots
<1>3. ASSUME NEW d \in Devices, Start(d) PROVE Inv'
  <2> DEFINE q == Pass("inventory", {}, NoInventory, Absent, Absent, 0)
  <2>1. pass' = [pass EXCEPT ![d] = q] /\ UNCHANGED <<old, cur, ever>>
    BY SMTT(40), <1>3 DEF Start, Goes
  <2>2. q.stage = "inventory" /\ q.inventory = NoInventory
    BY DEF Pass
  <2> HIDE DEF q
  <2>3. Knows(q, old', cur', ever')
    BY SMTT(40), <2>2, NothingKnown
  <2> QED
    BY ZenonT(40), <1>t, <1>i, <2>1, <2>3, DeviceStep
<1>4. ASSUME NEW d \in Devices, Inventory(d) PROVE Inv'
  <2> DEFINE q == Pass("source", {e \in Entries : IsThere(old[e])}, old, Absent, Absent, 0)
  <2>1. pass' = [pass EXCEPT ![d] = q] /\ UNCHANGED <<old, cur, ever>>
    BY <1>4 DEF Inventory, Goes, Remote, Past
  <2>2. q.stage = "source" /\ q.inventory = old /\ q.todo = {e \in Entries : IsThere(old[e])}
    BY SMTT(40) DEF Pass
  <2> HIDE DEF q
  <2>3. \A e \in Entries \ q.todo : Carried(q.inventory, e, cur)
    BY ZenonT(40), <2>2 DEF Carried
  <2>4. Knows(q, old, cur, ever)
    BY ZenonT(40), <1>r, <2>2, <2>3
    DEF Knows, Copying, Copied, Roots, EditsKept, PublicationFixed
  <2> QED
    BY ZenonT(40), <1>t, <1>i, <2>1, <2>4, DeviceStep
<1>5. ASSUME NEW d \in Devices, ReadSource(d) PROVE Inv'
  <2> DEFINE p == pass[d]
             e == First(p.todo)
             q == Pass("target", p.todo, p.inventory, Normalized(old[e]), Absent, 0)
  <2>0. p \in PassType /\ p.stage = "source" /\ p.todo # {} /\ p.todo \in SUBSET Entries
        /\ Knows(p, old, cur, ever)
    BY SMTT(40), <1>5, <1>p DEF ReadSource, At
  <2>1. UNCHANGED <<old, cur, ever>>
    BY SMTT(40), <1>5 DEF ReadSource, Remote, Past
  <2>2. CASE ~Supported(e) /\ Goes(d, Following(p))
    <3>1. Carried(p.inventory, e, cur)
      BY ZenonT(40), <2>2 DEF Carried
    <3>2. Knows(Following(p), old', cur', ever')
      BY ZenonT(40), <2>0, <2>1, <3>1, FollowingKnows DEF Copying
    <3> QED
      BY ZenonT(40), <1>t, <1>i, <2>1, <2>2, <3>2, DeviceStep DEF Goes
  <2>3. CASE Ends(d)
    BY SMTT(40), <1>t, <1>i, <2>1, <2>3, EndsInv
  <2>4. CASE Supported(e) /\ IsThere(old[e]) /\ Goes(d, q)
    <3>1. /\ q.stage = "target" /\ q.todo = p.todo /\ q.inventory = p.inventory
          /\ q.source = Entry(old[e].edits, "current")
      BY ZenonT(40) DEF Pass, Normalized
    <3> HIDE DEF q
    <3>2. q.source.edits = old[e].edits /\ q.source.root = "current" /\ IsThere(q.source)
      <4> HIDE DEF p, e
      <4>1. q.source.edits = old[e].edits /\ q.source.root = "current"
        BY SMTT(40), <3>1, EntryFields
      <4>2. old[e].edits # {}
        BY Zenon, <2>4 DEF IsThere
      <4> QED
        BY SMTT(40), <4>1, <4>2 DEF IsThere
    <3>3. p.inventory["progress"].edits \subseteq old["progress"].edits \cup cur["progress"].edits
      BY ZenonT(40), <1>r, <2>0 DEF Knows, Roots, EditsKept
    <3>4. Knows(q, old, cur, ever)
      BY ZenonT(40), <2>0, <2>4, <3>1, <3>2, <3>3 DEF Knows, Copying, Copied
    <3> QED
      BY ZenonT(40), <1>t, <1>i, <2>1, <2>4, <3>4, DeviceStep DEF Goes
  <2> QED
    BY SMTT(40), <1>5, <2>2, <2>3, <2>4 DEF ReadSource
<1>6. ASSUME NEW d \in Devices, ReadTarget(d) PROVE Inv'
  <2> DEFINE p == pass[d]
             e == First(p.todo)
             q == Pass("copy", p.todo, p.inventory, p.source, Absent, 0)
  <2>0. p \in PassType /\ p.stage = "target" /\ p.todo # {} /\ Knows(p, old, cur, ever)
    BY ZenonT(40), <1>6, <1>p DEF ReadTarget, At, Knows
  <2>1. UNCHANGED <<old, cur, ever>>
    BY SMTT(40), <1>6 DEF ReadTarget, Remote
  <2>2. CASE IsThere(cur[e]) /\ cur[e] = p.source /\ Goes(d, Following(p))
    <3>1. Carried(p.inventory, e, cur)
      BY ZenonT(40), <2>0, <2>2, CopyKnows
    <3>2. Knows(Following(p), old', cur', ever')
      BY ZenonT(40), <2>0, <2>1, <3>1, FollowingKnows DEF Copying
    <3> QED
      BY ZenonT(40), <1>t, <1>i, <2>1, <2>2, <3>2, DeviceStep DEF Goes
  <2>3. CASE Ends(d)
    BY <1>t, <1>i, <2>1, <2>3, EndsInv
  <2>4. CASE Goes(d, q)
    <3>1. /\ q.stage = "copy" /\ q.todo = p.todo /\ q.inventory = p.inventory
          /\ q.source = p.source
      BY Zenon DEF Pass
    <3> HIDE DEF q
    <3>2. Knows(q, old, cur, ever)
      BY ZenonT(40), <2>0, <3>1 DEF Knows, Copying, Copied
    <3> QED
      BY ZenonT(40), <1>t, <1>i, <2>1, <2>4, <3>2, DeviceStep DEF Goes
  <2> QED
    BY SMTT(40), <1>6, <2>2, <2>3, <2>4 DEF ReadTarget
<1>c. ASSUME NEW d \in Devices, pass[d].stage = "copy", UNCHANGED <<old, ever>>,
             Create(First(pass[d].todo), pass[d].source)
      PROVE  /\ Roots' /\ Moves(old, cur, ever, old', cur', ever')
             /\ Carried(pass[d].inventory, First(pass[d].todo), cur')
  <2> DEFINE p == pass[d]
             e == First(p.todo)
  <2>1. p \in PassType /\ p.todo # {} /\ Knows(p, old, cur, ever) /\ e \in Entries
        /\ IsThere(p.source) /\ p.source.root = "current"
    BY ZenonT(40), <1>c, <1>p, FirstAndLast DEF Knows
  <2>2. cur' = [cur EXCEPT ![e] = p.source] /\ cur[e].edits = {}
    BY ZenonT(40), <1>c DEF Create, IsThere
  <2>3. Roots' /\ Moves(old, cur, ever, old', cur', ever')
    BY ZenonT(40), <1>c, <1>t, <2>1, <2>2, CurrentGrows
  <2>4. cur'[e] = p.source
    BY ZenonT(40), <1>t, <2>1, <2>2 DEF TypeOK, RootType
  <2>5. Carried(p.inventory, e, cur')
    BY ZenonT(40), <1>c, <2>1, <2>2, <2>4, CopyKnows
  <2> QED
    BY SMTT(40), <2>3, <2>5
<1>7. ASSUME NEW d \in Devices, Copy(d) PROVE Inv'
  <2> DEFINE p == pass[d]
             e == First(p.todo)
  <2>0. /\ p \in PassType /\ p.stage = "copy" /\ p.todo # {} /\ Knows(p, old, cur, ever)
        /\ UNCHANGED <<old, ever>>
    <3>1. p \in PassType /\ Knows(p, old, cur, ever)
      BY Zenon, <1>p
    <3>2. p.stage = "copy" /\ UNCHANGED old /\ UNCHANGED Past
      BY Zenon, <1>7 DEF Copy, At
    <3>3. p.todo # {}
      BY Zenon, <3>1, <3>2 DEF Knows
    <3>4. UNCHANGED ever
      BY SMTT(40), <3>2 DEF Past
    <3> QED
      BY Zenon, <3>1, <3>2, <3>3, <3>4
  <2>1. CASE Create(e, p.source) /\ Goes(d, Following(p))
    <3>1. /\ Roots' /\ Moves(old, cur, ever, old', cur', ever')
          /\ Carried(p.inventory, e, cur')
      BY <1>c, <2>0, <2>1
    <3>2. Knows(p, old', cur', ever')
      BY <2>0, <3>1, KnownStaysTrue
    <3>3. Knows(Following(p), old', cur', ever')
      BY <2>0, <3>1, <3>2, FollowingKnows DEF Copying
    <3> QED
      BY ZenonT(40), <1>t, <2>1, <3>1, <3>3, DeviceStep DEF Goes
  <2>2. CASE Ends(d) /\ UNCHANGED cur
    BY SMTT(40), <1>t, <1>i, <2>0, <2>2, EndsInv
  <2>3. CASE IsThere(cur[e]) /\ cur[e] = p.source /\ Goes(d, Following(p)) /\ UNCHANGED cur
    <3>1. Carried(p.inventory, e, cur)
      BY ZenonT(40), <2>0, <2>3, CopyKnows
    <3>2. Knows(Following(p), old', cur', ever')
      BY ZenonT(40), <2>0, <2>3, <3>1, FollowingKnows DEF Copying
    <3> QED
      BY ZenonT(40), <1>t, <1>i, <2>0, <2>3, <3>2, DeviceStep DEF Goes
  <2> QED
    BY ZenonT(40), <1>7, <2>1, <2>2, <2>3 DEF Copy, Accepted
<1>g. ASSUME NEW d \in Devices, UNCHANGED <<old, ever>>,
             Roots', Moves(old, cur, ever, old', cur', ever'),
             pass[d].stage \in Copied \/ (pass[d].stage = "source" /\ pass[d].todo = {}),
             NEW stage \in {"schema", "logical", "upgrade", "work", "state"},
             NEW expected, NEW attempt,
             Goes(d, Pass(stage, {}, pass[d].inventory, Absent, expected, attempt))
      PROVE  Inv'
  <2> DEFINE q == Pass(stage, {}, pass[d].inventory, Absent, expected, attempt)
  <2>1. q.stage = stage /\ q.inventory = pass[d].inventory
    BY DEF Pass
  <2>2. pass' = [pass EXCEPT ![d] = q]
    BY <1>g DEF Goes
  <2> HIDE DEF q
  <2>3. Knows(pass[d], old', cur', ever')
    BY <1>g, <1>p, KnownStaysTrue
  <2>4. Knows(q, old', cur', ever')
    BY <1>g, <2>1, <2>3, CopiedKnows
  <2> QED
    BY ZenonT(40), <1>g, <1>t, <2>2, <2>4, DeviceStep
<1>8. ASSUME NEW d \in Devices, Prepared(d) PROVE Inv'
  <2>1. UNCHANGED <<old, cur, ever>>
    BY <1>8 DEF Prepared, Remote, Past
  <2> QED
    BY <1>8, <1>i, <1>g, <2>1 DEF Prepared, At
<1>9. ASSUME NEW d \in Devices, SchemaRead(d) PROVE Inv'
  <2>1. UNCHANGED <<old, cur, ever>> /\ pass[d].stage \in Copied
    BY <1>9 DEF SchemaRead, Remote, Past, At, Copied
  <2>2. \E stage \in {"work", "logical", "upgrade"} :
          Goes(d, Pass(stage, {}, pass[d].inventory, Absent, cur["manifest"], pass[d].attempt))
    BY SMTT(40), <1>9 DEF SchemaRead
  <2> QED
    BY SMTT(40), <1>i, <1>g, <2>1, <2>2
<1>10. ASSUME NEW d \in Devices, PrepareLegacyUpgrade(d) PROVE Inv'
  <2>1. UNCHANGED <<old, cur, ever>> /\ pass[d].stage \in Copied
    BY <1>10 DEF PrepareLegacyUpgrade, Remote, Past, At, Copied
  <2>2. \/ Ends(d)
        \/ \E stage \in {"work", "upgrade"} :
          Goes(d, Pass(stage, {}, pass[d].inventory, Absent, cur["manifest"], pass[d].attempt))
    BY <1>10 DEF PrepareLegacyUpgrade
  <2> QED
    BY SMTT(40), <1>t, <1>i, <1>g, <2>1, <2>2, EndsInv
<1>u. ASSUME UNCHANGED <<old, ever>>, NEW y, Written("manifest", y, UpgradedManifest)
      PROVE  Roots' /\ Moves(old, cur, ever, old', cur', ever')
  <2>1. IsThere(UpgradedManifest) /\ UpgradedManifest.root = "current"
    <3>1. UpgradedManifest.edits = 1..3 /\ UpgradedManifest.root = "current"
      BY DEF UpgradedManifest, Entry, Legacy, Current
    <3>2. 1 \in 1..3
      OBVIOUS
    <3> QED
      BY <3>1, <3>2 DEF IsThere
  <2>2. cur' = [cur EXCEPT !["manifest"] = UpgradedManifest] /\ "manifest" \in Entries
    BY <1>u DEF Written, Entries
  <2> QED
    BY ZenonT(40), <1>u, <1>t, <2>1, <2>2, CurrentGrows
<1>11. ASSUME NEW d \in Devices, SchemaWrite(d) PROVE Inv'
  <2> DEFINE p == pass[d]
  <2>1. UNCHANGED <<old, ever>> /\ p.stage \in Copied
    BY SMTT(40), <1>11 DEF SchemaWrite, Past, At, Copied
  <2>2. CASE /\ Written("manifest", p.expected, UpgradedManifest)
             /\ Goes(d, Pass("work", {}, p.inventory, Absent, Absent, 0))
    BY SMTT(40), <1>u, <1>g, <2>1, <2>2
  <2>3. CASE /\ UNCHANGED cur
             /\ \/ Goes(d, Pass("schema", {}, p.inventory, Absent, Absent, p.attempt + 1))
                \/ Ends(d)
    BY SMTT(40), <1>t, <1>i, <1>g, <2>1, <2>3, EndsInv
  <2> QED
    BY SMTT(40), <1>11, <2>2, <2>3 DEF SchemaWrite
<1>12. ASSUME NEW d \in Devices, Books(d) PROVE Inv'
  <2>1. UNCHANGED <<old, cur, ever>> /\ pass[d].stage \in Copied
        /\ Goes(d, Pass("state", {}, pass[d].inventory, Absent, Absent, 0))
    BY <1>12 DEF Books, Remote, Past, At, Copied
  <2> QED
    BY SMTT(40), <1>i, <1>g, <2>1
<1>13. ASSUME NEW d \in Devices, WorkerReads(d) PROVE Inv'
  <2>1. UNCHANGED <<old, cur, ever, pass>>
    BY <1>13 DEF WorkerReads, Remote, Past
  <2> QED
    BY <1>t, <1>i, <2>1, OtherStep
<1>14. ASSUME NEW d \in Devices, WorkerWrites(d) PROVE Inv'
  <2> DEFINE w == worker[d]
             x == Entry(w.expected.edits \cup edits[d], "current")
  <2>1. UNCHANGED <<old, ever, pass>>
    BY <1>14 DEF WorkerWrites, Past
  <2>2. CASE cur["progress"] = w.expected /\ cur' = [cur EXCEPT !["progress"] = x]
    <3>1. x.edits = cur["progress"].edits \cup edits[d] /\ x.root = "current"
      BY <2>2 DEF Entry
    <3> HIDE DEF x
    <3>2. CASE x.edits # {}
      <4>1. Roots' /\ Moves(old, cur, ever, old', cur', ever')
        BY ZenonT(40), <1>t, <2>1, <2>2, <3>1, <3>2, CurrentGrows DEF IsThere, Entries
      <4> QED
        BY <1>t, <2>1, <4>1, OtherStep
    <3>3. CASE x.edits = {}
      <4>1. cur["progress"].edits = {} /\ cur["progress"].root = "current"
        BY <1>r, <3>1, <3>3 DEF Roots, RootsCurrent, Entries
      <4>2. cur["progress"] \in EntryType /\ x \in EntryType
        <5>1. cur["progress"] \in EntryType /\ cur'["progress"] \in EntryType
          BY <1>t DEF TypeOK, RootType, Entries
        <5> QED
          BY <1>t, <2>2, <5>1 DEF TypeOK, RootType, Entries
      <4>3. x = cur["progress"]
        BY <3>1, <3>3, <4>1, <4>2 DEF EntryType
      <4>4. cur' = cur
        BY <1>t, <2>2, <4>3 DEF TypeOK, RootType
      <4> QED
        BY <1>t, <1>i, <2>1, <4>4, OtherStep
    <3> QED
      BY <3>2, <3>3
  <2>3. CASE UNCHANGED cur
    BY <1>t, <1>i, <2>1, <2>3, OtherStep
  <2> QED
    BY <1>14, <2>2, <2>3 DEF WorkerWrites, Written
<1>15. ASSUME NEW d \in Devices, Worked(d) PROVE Inv'
  <2> DEFINE p == pass[d]
             q == Pass("cleanup", {e \in Entries : IsThere(p.inventory[e])}, p.inventory,
                       Absent, Absent, 0)
  <2>1. /\ UNCHANGED <<old, cur, ever>> /\ p.stage = "state"
        /\ pass' = [pass EXCEPT ![d] = q]
    BY <1>15 DEF Worked, Remote, Past, At, Goes
  <2>2. /\ q.stage = "cleanup" /\ q.inventory = p.inventory
        /\ q.todo = {e \in Entries : IsThere(p.inventory[e])}
    BY DEF Pass
  <2> HIDE DEF q
  <2>3. Knows(q, old, cur, ever)
    BY ZenonT(40), <1>p, <2>1, <2>2 DEF Knows, Copying, Copied, Entries
  <2> QED
    BY Zenon, <1>t, <1>i, <2>1, <2>3, DeviceStep
<1>16. ASSUME NEW d \in Devices, CleanupGitHub(d) PROVE Inv'
  <2> DEFINE p == pass[d]
  <2>1. UNCHANGED <<cur, ever>> /\ p.stage = "cleanup" /\ Ends(d)
    BY ZenonT(40), <1>16 DEF CleanupGitHub, Past, At
  <2>2. CASE UNCHANGED old
    BY SMTT(40), <1>t, <1>i, <2>1, <2>2, EndsInv
  <2>3. CASE /\ \A e \in p.todo : Removable(p, e)
             /\ old' = [e \in Entries |-> IF e \in p.todo THEN Absent ELSE old[e]]
    <3>1. "publication" \in p.todo \/ ~IsThere(old["publication"])
      BY ZenonT(40), <1>p, <2>1 DEF Knows, Copied
    <3>2. Roots' /\ Moves(old, cur, ever, old', cur', ever')
      BY ZenonT(40), <1>t, <2>1, <2>3, <3>1, PreviousShrinks DEF Removable
    <3> QED
      BY SMTT(40), <1>t, <2>1, <3>2, EndsInv
  <2> QED
    BY ZenonT(40), <1>16, <2>2, <2>3 DEF CleanupGitHub
<1>17. ASSUME NEW d \in Devices, CleanupMega(d) PROVE Inv'
  <2> DEFINE p == pass[d]
             q == Pass("removing", p.todo, p.inventory, Absent, Absent, 0)
  <2>1. UNCHANGED <<old, cur, ever>> /\ p.stage = "cleanup"
    BY SMTT(40), <1>17 DEF CleanupMega, Remote, Past, At
  <2>2. CASE Ends(d)
    BY <1>t, <1>i, <2>1, <2>2, EndsInv
  <2>3. CASE Goes(d, q)
    <3>1. q.stage = "removing" /\ q.inventory = p.inventory /\ q.todo = p.todo
      BY DEF Pass
    <3> HIDE DEF q
    <3>2. Knows(q, old, cur, ever)
      BY ZenonT(40), <1>p, <2>1, <3>1 DEF Knows, Copying, Copied
    <3> QED
      BY Zenon, <1>t, <1>i, <2>1, <2>3, <3>2, DeviceStep DEF Goes
  <2> QED
    BY <1>17, <2>2, <2>3 DEF CleanupMega
<1>f. ASSUME NEW d \in Devices, pass[d].stage = "removing", pass[d].todo # {},
             UNCHANGED <<cur, ever>>, NEW e, e = NextRemoved(pass[d].todo),
             old' = [old EXCEPT ![e] = IF @ = pass[d].inventory[e] THEN Absent ELSE @]
      PROVE  /\ Roots' /\ Moves(old, cur, ever, old', cur', ever')
             /\ e = "publication" => ~IsThere(old'["publication"])
  <2> DEFINE p == pass[d]
             S == IF old[e] = p.inventory[e] THEN {e} ELSE {}
  <2>1. /\ e \in p.todo /\ e \in Entries
        /\ e = "bookManifest" => p.todo = {"bookManifest"}
    BY SMTT(40), <1>f, <1>p, FirstAndLast DEF NextRemoved
  <2>2. \A g \in Entries : old'[g] = IF g \in S THEN Absent ELSE old[g]
    BY SMTT(40), <1>f, <1>t, <2>1 DEF TypeOK, RootType
  <2>3. "bookManifest" \in S => "publication" \in S \/ ~IsThere(old["publication"])
    BY ZenonT(40), <1>f, <1>p, <2>1 DEF Knows
  <2>4. S \in SUBSET p.todo /\ \A g \in S : old[g] \in {Absent, p.inventory[g]}
    BY SMTT(40), <2>1
  <2>5. Roots' /\ Moves(old, cur, ever, old', cur', ever')
    <3> HIDE DEF S
    <3> QED
      BY Zenon, <1>f, <1>t, <2>2, <2>3, <2>4, PreviousShrinks
  <2>6. e = "publication" => ~IsThere(old'["publication"])
    <3> SUFFICES ASSUME e = "publication" PROVE ~IsThere(old'["publication"])
      OBVIOUS
    <3>1. IsThere(p.inventory["publication"]) /\ p.inventory["publication"] \in {Absent, OldPublication}
      BY Zenon, <1>f, <1>p, <2>1 DEF Knows, Copied
    <3>2. old["publication"] \in {Absent, OldPublication}
      BY SMTT(40), <1>r DEF Roots, PublicationFixed
    <3> QED
      BY <2>1, <2>2, <3>1, <3>2, AbsentTyped
  <2> QED
    BY SMTT(40), <2>5, <2>6
<1>18. ASSUME NEW d \in Devices, RemoveFile(d) PROVE Inv'
  <2> DEFINE p == pass[d]
             e == NextRemoved(p.todo)
             q == Pass("removing", p.todo \ {e}, p.inventory, Absent, Absent, 0)
  <2>1. UNCHANGED <<cur, ever>> /\ p.stage = "removing"
    BY ZenonT(40), <1>18 DEF RemoveFile, Past, At
  <2>2. CASE Ends(d) /\ UNCHANGED old
    BY SMTT(40), <1>t, <1>i, <2>1, <2>2, EndsInv
  <2>3. CASE /\ p.todo # {} /\ Goes(d, q)
             /\ old' = [old EXCEPT ![e] = IF @ = p.inventory[e] THEN Absent ELSE @]
    <3>1. /\ Roots' /\ Moves(old, cur, ever, old', cur', ever')
          /\ e = "publication" => ~IsThere(old'["publication"])
      BY ZenonT(40), <1>f, <2>1, <2>3
    <3>2. q.stage = "removing" /\ q.inventory = p.inventory /\ q.todo = p.todo \ {e}
      BY SMTT(40) DEF Pass
    <3>3. Knows(p, old', cur', ever')
      BY SMTT(40), <1>p, <3>1, KnownStaysTrue
    <3> HIDE DEF q, e
    <3>4. Knows(q, old', cur', ever')
      BY ZenonT(40), <2>1, <3>1, <3>2, <3>3 DEF Knows, Copying, Copied
    <3> QED
      BY Zenon, <1>t, <2>3, <3>1, <3>4, DeviceStep DEF Goes
  <2> QED
    BY ZenonT(40), <1>18, <2>2, <2>3 DEF RemoveFile
<1>19. ASSUME NEW d \in Devices, Fail(d) PROVE Inv'
  <2>1. UNCHANGED <<old, cur, ever>> /\ Ends(d)
    BY <1>19 DEF Fail, Remote
  <2> QED
    BY <1>t, <1>i, <2>1, EndsInv
<1>20. ASSUME NEW d \in Devices, LoseReply(d) PROVE Inv'
  <2>1. UNCHANGED ever /\ Ends(d)
    BY SMTT(40), <1>20 DEF LoseReply
  <2>2. Roots' /\ Moves(old, cur, ever, old', cur', ever')
    BY ZenonT(40), <1>20, <1>c, <1>u, <1>f, <2>1 DEF LoseReply, At
  <2> QED
    BY SMTT(40), <1>t, <2>1, <2>2, EndsInv
<1>21. ASSUME NEW d \in Devices, Read(d) PROVE Inv'
  <2>1. UNCHANGED <<old, cur, ever, pass>>
    BY <1>21 DEF Read, Remote
  <2> QED
    BY <1>t, <1>i, <2>1, OtherStep
<1> QED
  BY ZenonT(40), <1>1, <1>2, <1>3, <1>4, <1>5, <1>6, <1>7, <1>8, <1>9, <1>10, <1>11,
     <1>12,
     <1>13, <1>14, <1>15, <1>16, <1>17, <1>18, <1>19, <1>20, <1>21 DEF Next, Step

\* The invariant holds in every reachable state.
THEOREM InvHolds == Spec => []Inv
  BY InitInv, InvStep, PTL DEF Spec

\* Type correctness of the two roots, the passes and the workers.
THEOREM TypeCorrect == Spec => []TypeOK
  BY InvHolds, PTL DEF Inv

\* NothingLost for every number of devices, failures, edits and passes: what is
\* gone from the previous root is in the current one, for either adapter's
\* cleanup.
THEOREM NothingIsLost == Spec => []NothingLost
<1>1. Inv => NothingLost
  <2> SUFFICES ASSUME Inv PROVE NothingLost
    OBVIOUS
  <2>1. ~IsThere(old["progress"]) => ever \subseteq cur["progress"].edits
    BY DEF Inv, Roots, EditsKept, IsThere
  <2> QED
    BY <2>1 DEF Inv, Roots, EntriesKept, RootsCurrent, NothingLost
<1> QED
  BY <1>1, InvHolds, PTL

\* PublicationKeepsItsManifest for every instance: the order of the cleanup and
\* its one commit never leave a publication without the manifest beside it.
THEOREM PublicationHasItsManifest == Spec => []PublicationKeepsItsManifest
  BY InvHolds, PTL DEF Inv, Roots

\* MigrationIsSafe for every instance, from the two results above.
THEOREM MigrationNeverLoses == Spec => []MigrationIsSafe
  BY NothingIsLost, PublicationHasItsManifest, PTL DEF MigrationIsSafe

\* SchemaNeverFalls for every instance: a migrated manifest is only created, and
\* an upgrade only raises it.
THEOREM SchemaOnlyRises == Spec => SchemaNeverFalls
<1>1. Inv /\ [Next]_vars =>
        [IsThere(cur["manifest"]) =>
           /\ IsThere(cur'["manifest"])
           /\ Schema(cur["manifest"]) <= Schema(cur'["manifest"])]_vars
  <2> SUFFICES ASSUME Inv, [Next]_vars, IsThere(cur["manifest"])
               PROVE  /\ IsThere(cur'["manifest"])
                      /\ Schema(cur["manifest"]) <= Schema(cur'["manifest"])
    OBVIOUS
  <2>0. cur \in RootType /\ "manifest" \in Entries
    BY DEF Inv, TypeOK, Entries
  <2>1. \A x : Schema(x) \in 1..3
    BY DEF Schema, Legacy, Compatible, Current
  <2>2. IsThere(UpgradedManifest) /\ Schema(UpgradedManifest) = 3
    <3>1. UpgradedManifest.edits = 1..3
      BY DEF UpgradedManifest, Entry, Legacy, Current
    <3>2. 3 \in 1..3
      OBVIOUS
    <3> QED
      BY <3>1, <3>2 DEF IsThere, Schema, Current
  <2>3. CASE cur'["manifest"] = cur["manifest"]
    BY <2>1, <2>3
  <2>4. CASE cur'["manifest"] = UpgradedManifest
    BY <2>1, <2>2, <2>4
  <2>5. \A e, x : Create(e, x) => cur'["manifest"] = cur["manifest"]
    BY <2>0 DEF Create, RootType
  <2>6. \A y : Written("manifest", y, UpgradedManifest) => cur'["manifest"] = UpgradedManifest
    BY <2>0 DEF Written, RootType
  <2>7. \A y, x : Written("progress", y, x) => cur'["manifest"] = cur["manifest"]
    BY <2>0 DEF Written, RootType
  <2>8. \A d \in Devices : Copy(d) => cur'["manifest"] = cur["manifest"]
    BY SMTT(40), <2>5 DEF Copy
  <2>9. \A d \in Devices : SchemaWrite(d) => cur'["manifest"] \in {cur["manifest"], UpgradedManifest}
    BY SMTT(40), <2>6 DEF SchemaWrite
  <2>10. \A d \in Devices : WorkerWrites(d) => cur'["manifest"] = cur["manifest"]
    BY ZenonT(40), <2>7 DEF WorkerWrites
  <2>11. \A d \in Devices : LoseReply(d) => cur'["manifest"] \in {cur["manifest"], UpgradedManifest}
    BY SMTT(40), <2>5, <2>6 DEF LoseReply
  <2>12. \/ cur' = cur
         \/ \E d \in Devices : Copy(d) \/ SchemaWrite(d) \/ WorkerWrites(d) \/ LoseReply(d)
    <3>1. ASSUME NEW d \in Devices,
                 \/ Start(d) \/ Inventory(d) \/ ReadSource(d) \/ ReadTarget(d)
                 \/ Prepared(d) \/ SchemaRead(d)
          PROVE  cur' = cur
      BY SMTT(40), <3>1
      DEF Start, Inventory, ReadSource, ReadTarget, Prepared, SchemaRead,
         Remote, Read
    <3>2. ASSUME NEW d \in Devices,
                 \/ PrepareLegacyUpgrade(d) \/ Books(d) \/ WorkerReads(d) \/ Worked(d)
                 \/ CleanupGitHub(d) \/ CleanupMega(d) \/ RemoveFile(d) \/ Fail(d) \/ Read(d)
          PROVE  cur' = cur
      BY Zenon, <3>2 DEF PrepareLegacyUpgrade, Books, WorkerReads, Worked, CleanupGitHub,
         CleanupMega, RemoveFile, Fail, Remote, Past, Read
    <3> QED
      BY ZenonT(40), <3>1, <3>2 DEF Next, Step, vars, OldClientWrites
  <2> QED
    BY <2>3, <2>4, <2>8, <2>9, <2>10, <2>11, <2>12
<1> QED
  BY <1>1, InvHolds, PTL DEF Spec, SchemaNeverFalls

=============================================================================
