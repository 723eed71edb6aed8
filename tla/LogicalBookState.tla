-------------------------- MODULE LogicalBookState --------------------------
(***************************************************************************)
(* The canonical logical-book document and the merge that folds local      *)
(* changes into it (libs/sync/core: logical-book-state.ts).                *)
(*                                                                         *)
(* A variant (an exact EPUB or PDF) is a pair <<format, n>>.  A logical    *)
(* book is identified by <<variant, changeId>>: <<v, <<>>>> is the         *)
(* singleton identifier of v, any other second component is the derived    *)
(* identifier a detach makes up.  A logical book is the set of variants it *)
(* owns; titles, covers and dates decide nothing in the merge.             *)
(*                                                                         *)
(* The digest of a logical identifier is ranked by the number of its        *)
(* variant, then by the change.                                            *)
(*                                                                         *)
(* A change identifier is the sequence of ranks its text sorts by          *)
(* ('change:' device ':' uuid, or 'change:bootstrap:' device ':' uuid).    *)
(* A clock is the identifier of the change that wrote the entry, the only  *)
(* field of LogicalBookStateClock the merge compares.                      *)
(***************************************************************************)
EXTENDS Naturals, Sequences, FiniteSets, TLC, SequencesExt

Format(v) == v[1]
Singleton(v) == <<v, <<>>>>

\* Removes a set of keys from a partial function.
Without(f, keys) == [k \in DOMAIN f \ keys |-> f[k]]

\* Sets one key of a partial function.
With(f, key, value) ==
    [k \in DOMAIN f \cup {key} |-> IF k = key THEN value ELSE f[k]]

\* The value of a partial function as a set of at most one element.
Lookup(f, k) == IF k \in DOMAIN f THEN {f[k]} ELSE {}

\* localeCompare of two change identifiers: a sorts before b.
SortsBefore(a, b) ==
    \/ \E i \in DOMAIN a \cap DOMAIN b :
          /\ \A j \in 1..(i - 1) : a[j] = b[j]
          /\ a[i] < b[i]
    \/ Len(a) < Len(b) /\ SubSeq(b, 1, Len(a)) = a

LogicalIdBefore(a, b) ==
    \/ a[1][2] < b[1][2]
    \/ a[1][2] = b[1][2] /\ SortsBefore(a[2], b[2])

EmptyState ==
    [books |-> <<>>, removedBooks |-> <<>>, variants |-> <<>>,
     removedVariants |-> <<>>, preferences |-> <<>>, reconciliations |-> <<>>]

\* A change as a mutation of the library produces it; the fields it does not
\* set are empty.
Change(id, parents, books, removed) ==
    [id |-> id, parents |-> parents, books |-> books, removed |-> removed,
     upserts |-> {}, deletes |-> {}, preferences |-> <<>>, resolves |-> {}]

\* isLogicalBookChange refuses a change with more than two snapshots or
\* removals; the parents and effects of this model never reach their limits.
MaxSnapshots == 2

IsSynchronizedChange(c) ==
    /\ Cardinality(DOMAIN c.books) <= MaxSnapshots
    /\ Cardinality(c.removed) <= MaxSnapshots

-----------------------------------------------------------------------------
(* Clocks. *)

ParentsOf(ids, changes) == UNION {c.parents : c \in {k \in changes : k.id \in ids}}

\* a is reachable from d along the parents of the changes at hand; a chain is
\* no longer than the number of changes.
IsAncestor(a, d, changes) ==
    a \in FoldSet(LAMBDA c, seen : seen \cup ParentsOf(seen, changes),
                  ParentsOf({d}, changes), changes)

\* current is a set of at most one clock.
ClockWins(candidate, current, changes) ==
    \A k \in current :
        /\ candidate # k
        /\ \/ IsAncestor(k, candidate, changes)
           \/ /\ ~IsAncestor(candidate, k, changes)
              /\ SortsBefore(k, candidate)

\* Mutant: the greater clock wins, removal or not.
GreaterClockWins(candidate, current, changes, isTombstone, wasTombstone) ==
    ClockWins(candidate, current, changes)

\* A removal and a live entry that know nothing of each other: the removal wins.
TombstoneClockWins(candidate, current, changes, isTombstone, wasTombstone) ==
    \A k \in current :
        /\ candidate # k
        /\ \/ IsAncestor(k, candidate, changes)
           \/ /\ ~IsAncestor(candidate, k, changes)
              /\ IF isTombstone # wasTombstone
                 THEN isTombstone
                 ELSE SortsBefore(k, candidate)

-----------------------------------------------------------------------------
(* One change applied to a state document. *)

Clocks(f) == [k \in DOMAIN f |-> f[k].clock]
ActiveVariants(s) == UNION {s.books[b].variants : b \in DOMAIN s.books}

\* The logical books, with their tombstones, after the removals of a change.
WithRemovals(s, c, changes) ==
    LET gone == {b \in c.removed :
                   /\ TombstoneClockWins(c.id, Lookup(Clocks(s.books), b),
                                         changes, TRUE, FALSE)
                   /\ ClockWins(c.id, Lookup(s.removedBooks, b), changes)}
    IN [s EXCEPT !.books = Without(@, gone),
                 !.removedBooks = [b \in gone |-> c.id] @@ @]

\* The snapshots of a change that its clock entitles to replace the entry.
Eligible(s, c, changes) ==
    {b \in DOMAIN c.books :
        /\ ClockWins(c.id, Lookup(Clocks(s.books), b), changes)
        /\ TombstoneClockWins(c.id, Lookup(s.removedBooks, b), changes,
                              FALSE, TRUE)}

\* Mutant: only a book that loses all its variants is in conflict.
WholeMembershipConflicts(c, b, books) ==
    \E other \in DOMAIN books \ {b} : books[other].variants = c.books[b]

\* Another book of the candidate map owns one of the variants of snapshot b.
MembershipConflicts(c, b, books) ==
    \E other \in DOMAIN books \ {b} : books[other].variants \cap c.books[b] # {}

\* A snapshot is taken unless another book owns one of its variants.
TakeSnapshot(c, acc, b) ==
    IF MembershipConflicts(c, b, acc.state.books)
    THEN [acc EXCEPT !.competing = @ \cup {b}]
    ELSE [acc EXCEPT
            !.state.books = With(@, b, [variants |-> c.books[b], clock |-> c.id]),
            !.state.removedBooks = Without(@, {b})]

\* serializeLogicalBookChange sorts the snapshots by logical identifier; they are
\* taken one by one, each seeing the ones accepted before it.
WithSnapshots(s, c, changes) ==
    FoldLeft(LAMBDA acc, b : TakeSnapshot(c, acc, b),
             [state |-> WithRemovals(s, c, changes), competing |-> {}],
             SetToSortSeq(Eligible(s, c, changes), LogicalIdBefore))

\* Any book snapshot that collides leaves the membership as it was and opens a
\* reconciliation, named by the changes and the variants that collide.
Conflict(s, c, competing) ==
    LET rejected == UNION {c.books[b] : b \in competing}
        owners == {b \in DOMAIN s.books : s.books[b].variants \cap rejected # {}}
        accepted == UNION {s.books[b].variants : b \in owners}
    IN [id |-> [changes |-> {c.id} \cup {s.books[b].clock : b \in owners},
                variants |-> accepted \cup rejected],
        accepted |-> [b \in owners |-> s.books[b].variants],
        rejected |-> [b \in competing |-> c.books[b]]]

Collides(s, c, competing, changes) ==
    LET k == Conflict(s, c, competing)
    IN IF ClockWins(c.id, Lookup(Clocks(s.reconciliations), k.id), changes)
       THEN [s EXCEPT !.reconciliations =
               (k.id :> [status |-> "open", clock |-> c.id,
                         accepted |-> k.accepted, rejected |-> k.rejected]) @@ @]
       ELSE s

WithPreferences(s, c, changes) ==
    LET won == {b \in DOMAIN c.preferences :
                  TombstoneClockWins(c.id, Lookup(Clocks(s.preferences), b), changes,
                      c.preferences[b] = "none",
                      b \in DOMAIN s.preferences /\ s.preferences[b].format = "none")}
    IN [s EXCEPT !.preferences =
          [b \in won |-> [format |-> c.preferences[b], clock |-> c.id]] @@ @]

WithResolutions(s, c, changes) ==
    LET won == {k \in c.resolves \cap DOMAIN s.reconciliations :
                  ClockWins(c.id, {s.reconciliations[k].clock}, changes)}
    IN [s EXCEPT !.reconciliations =
          [k \in won |-> [s.reconciliations[k] EXCEPT !.status = "resolved",
                                                      !.clock = c.id]] @@ @]

\* Exact variants: a deletion beats every live entry it does not know of, an
\* upsert counts only while a book owns the variant, and a variant without an
\* owner is dropped.
WithVariants(s, c, changes) ==
    LET wins(v, isDelete) ==
            /\ TombstoneClockWins(c.id, Lookup(s.variants, v), changes, isDelete, FALSE)
            /\ TombstoneClockWins(c.id, Lookup(s.removedVariants, v), changes,
                                  isDelete, TRUE)
        deleted == {v \in c.deletes : wins(v, TRUE)}
        upserted == {v \in c.upserts \cap ActiveVariants(s) : wins(v, FALSE)}
        live == [v \in upserted |-> c.id] @@ Without(s.variants, deleted)
    IN [s EXCEPT !.variants = Without(live, DOMAIN live \ ActiveVariants(s)),
                 !.removedVariants =
                    [v \in deleted |-> c.id] @@ Without(@, upserted)]

ApplyChange(s, c, changes) ==
    LET taken == WithSnapshots(s, c, changes)
        member == IF taken.competing = {} THEN taken.state
                  ELSE Collides(s, c, taken.competing, changes)
    IN WithVariants(WithResolutions(WithPreferences(member, c, changes), c, changes),
                    c, changes)

\* Ancestors first, then by identifier.
Precedes(a, b, changes) ==
    \/ IsAncestor(a.id, b.id, changes)
    \/ ~IsAncestor(b.id, a.id, changes) /\ SortsBefore(a.id, b.id)

OrderChanges(changes) ==
    SetToSortSeq(changes, LAMBDA a, b : Precedes(a, b, changes))

MergeChanges(s, changes) ==
    FoldLeft(LAMBDA acc, c : ApplyChange(acc, c, changes), s, OrderChanges(changes))

-----------------------------------------------------------------------------
\* isLogicalBookStateDocument: what serialization and parsing refuse.
IsValidState(s) ==
    /\ \A b \in DOMAIN s.books \cap DOMAIN s.removedBooks :
          SortsBefore(s.removedBooks[b], s.books[b].clock)
    /\ \A v \in DOMAIN s.variants \cap DOMAIN s.removedVariants :
          SortsBefore(s.removedVariants[v], s.variants[v])
    /\ \A b1, b2 \in DOMAIN s.books :
          b1 # b2 => s.books[b1].variants \cap s.books[b2].variants = {}
    /\ ActiveVariants(s) = DOMAIN s.variants
    /\ \A k \in DOMAIN s.reconciliations :
          /\ s.reconciliations[k].accepted # <<>>
          /\ s.reconciliations[k].rejected # <<>>

\* logicalBookStateView: what a device shows of the document.
View(s) ==
    [books |-> [b \in DOMAIN s.books |-> s.books[b].variants],
     preferences |-> [b \in {p \in DOMAIN s.preferences :
                               s.preferences[p].format # "none"}
                        |-> [format |-> s.preferences[b].format,
                             heads |-> {s.preferences[b].clock}]],
     reconciliations |-> s.reconciliations]

=============================================================================
