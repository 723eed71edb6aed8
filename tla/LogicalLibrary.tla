--------------------------- MODULE LogicalLibrary ---------------------------
(***************************************************************************)
(* The logical books of one device and the mutations of them               *)
(* (browser-library-repository.ts), as operators on a library              *)
(*                                                                         *)
(*   records          the variants with a record and bytes in the database *)
(*   books            logical identifier |-> the variants it owns          *)
(*   preferences      logical identifier |-> [format, heads]               *)
(*   reconciliations  the membership conflicts, by identifier              *)
(*                                                                         *)
(* addVariant and associate compare what they read with the store inside   *)
(* their transaction, so a commit sees the library it read: they are       *)
(* operators on the current library.  The other mutations commit what they *)
(* computed from an earlier read: the edit e holds it in e.seen.           *)
(* An outcome is [lib, change]; the set of outcomes is empty when the      *)
(* transaction refuses.                                                    *)
(***************************************************************************)
EXTENDS LogicalBookState

Owners(books, v) == {b \in DOMAIN books : v \in books[b]}
FormatsOf(vs) == {Format(v) : v \in vs}
Visible(lib) == UNION {lib.books[b] : b \in DOMAIN lib.books}

\* importBook puts the singleton of v, over whatever has its identifier, unless
\* v has both a record and an owner.
Imported(lib, v) ==
    IF v \in lib.records /\ Owners(lib.books, v) # {} THEN lib
    ELSE [lib EXCEPT !.records = @ \cup {v},
                     !.books = (Singleton(v) :> {v}) @@ @]

\* storeSyncedBook: a variant without a record gets one, and its singleton.
Stored(lib, v) ==
    IF v \in lib.records THEN lib
    ELSE [lib EXCEPT !.records = @ \cup {v},
                     !.books = (Singleton(v) :> {v}) @@ @]

-----------------------------------------------------------------------------
(* The mutations that compare inside their transaction. *)

CanAdd(lib, b, v) ==
    /\ Owners(lib.books, v) = {}
    /\ Format(v) \notin FormatsOf(lib.books[b])
    /\ v \notin lib.records

Added(lib, b, v, id) ==
    LET updated == lib.books[b] \cup {v}
    IN [lib |-> [lib EXCEPT !.records = @ \cup {v}, !.books[b] = updated],
        change |-> [Change(id, {}, b :> updated, {}) EXCEPT !.upserts = {v}]]

CanAssociate(lib, b, source) ==
    /\ b # source
    /\ FormatsOf(lib.books[b]) \cap FormatsOf(lib.books[source]) = {}

Associated(lib, b, source, id) ==
    LET updated == lib.books[b] \cup lib.books[source]
    IN [lib |-> [lib EXCEPT !.books = (b :> updated) @@ Without(@, {source}),
                            !.preferences = Without(@, {source})],
        change |-> Change(id, {}, b :> updated, {source})]

-----------------------------------------------------------------------------
(* The mutations that commit what they read before. *)

\* The preference read, moved to the format that is left when the preferred one
\* leaves the book.  The change carries no preference effect.
Repointed(e, left) ==
    LET p == e.seen.preferences[e.book]
    IN IF p.format \in FormatsOf(left) THEN p
       ELSE [format |-> CHOOSE f \in FormatsOf(left) : TRUE, heads |-> {e.id}]

CanDetach(lib, b, v) ==
    /\ Cardinality(lib.books[b]) = 2
    /\ v \in lib.books[b] \cap lib.records

\* A detached variant gets its singleton identifier, unless that is taken.
DetachedId(seen, v, id) ==
    IF Singleton(v) \in DOMAIN seen.books THEN <<v, id>> ELSE Singleton(v)

\* The new book is added, which refuses an identifier stored meanwhile; a
\* preference, moved or not, is put back.
Detached(lib, e) ==
    LET left == e.seen.books[e.book] \ e.variants
        new == DetachedId(e.seen, CHOOSE v \in e.variants : TRUE, e.id)
        books == (e.book :> left) @@ (new :> e.variants)
    IN IF new \in DOMAIN lib.books THEN {}
       ELSE {[lib |-> [lib EXCEPT
                         !.books = books @@ @,
                         !.preferences = IF e.book \in DOMAIN e.seen.preferences
                                         THEN (e.book :> Repointed(e, left)) @@ @
                                         ELSE @],
              change |-> Change(e.id, {}, books, {})]}

Deleted(lib, e) ==
    LET left == e.seen.books[e.book] \ e.variants
        rest == [lib EXCEPT !.records = @ \ e.variants]
        moved == /\ e.book \in DOMAIN e.seen.preferences
                 /\ e.seen.preferences[e.book].format \notin FormatsOf(left)
        gone == [rest EXCEPT !.books = Without(@, {e.book}),
                             !.preferences = Without(@, {e.book})]
        kept == [rest EXCEPT !.books = (e.book :> left) @@ @,
                             !.preferences = IF moved
                                             THEN (e.book :> Repointed(e, left)) @@ @
                                             ELSE @]
    IN {[lib |-> IF left = {} THEN gone ELSE kept,
         change |-> [Change(e.id, {},
                            IF left = {} THEN <<>> ELSE e.book :> left,
                            IF left = {} THEN {e.book} ELSE {})
                       EXCEPT !.deletes = e.variants]]}

CanPrefer(lib, b, format) ==
    /\ format \in FormatsOf(lib.books[b])
    /\ \A p \in Lookup(lib.preferences, b) : p.format # format

\* The one mutation whose change names parents: the heads it read.
Preferred(lib, e) ==
    {[lib |-> [lib EXCEPT !.preferences =
                 (e.book :> [format |-> e.format, heads |-> {e.id}]) @@ @],
      change |-> [Change(e.id,
                         UNION {p.heads : p \in Lookup(e.seen.preferences, e.book)},
                         <<>>, {})
                    EXCEPT !.preferences = e.book :> e.format]]}

\* The membership a decision keeps, as a function from identifiers to variants.
Selected(r, e) ==
    CASE e.decision.kind = "keep-accepted" -> r.accepted
      [] e.decision.kind = "accept-rejected" ->
           e.decision.book :> r.rejected[e.decision.book]
      [] e.decision.kind = "make-standalone" ->
           LET v == e.decision.variant
               rest == [b \in DOMAIN r.accepted |-> r.accepted[b] \ {v}]
           IN (DetachedId(e.seen, v, e.id) :> {v})
                @@ Without(rest, {b \in DOMAIN rest : rest[b] = {}})

\* reconcileMembership takes the variants of the conflict out of every book, puts
\* the selection in, and rewrites the whole store with the outcome.
Reconciled(lib, e) ==
    LET r == e.seen.reconciliations[e.conflict]
        selected == Selected(r, e)
        stripped == [b \in DOMAIN e.seen.books |->
                       e.seen.books[b] \ e.conflict.variants]
        kept == Without(stripped, {b \in DOMAIN stripped : stripped[b] = {}})
        after == [b \in DOMAIN selected |->
                    selected[b] \cup UNION Lookup(kept, b)] @@ kept
        stale == {b \in DOMAIN e.seen.preferences :
                    e.seen.preferences[b].format
                       \notin FormatsOf(UNION Lookup(after, b))}
        valid == \A b \in DOMAIN selected :
                    /\ selected[b] \subseteq e.seen.records
                    /\ \A v, w \in after[b] : Format(v) = Format(w) => v = w
    IN IF ~valid THEN {}
       ELSE {[lib |-> [lib EXCEPT
                         !.books = after,
                         !.preferences = Without(@, stale),
                         !.reconciliations =
                            (e.conflict :> [r EXCEPT !.status = "resolved",
                                                     !.clock = e.id]) @@ @],
              change |-> [Change(e.id, {}, after,
                                 DOMAIN e.seen.books \ DOMAIN after)
                            EXCEPT !.resolves = {e.conflict}]]}

Committed(lib, e) ==
    CASE e.op = "detach" -> Detached(lib, e)
      [] e.op = "delete" -> Deleted(lib, e)
      [] e.op = "prefer" -> Preferred(lib, e)
      [] e.op = "reconcile" -> Reconciled(lib, e)

-----------------------------------------------------------------------------
(* What a synchronization run puts in place of the library. *)

\* replaceLogicalBookState refuses a view that owns a variant twice or names one
\* without a record.
CanReplace(lib, view) ==
    /\ \A b \in DOMAIN view.books : view.books[b] \subseteq lib.records
    /\ \A b1, b2 \in DOMAIN view.books :
          b1 # b2 => view.books[b1] \cap view.books[b2] = {}

Replaced(lib, view) ==
    [lib EXCEPT !.books = view.books,
                !.preferences = view.preferences,
                !.reconciliations = view.reconciliations]

=============================================================================
