-------------------------- MODULE BackupInstances --------------------------
(* Libraries and synchronised views for LibraryBackup: two EPUBs and a PDF. *)
EXTENDS LogicalLibrary

e1 == <<"epub", 1>>
e2 == <<"epub", 2>>
p == <<"pdf", 3>>
AllVariants == {e1, e2, p}

(* Every variant imported on one device, and two devices that put the PDF  *)
(* with different EPUBs without knowing of each other.                     *)
Bootstrap(v, n) == [Change(<<1, n>>, {}, Singleton(v) :> {v}, {}) EXCEPT !.upserts = {v}]
Imports == {Bootstrap(e1, 1), Bootstrap(e2, 2), Bootstrap(p, 3)}
PairOne == Change(<<2, 1>>, {<<1, 1>>, <<1, 3>>}, Singleton(e1) :> {e1, p}, {Singleton(p)})
PairTwo == Change(<<3, 1>>, {<<1, 2>>, <<1, 3>>}, Singleton(e2) :> {e2, p}, {Singleton(p)})
Competing == View(MergeChanges(EmptyState, Imports \cup {PairOne, PairTwo}))

(* A device prefers the PDF while another deletes it. *)
Prefer == [Change(<<4, 1>>, {}, <<>>, {}) EXCEPT !.preferences = Singleton(e1) :> "pdf"]
DeletePdf == [Change(<<5, 1>>, {<<2, 1>>}, Singleton(e1) :> {e1}, {}) EXCEPT !.deletes = {p}]
Outdated == View(MergeChanges(EmptyState, (Imports \ {Bootstrap(e2, 2)}) \cup {PairOne, Prefer, DeletePdf}))

Pair == {e1, p}
Paired == View(MergeChanges(EmptyState, (Imports \ {Bootstrap(e2, 2)}) \cup {PairOne, Prefer}))
PairViews == {Paired, Outdated}
AllViews == {Competing}

Holding(vs) == [records |-> vs, books |-> [b \in {Singleton(v) : v \in vs} |-> {b[1]}],
                preferences |-> <<>>, reconciliations |-> <<>>]
PairStarts == {Holding({}), Holding(Pair), Replaced(Holding(Pair), Paired)}
AllStarts == {Holding(AllVariants)}
=============================================================================
