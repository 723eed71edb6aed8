------------------------- MODULE MCLogicalBookSync -------------------------
(***************************************************************************)
(* LogicalBookSync for TLC: one EPUB and one PDF, one or two devices.      *)
(***************************************************************************)
EXTENDS LogicalBookSync

CONSTANTS a, b

Epub == <<"epub", 1>>
Pdf == <<"pdf", 2>>
MCVariants == {Epub, Pdf}

\* Device identifiers are random, like everything in a change identifier: one
\* device sorts before 'bootstrap', the other after it.
MCDeviceRank == [d \in Devices |-> IF d = a THEN 2 ELSE 9]

LegacyImport ==
    [Change(<<1, 1>>, {}, Singleton(Epub) :> {Epub}, {}) EXCEPT !.upserts = {Epub}]

AllOperations == {"import", "add", "associate", "detach", "delete", "prefer",
                  "reconcile"}

\* The user edits on device a; device b synchronizes, and may delete.
EditsOnA == [d \in Devices |-> IF d = a THEN AllOperations ELSE {}]
DeletesOnB == [d \in Devices |-> IF d = a THEN AllOperations ELSE {"delete"}]
Preferences == [d \in Devices |-> {"prefer"}]
Associations == [d \in Devices |-> {"associate"}]
Reimports == [d \in Devices |-> {"import", "delete"}]
Detachments == [d \in Devices |-> {"associate", "detach"}]

Together == [EmptyLibrary EXCEPT !.records = MCVariants,
                                 !.books = Singleton(Epub) :> MCVariants]
Apart == [EmptyLibrary EXCEPT !.records = MCVariants,
                              !.books = [x \in {Singleton(v) : v \in MCVariants}
                                           |-> {x[1]}]]

OneTogether == {[libs |-> a :> Together, legacy |-> {}, changes |-> 2, failures |-> 0]}
OneApart == {[libs |-> a :> Apart, legacy |-> {}, changes |-> 2, failures |-> 0]}

\* One device edits at length; two devices meet, with and without a change an
\* older version left.
Meetings ==
    OneApart \cup OneTogether \cup
    {[libs |-> (a :> Together) @@ (b :> EmptyLibrary), legacy |-> {},
      changes |-> 1, failures |-> 1],
     [libs |-> (a :> EmptyLibrary) @@ (b :> EmptyLibrary), legacy |-> {LegacyImport},
      changes |-> 1, failures |-> 1]}

BothTogether == {[libs |-> [d \in Devices |-> Together], legacy |-> {},
                  changes |-> 2, failures |-> 1]}

=============================================================================
