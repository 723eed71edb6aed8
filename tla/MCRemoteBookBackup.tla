------------------------- MODULE MCRemoteBookBackup -------------------------
(* Instances of RemoteBookBackup for TLC. *)
EXTENDS RemoteBookBackup

MCPaths == 1..2
Everywhere == [p \in MCPaths |-> 1]
Somewhere == [p \in MCPaths |-> IF p = 1 THEN 1 ELSE None]

\* A removed edition, an unowned one and one that was never synchronized.
Begin(cleaners, importers, manifests, library, more, faults) ==
    [cleaners |-> cleaners, importers |-> importers, manifests |-> manifests,
     library |-> library, imports |-> more, failures |-> faults]

\* Two devices clean up at once; one imports, fails or restarts by itself; one
\* cleans up while another imports.
Together ==
    {Begin(Devices, {}, Everywhere, "absent", 0, 0),
     Begin(Devices, {}, Somewhere, "removed", 0, 0)}

One == CHOOSE d \in Devices : TRUE

Alone ==
    {Begin({One}, {One}, Everywhere, library, 1, 1) :
        library \in {"removed", "absent", "none"}}

Against ==
    {Begin({One}, Devices \ {One}, Somewhere, library, 1, 0) :
        library \in {"removed", "absent", "none"}}

MCBeginnings == Together \cup Alone \cup Against
=============================================================================
