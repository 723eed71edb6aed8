----------------------------- MODULE MCGitHubStore -----------------------------
(***************************************************************************)
(* Instances of GitHubStore: one document and one publication, every kind  *)
(* of call on them with right and wrong revisions.                         *)
(***************************************************************************)
EXTENDS GitHubStore

CONSTANTS doc, book, a, b, x, y

MCPaths == {doc, book}

MCRequests ==
       {[op |-> "write", path |-> doc, expected |-> e, content |-> n] : e \in {Absent, a}, n \in {a, b}}
  \cup {[op |-> "upload", path |-> book, content |-> n] : n \in {x, y}}
  \cup {[op |-> o, path |-> p, expected |-> e] :
            o \in {"delete", "entry"}, <<p, e>> \in {<<doc, a>>, <<doc, Unchecked>>, <<book, x>>}}
  \cup {[op |-> "entries", wanted |-> w] :
            w \in {[p \in {doc} |-> {a}], [p \in {doc, book} |-> IF p = doc THEN {b} ELSE {x}],
                   [p \in {doc} |-> {a, b}]}}
  \cup {[op |-> "read", path |-> doc], [op |-> "list"], [op |-> "download", path |-> book]}
================================================================================
