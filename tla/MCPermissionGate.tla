--------------------------- MODULE MCPermissionGate ---------------------------
(* An instance of PermissionGate for TLC: the requests callers make. *)
EXTENDS PermissionGate

CONSTANTS p1, p2, r1, r2

ASSUME InstanceAssumption == {p1, p2} \subseteq Paths /\ Requests = {r1, r2}

Ask3(a, x, d) == [action |-> a, resource |-> x, destination |-> d]

\* One request of each kind of effect and one that is refused at once.
MCAsked ==
    { Ask3("filesystem.move", p1, p2), Ask3("desktop.wallpaper.change", p1, NoParam),
      Ask3("unsupported", NoParam, NoParam) }

\* A bound: of two requests that are served together, r1 has the kind that
\* comes first here.  The requests are interchangeable, so every two kinds
\* still overlap in every interleaving.
Rank == [a \in Actions \cup {"unsupported"} |->
           CASE a = "filesystem.move" -> 1 [] a = "desktop.wallpaper.change" -> 2 [] OTHER -> 3]

InOrder ==
    pc'[r1] # "idle" /\ pc'[r2] # "idle" => Rank[req'[r1].action] <= Rank[req'[r2].action]
=============================================================================
