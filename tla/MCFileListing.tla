--------------------------- MODULE MCFileListing ---------------------------
(* A folder d in the home directory h, which is in the root; both come and go. *)
EXTENDS FileListing, TLC

MCParent == ("/" :> "/") @@ ("h" :> "/") @@ ("d" :> "h")
MCNameOf == [x \in Dirs |-> x]
MCDisk == ("/" :> {"h"}) @@ ("h" :> {"d", "a"}) @@ ("d" :> {"a"})
MCVolatile == {<<"/", "h">>, <<"h", "d">>, <<"h", ".x">>, <<"d", "b">>}
MCPasses == ("" :> Names) @@ ("a" :> {"a"}) @@ ("b" :> {"b"})

\* By name all differ; by size some are equal.
MCKey == [name |-> (".x" :> 0) @@ ("a" :> 1) @@ ("b" :> 2) @@ ("d" :> 3) @@ ("h" :> 4) @@ ("/" :> 5),
          size |-> (".x" :> 1) @@ ("a" :> 0) @@ ("b" :> 0) @@ ("d" :> 0) @@ ("h" :> 0) @@ ("/" :> 0)]
=============================================================================
