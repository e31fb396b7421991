-------------------------- MODULE MCFileOperations --------------------------
(* Two devices, a folder with a file on each, one with a hidden file, the   *)
(* other with a link to it, and calls that meet there.                     *)
EXTENDS FileOperations, TLC

H == <<"home", 0>>
U == <<"usb", 0>>
d == <<"d", 0>>
f == <<"f", 0>>
g == <<"g", 0>>
h == <<"h", 0>>
MCTrash == <<H, <<"trash", 0>>>>

x == <<"x", 0>>
l == <<"l", 0>>

MCTree ==
    (<<H>> :> Dir) @@ (MCTrash :> Dir) @@ (<<H, d>> :> Dir) @@ (<<H, d, f>> :> 2)
    @@ (<<H, g>> :> 3) @@ (<<U>> :> Dir) @@ (<<U, d>> :> Dir) @@ (<<U, d, h>> :> 4)
    @@ (<<H, d, x>> :> 5) @@ (<<U, d, l>> :> 9)
MCLinkTo == 9 :> <<H, d>>
MCHidden == {x}

\* Between the devices, into an existing folder, into itself, the same file
\* twice, to the trash and for good; the trash itself and the folder it is in.
MCRequests ==
    { <<"copy", <<H, d>>, <<H, d>>>>, <<"copy", <<H, d>>, <<U>>>>,
      <<"move", <<H, d>>, <<U>>>>, <<"move", <<H, g>>, <<U, d>>>>,
      <<"move", <<U, d>>, <<H>>>>,
      <<"trash", <<U, d>>, <<>>>>, <<"trash", <<H, g>>, <<>>>>,
      <<"delete", <<H, d>>, <<>>>>, <<"duplicate", <<H, g>>, <<>>>>,
      <<"rename", <<H, g>>, <<H, h>>>>, <<"copy", <<U, d, h>>, <<H>>>>, <<"createFolder", <<U, d, d>>, <<>>>>,
      <<"createFile", <<H, g>>, <<>>>>,
      <<"trash", MCTrash, <<>>>>, <<"delete", MCTrash, <<>>>>, <<"trash", <<H>>, <<>>>> }
=============================================================================
