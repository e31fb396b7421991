--------------------------- MODULE DirectoryView ---------------------------
(***************************************************************************)
(* What a directory view promises, whatever runs behind it.  A question is *)
(* a directory together with the settings of the view.  While the view is  *)
(* busy it keeps the previous answer; the answer it then shows is a        *)
(* listing that the directory had at some moment since the LAST question,  *)
(* seen through the settings of that question.  The Files application      *)
(* implements it (module FileListing).                                     *)
(***************************************************************************)
CONSTANTS
    Dirs, Names,
    Settings,               \* what a question selects by
    Visible(_, _)           \* Visible(s, n): settings s let entry n through

VARIABLES
    disk,                   \* [Dirs -> SUBSET Names]
    asked,                  \* the last question: directory and settings
    since,                  \* listings the directory had since then
    shown,                  \* entries the view shows, with their directory
    busy

viewVars == <<disk, asked, since, shown, busy>>

Init ==
    /\ disk \in [Dirs -> SUBSET Names]
    /\ asked \in [dir : Dirs, settings : Settings]
    /\ since = {disk[asked.dir]}
    /\ shown = {} /\ busy = TRUE

Ask ==
    /\ asked' \in [dir : Dirs, settings : Settings]
    /\ since' = {disk[asked'.dir]}
    /\ busy' = TRUE
    /\ UNCHANGED <<disk, shown>>

\* Anybody changes the disk.
Change ==
    /\ disk' \in [Dirs -> SUBSET Names]
    /\ since' = since \cup {disk'[asked.dir]}
    /\ UNCHANGED <<asked, shown, busy>>

Answer ==
    /\ busy /\ busy' = FALSE
    /\ \E listing \in since :
          shown' = {asked.dir} \X {n \in listing : Visible(asked.settings, n)}
    /\ UNCHANGED <<disk, asked, since>>

Next == Ask \/ Change \/ Answer

Safety == Init /\ [][Next]_viewVars

\* The questions pause now and then, and the view then comes to rest.
Spec == Safety /\ []<>(busy = FALSE)
=============================================================================
