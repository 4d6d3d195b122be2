----------------------------- MODULE FileSystem -----------------------------
(***************************************************************************)
(* External: the directory of files several processes share, as far as     *)
(* std::fs is used on it by FileCcrStore, SavingsLedger and headroom wrap. *)
(*                                                                         *)
(* A path names at most one file and a file has at most one name, so an    *)
(* open handle is identified by the path its file has NOW: a rename moves  *)
(* the handles on the file along, and a file that is unlinked or replaced  *)
(* while it is open keeps accepting writes that nobody will read.          *)
(***************************************************************************)
CONSTANTS
    Paths,
    Actors,    \* threads of any process that opens files
    NoFile,    \* the content of a path that names no file
    NoPath     \* the place of a handle that is closed, or whose file has no name left

VARIABLES
    files,     \* files[p]: the content of the file at p
    handle     \* handle[a]: where the file is that a has open for writing

Exists(p) == files[p] # NoFile

\* File::create: truncates the file at p when there is one.
Create(a, p, content) ==
    /\ files' = [files EXCEPT ![p] = content]
    /\ handle' = [handle EXCEPT ![a] = p]

\* write_all, and the handle goes out of scope.
WriteAndClose(a, content) ==
    /\ files' = IF handle[a] \in Paths
                THEN [files EXCEPT ![handle[a]] = content]
                ELSE files
    /\ handle' = [handle EXCEPT ![a] = NoPath]

\* The handles after the file at p has moved to q, which may be NoPath.
HandlesMoved(p, q) ==
    [a \in Actors |-> CASE handle[a] = p -> q
                        [] handle[a] = q /\ p # q -> NoPath
                        [] OTHER -> handle[a]]

\* rename: atomically replaces what is at q.
Rename(p, q) ==
    /\ Exists(p)
    /\ files' = [files EXCEPT ![q] = files[p], ![p] = NoFile]
    /\ handle' = HandlesMoved(p, q)

\* remove_file, its error ignored when the file is already gone.
Unlink(p) ==
    /\ files' = [files EXCEPT ![p] = NoFile]
    /\ handle' = HandlesMoved(p, NoPath)

\* The process of a dies: the kernel closes its files as they are.
Close(a) ==
    /\ handle' = [handle EXCEPT ![a] = NoPath]
    /\ UNCHANGED files
=============================================================================
