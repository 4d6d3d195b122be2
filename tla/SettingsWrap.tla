---------------------------- MODULE SettingsWrap ----------------------------
(***************************************************************************)
(* headroom wrap, unwrap, recover, mcp install and mcp uninstall on one    *)
(* settings file of an agent (headroom-cli/src/wrap.rs).                   *)
(*                                                                         *)
(* One operator runs one command at a time, and any command may be killed  *)
(* between two calls of std::fs, or in the middle of an fs::write, which   *)
(* truncates the file and fills it afterwards.  recover --apply restores   *)
(* through the function unwrap uses, and is the same command here.         *)
(***************************************************************************)
EXTENDS Naturals

CONSTANTS
    Commands,      \* the commands the operator uses
    NoFile, NoPath,
    Blank,         \* the text of a truncated file
    MaxVersion     \* bound on the edits of the operator

ASSUME CommandAssumption ==
    Commands \subseteq {"wrap", "unwrap", "install", "uninstall"}
ASSUME VersionAssumption == MaxVersion \in Nat

VARIABLES
    files,     \* the settings file and its backup
    handle,    \* the file the command has open for writing
    op,        \* the command that is running
    step,      \* and the call it makes next
    original,  \* the bytes it has read
    version,   \* the number of the operator's latest edit
    madeBy,    \* history: the command that made the backup
    spoiled    \* history: has a command been killed, or run, where it loses an edit?

vars == <<files, handle, op, step, original, version, madeBy, spoiled>>

Paths == {"settings", "backup"}
FS == INSTANCE FileSystem WITH Actors <- {"command"}

(***************************************************************************)
(* The text of a file: the operator's edit it holds, and what headroom has *)
(* put into it.  A truncated file is Blank, which is not JSON.             *)
(***************************************************************************)
Settings == [version: Nat, proxied: BOOLEAN, server: BOOLEAN]
NoSettings == [version |-> 0, proxied |-> FALSE, server |-> FALSE]

ASSUME TextAssumption ==
    Blank \notin Settings /\ NoFile \notin Settings /\ Blank # NoFile
ASSUME PathAssumption == NoPath \notin Paths

Steps == {"idle", "read", "check", "backup", "fillBackup", "rewrite", "fill", "remove"}

TypeOK ==
    /\ files \in [Paths -> Settings \cup {Blank, NoFile}]
    /\ handle \in [{"command"} -> Paths \cup {NoPath}]
    /\ op \in Commands \cup {"none"}
    /\ step \in Steps
    /\ op = "none" <=> step = "idle"
    /\ original \in Settings \cup {Blank}
    /\ version \in Nat
    /\ madeBy \in Commands \cup {"none"}
    /\ madeBy = "none" <=> files["backup"] = NoFile
    /\ spoiled \in BOOLEAN

Init ==
    /\ version \in {0, 1}
    /\ files = [p \in Paths |-> IF p = "settings" /\ version = 1
                                THEN [NoSettings EXCEPT !.version = 1]
                                ELSE NoFile]
    /\ handle = [c \in {"command"} |-> NoPath]
    /\ op = "none" /\ step = "idle"
    /\ original = NoSettings
    /\ madeBy = "none"
    /\ spoiled = FALSE

-----------------------------------------------------------------------------
(***************************************************************************)
(* The operator edits the file, or writes it anew if it is gone or blank.  *)
(* Edits of a wrapped file are left out: unwrap is meant to discard them.  *)
(***************************************************************************)
Edit ==
    /\ op = "none" /\ version < MaxVersion /\ madeBy # "wrap"
    /\ version' = version + 1
    /\ LET old == IF files["settings"] \in Settings THEN files["settings"] ELSE NoSettings
       IN  files' = [files EXCEPT !["settings"] =
                        [old EXCEPT !.version = version + 1]]
    /\ UNCHANGED <<handle, op, step, original, madeBy, spoiled>>

Start(c) ==
    /\ op = "none"
    /\ op' = c /\ step' = "read"
    /\ UNCHANGED <<files, handle, original, version, madeBy, spoiled>>

Running(c, s) == op = c /\ step = s
Finish == op' = "none" /\ step' = "idle"
Go(s) == step' = s /\ UNCHANGED op

(***************************************************************************)
(* wrap_settings_file                                                      *)
(***************************************************************************)
\* fs::read(path), or the error of a file that is not there.
WrapRead ==
    /\ Running("wrap", "read")
    /\ IF FS!Exists("settings")
       THEN Go("check") /\ original' = files["settings"]
       ELSE Finish /\ UNCHANGED original
    /\ UNCHANGED <<files, handle, version, madeBy, spoiled>>

\* FAULT for WrapCheck: nobody looks whether there is a backup.
WrapCheckNothing ==
    /\ Running("wrap", "check")
    /\ IF original = Blank THEN Finish ELSE Go("backup")
    /\ UNCHANGED <<files, handle, original, version, madeBy, spoiled>>

\* if backup.exists() { bail! }, then the parse.
WrapCheck ==
    /\ Running("wrap", "check")
    /\ IF FS!Exists("backup") \/ original = Blank THEN Finish ELSE Go("backup")
    /\ UNCHANGED <<files, handle, original, version, madeBy, spoiled>>

\* fs::write(&backup, &original), in two halves, for wrap and for mcp install.
BackupCreate ==
    /\ step = "backup"
    /\ FS!Create("command", "backup", Blank)
    /\ madeBy' = op
    /\ Go("fillBackup")
    /\ UNCHANGED <<original, version, spoiled>>

BackupFill ==
    /\ step = "fillBackup"
    /\ FS!WriteAndClose("command", original)
    /\ Go("rewrite")
    /\ UNCHANGED <<original, version, madeBy, spoiled>>

\* What the command writes into the settings file.
Rendered ==
    CASE op = "wrap" -> [original EXCEPT !.proxied = TRUE]
      [] op = "install" -> [original EXCEPT !.server = TRUE]
      [] op = "uninstall" -> [original EXCEPT !.server = FALSE]
      [] op = "unwrap" -> original

\* fs::write(path, ..), in two halves, for every command.
RewriteCreate ==
    /\ step = "rewrite"
    /\ FS!Create("command", "settings", Blank)
    /\ Go("fill")
    /\ UNCHANGED <<original, version, madeBy, spoiled>>

RewriteFill ==
    /\ step = "fill"
    /\ FS!WriteAndClose("command", Rendered)
    /\ IF op = "unwrap" THEN Go("remove") ELSE Finish
    /\ UNCHANGED <<original, version, madeBy, spoiled>>

(***************************************************************************)
(* unwrap_settings_file                                                    *)
(***************************************************************************)
\* FAULT for UnwrapRead: the backup is removed as soon as it has been read.
UnwrapReadAndRemove ==
    /\ Running("unwrap", "read")
    /\ IF FS!Exists("backup")
       THEN Go("rewrite") /\ original' = files["backup"] /\ FS!Unlink("backup") /\ madeBy' = "none"
       ELSE Finish /\ UNCHANGED <<original, files, handle, madeBy>>
    /\ spoiled' = (spoiled \/ madeBy = "install")
    /\ UNCHANGED version

\* No backup: Ok(false).  Otherwise it is read, whoever made it.
UnwrapRead ==
    /\ Running("unwrap", "read")
    /\ IF FS!Exists("backup")
       THEN Go("rewrite") /\ original' = files["backup"]
       ELSE Finish /\ UNCHANGED original
    /\ spoiled' = (spoiled \/ madeBy = "install")
    /\ UNCHANGED <<files, handle, version, madeBy>>

\* fs::remove_file(&backup)
UnwrapRemove ==
    /\ Running("unwrap", "remove")
    /\ FS!Unlink("backup")
    /\ madeBy' = "none"
    /\ Finish
    /\ UNCHANGED <<original, version, spoiled>>

(***************************************************************************)
(* install_mcp_server, uninstall_mcp_server                                *)
(***************************************************************************)
\* A file that does not exist is read as {}; one that is not JSON is an error.
InstallRead ==
    /\ Running("install", "read")
    /\ original' = IF FS!Exists("settings") THEN files["settings"] ELSE NoSettings
    /\ IF original' = Blank \/ original'.server THEN Finish
       ELSE IF FS!Exists("settings") /\ ~FS!Exists("backup") THEN Go("backup")
       ELSE Go("rewrite")
    /\ UNCHANGED <<files, handle, version, madeBy, spoiled>>

\* FAULT for UninstallRead: the backup is restored, as unwrap does.
UninstallFromBackup ==
    /\ Running("uninstall", "read")
    /\ IF files["backup"] \in Settings
       THEN Go("rewrite") /\ original' = files["backup"]
       ELSE Finish /\ UNCHANGED original
    /\ UNCHANGED <<files, handle, version, madeBy, spoiled>>

\* Nothing to remove: Ok(false).  Otherwise this file is edited, and not the backup restored.
UninstallRead ==
    /\ Running("uninstall", "read")
    /\ IF files["settings"] \in Settings /\ files["settings"].server
       THEN Go("rewrite") /\ original' = files["settings"]
       ELSE Finish /\ UNCHANGED original
    /\ UNCHANGED <<files, handle, version, madeBy, spoiled>>

(***************************************************************************)
(* The command is killed.  It loses an edit if it leaves half a backup, or *)
(* half a settings file of which there is no backup of its own.            *)
(***************************************************************************)
Killed ==
    /\ op # "none"
    /\ FS!Close("command")
    /\ Finish
    /\ spoiled' = (spoiled \/ step = "fillBackup"
                           \/ (step = "fill" /\ op \in {"install", "uninstall"}))
    /\ UNCHANGED <<original, version, madeBy>>

Next ==
    \/ Edit \/ Killed
    \/ \E c \in Commands: Start(c)
    \/ WrapRead \/ WrapCheck \/ BackupCreate \/ BackupFill
    \/ RewriteCreate \/ RewriteFill
    \/ UnwrapRead \/ UnwrapRemove
    \/ InstallRead \/ UninstallRead

Spec == Init /\ [][Next]_vars

-----------------------------------------------------------------------------
Holds(text) == text \in Settings /\ text.version = version

Unwrapped(text) == Holds(text) /\ ~text.proxied

\* In a file, or in the memory of the command that is about to write it.
Kept ==
    \/ version = 0
    \/ Holds(files["settings"]) \/ Holds(files["backup"])
    \/ step \in {"fillBackup", "fill"} /\ Holds(original)

(***************************************************************************)
(* What the operator wrote last is never lost: whichever commands run, in  *)
(* whatever order, and wherever they are killed, but for the places where  *)
(* spoiled is set, one of the two files still has it.                      *)
(***************************************************************************)
EditKept == spoiled \/ Kept

(***************************************************************************)
(* A rewrite that cannot be undone is worse than one that never happened   *)
(* (wrap.rs:194): while the settings file is wrapped, or truncated on the  *)
(* way there or back, the latest edit stands unwrapped in one of the two.  *)
(***************************************************************************)
WrapCanBeUndone ==
    ~spoiled /\ madeBy = "wrap" /\ step # "fillBackup"
        => Unwrapped(files["settings"]) \/ Unwrapped(files["backup"])

(***************************************************************************)
(* Uninstalling does not delete what the operator added since installing   *)
(* (wrap.rs:717): it leaves the edit of the settings file what it was.     *)
(***************************************************************************)
UninstallKeepsEdits ==
    [][Running("uninstall", "fill") /\ RewriteFill /\ ~spoiled
           => files'["settings"].version = version]_vars

-----------------------------------------------------------------------------
(***************************************************************************)
(* The inductive invariant behind the three.  Where a command is says which*)
(* file it has open and what it has in hand; that holds in every state.    *)
(***************************************************************************)
InHand ==
    /\ handle["command"] = IF step = "fillBackup" THEN "backup"
                           ELSE IF step = "fill" THEN "settings" ELSE NoPath
    /\ step = "check" => op = "wrap"
    /\ step \in {"backup", "fillBackup"} => op \in {"wrap", "install"}
    /\ step = "remove" => op = "unwrap"
    /\ madeBy \in {"none", "wrap", "install"}
    /\ step = "backup" => madeBy = "none"
    /\ step = "fillBackup" => madeBy = op
    /\ step \in {"backup", "fillBackup", "rewrite", "fill"} /\ op # "unwrap"
          => original \in Settings

\* Whole settings are the latest edit, wrapped only if there is a backup made by wrap.
SettingsLatest ==
    /\ files["settings"] \in Settings =>
          /\ files["settings"].version = version
          /\ files["settings"].proxied => madeBy = "wrap"
    /\ files["settings"] = Blank => step = "fill" \/ madeBy = "wrap"
    /\ files["settings"] = NoFile => version = 0

\* So is what a command has read of them, which wrap only goes on with unwrapped.
OriginalLatest ==
    op # "unwrap" /\ step \notin {"idle", "read"} /\ original \in Settings =>
        /\ original.version = version
        /\ original.proxied => madeBy = "wrap" /\ (op = "wrap" => step = "check")

\* The backup of a wrap is the latest edit from when it is whole until it is removed.
BackupLatest ==
    /\ madeBy = "wrap" /\ step # "fillBackup" => Unwrapped(files["backup"])
    /\ op = "wrap" /\ step \in {"rewrite", "fill"} => madeBy = "wrap"
    /\ op = "unwrap" /\ step \in {"rewrite", "fill"} =>
          madeBy = "wrap" /\ original = files["backup"]
    /\ step = "remove" => madeBy = "wrap" /\ files["settings"] = files["backup"]

IInv ==
    /\ TypeOK /\ InHand
    /\ spoiled \/ (SettingsLatest /\ OriginalLatest /\ BackupLatest)

(***************************************************************************)
(* recover brings back the settings "a killed wrap left behind", with the  *)
(* byte-exactness of unwrap (commands.rs:1701, 1741).  It fails: a wrap    *)
(* killed while it writes the backup leaves the settings whole and half a  *)
(* backup, which is then restored over them and deleted.                   *)
(***************************************************************************)
KilledWrapLosesNothing == Kept
=============================================================================
