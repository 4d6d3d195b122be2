------------------------- MODULE SettingsWrapProofs -------------------------
(***************************************************************************)
(* Proofs about SettingsWrap, for any of the four commands, any number of  *)
(* edits and any number of kills.                                          *)
(***************************************************************************)
EXTENDS SettingsWrap, TLAPS

NoSpoil == SettingsLatest /\ OriginalLatest /\ BackupLatest

LEMMA NoSettingsIsSettings ==
  NoSettings \in Settings /\ NoSettings.version = 0 /\ ~NoSettings.proxied
  BY DEF NoSettings, Settings

\* An update of a text changes the field it names.
LEMMA VersionUpdated ==
  ASSUME NEW text \in Settings, NEW v \in Nat
  PROVE  /\ [text EXCEPT !.version = v] \in Settings
         /\ [text EXCEPT !.version = v].version = v
         /\ [text EXCEPT !.version = v].proxied = text.proxied
  BY DEF Settings

LEMMA ProxiedUpdated ==
  ASSUME NEW text \in Settings
  PROVE  /\ [text EXCEPT !.proxied = TRUE] \in Settings
         /\ [text EXCEPT !.proxied = TRUE].version = text.version
  BY DEF Settings

LEMMA ServerUpdated ==
  ASSUME NEW text \in Settings, NEW b \in BOOLEAN
  PROVE  /\ [text EXCEPT !.server = b] \in Settings
         /\ [text EXCEPT !.server = b].version = text.version
         /\ [text EXCEPT !.server = b].proxied = text.proxied
  BY DEF Settings

\* Every command writes the edit it has read, and only wrap adds the proxy to it.
LEMMA RenderedKeepsEdit ==
  ASSUME TypeOK, op # "none"
  PROVE  /\ op = "unwrap" => Rendered = original
         /\ original \in Settings =>
               /\ Rendered \in Settings
               /\ Rendered.version = original.version
               /\ op \in {"install", "uninstall"} => Rendered.proxied = original.proxied
  <1>1. op \in {"wrap", "unwrap", "install", "uninstall"}
    BY CommandAssumption DEF TypeOK
  <1>2. CASE op = "wrap"
    BY <1>2, ProxiedUpdated DEF Rendered
  <1>3. CASE op = "unwrap"
    BY <1>3 DEF Rendered
  <1>4. CASE op = "install"
    BY <1>4, ServerUpdated DEF Rendered
  <1>5. CASE op = "uninstall"
    BY <1>5, ServerUpdated DEF Rendered
  <1>6. QED
    BY <1>1, <1>2, <1>3, <1>4, <1>5

\* What the operator saves is whole, is the latest edit, and is wrapped only if it was.
LEMMA EditIsLatest ==
  ASSUME TypeOK, Edit
  PROVE  /\ files' = [files EXCEPT !["settings"] = files'["settings"]]
         /\ files'["settings"] \in Settings
         /\ files'["settings"].version = version'
         /\ files'["settings"].proxied =>
               files["settings"] \in Settings /\ files["settings"].proxied
         /\ version' \in Nat
  <1> DEFINE old == IF files["settings"] \in Settings THEN files["settings"] ELSE NoSettings
  <1>1. old \in Settings
    BY NoSettingsIsSettings
  <1>2. version' = version + 1 /\ version' \in Nat
    BY DEF Edit, TypeOK
  <1>3. files' = [files EXCEPT !["settings"] = [old EXCEPT !.version = version']]
    BY <1>2 DEF Edit
  <1>4. files'["settings"] = [old EXCEPT !.version = version']
    BY <1>3 DEF TypeOK, Paths
  <1>5. old.proxied => files["settings"] \in Settings /\ files["settings"].proxied
    BY NoSettingsIsSettings
  <1> HIDE DEF old
  <1>6. /\ files'["settings"] \in Settings
        /\ files'["settings"].version = version'
        /\ files'["settings"].proxied = old.proxied
    BY <1>1, <1>2, <1>4, VersionUpdated
  <1>7. QED
    BY <1>2, <1>3, <1>4, <1>5, <1>6

-----------------------------------------------------------------------------
(***************************************************************************)
(* Types, and what a command has in hand                                   *)
(***************************************************************************)
LEMMA NextInHand ==
  ASSUME TypeOK, InHand, [Next]_vars
  PROVE  TypeOK' /\ InHand'
  <1> USE CommandAssumption, PathAssumption, TextAssumption
      DEF TypeOK, InHand, Running, Go, Finish, Steps, FS!Exists, Paths
  <1>1. CASE Edit
    <2>1. files' \in [Paths -> Settings \cup {Blank, NoFile}] /\ files'["backup"] = files["backup"]
      BY <1>1, EditIsLatest
    <2>2. version' \in Nat
      BY <1>1, EditIsLatest
    <2>3. QED
      BY <1>1, <2>1, <2>2 DEF Edit
  <1>2. CASE Killed
    BY <1>2 DEF Killed, FS!Close
  <1>3. ASSUME NEW c \in Commands, Start(c)
        PROVE  TypeOK' /\ InHand'
    BY <1>3 DEF Start
  <1>4. CASE WrapRead
    BY <1>4 DEF WrapRead
  <1>5. CASE WrapCheck
    BY <1>5 DEF WrapCheck
  <1>6. CASE BackupCreate
    BY <1>6 DEF BackupCreate, FS!Create
  <1>7. CASE BackupFill
    BY <1>7 DEF BackupFill, FS!WriteAndClose
  <1>8. CASE RewriteCreate
    BY <1>8 DEF RewriteCreate, FS!Create
  <1>9. CASE RewriteFill
    <2>1. Rendered \in Settings \cup {Blank}
      BY <1>9, RenderedKeepsEdit DEF RewriteFill
    <2>2. QED
      BY <1>9, <2>1 DEF RewriteFill, FS!WriteAndClose
  <1>10. CASE UnwrapRead
    BY <1>10 DEF UnwrapRead
  <1>11. CASE UnwrapRemove
    <2>1. handle' = handle
      BY <1>11 DEF UnwrapRemove, FS!Unlink, FS!HandlesMoved
    <2>2. QED
      BY <1>11, <2>1 DEF UnwrapRemove, FS!Unlink
  <1>12. CASE InstallRead
    BY <1>12, NoSettingsIsSettings DEF InstallRead
  <1>13. CASE UninstallRead
    BY <1>13 DEF UninstallRead
  <1>14. CASE UNCHANGED vars
    BY <1>14 DEF vars
  <1>15. QED
    BY <1>1, <1>2, <1>3, <1>4, <1>5, <1>6, <1>7, <1>8, <1>9, <1>10, <1>11, <1>12, <1>13, <1>14
       DEF Next

(***************************************************************************)
(* Where the latest edit stands                                            *)
(***************************************************************************)
LEMMA NextNoSpoil ==
  ASSUME TypeOK, InHand, NoSpoil, [Next]_vars, ~spoiled'
  PROVE  NoSpoil'
  <1> USE CommandAssumption, PathAssumption, TextAssumption
      DEF TypeOK, InHand, Running, Go, Finish, Steps, FS!Exists, Paths
  <1> USE DEF NoSpoil, SettingsLatest, OriginalLatest, BackupLatest, Unwrapped, Holds
  <1>1. CASE Edit
    <2>1. /\ files'["settings"] \in Settings
          /\ files'["settings"].version = version'
          /\ ~files'["settings"].proxied
      BY <1>1, EditIsLatest DEF Edit
    <2>2. QED
      BY <1>1, <2>1 DEF Edit
  <1>2. CASE Killed
    BY <1>2 DEF Killed, FS!Close
  <1>3. ASSUME NEW c \in Commands, Start(c)
        PROVE  NoSpoil'
    BY <1>3 DEF Start
  <1>4. CASE WrapRead
    BY <1>4 DEF WrapRead
  <1>5. CASE WrapCheck
    BY <1>5 DEF WrapCheck
  <1>6. CASE BackupCreate
    BY <1>6 DEF BackupCreate, FS!Create
  <1>7. CASE BackupFill
    BY <1>7 DEF BackupFill, FS!WriteAndClose
  <1>8. CASE RewriteCreate
    BY <1>8 DEF RewriteCreate, FS!Create
  <1>9. CASE RewriteFill
    <2>1. /\ files' = [files EXCEPT !["settings"] = Rendered]
          /\ UNCHANGED <<original, version, madeBy, spoiled>>
          /\ op # "none" /\ step = "fill"
      BY <1>9 DEF RewriteFill, FS!WriteAndClose
    <2>2. CASE op = "unwrap"
      <3>1. /\ madeBy = "wrap" /\ original = files["backup"]
            /\ Unwrapped(files["backup"]) /\ Rendered = original
        BY <2>1, <2>2, RenderedKeepsEdit
      <3>2. op' = op /\ step' = "remove"
        BY <1>9, <2>2 DEF RewriteFill
      <3>3. QED
        BY <2>1, <2>2, <3>1, <3>2
    <2>3. CASE op # "unwrap"
      <3>1. original \in Settings /\ original.version = version
        BY <2>1, <2>3
      <3>2. Rendered \in Settings /\ Rendered.version = version
        BY <2>1, <3>1, RenderedKeepsEdit
      <3>3. Rendered.proxied => madeBy = "wrap"
        BY <2>1, <2>3, <3>1, RenderedKeepsEdit
      <3>4. op' = "none" /\ step' = "idle"
        BY <1>9, <2>3 DEF RewriteFill
      <3>5. QED
        BY <2>1, <3>2, <3>3, <3>4
    <2>4. QED
      BY <2>2, <2>3
  <1>10. CASE UnwrapRead
    BY <1>10 DEF UnwrapRead
  <1>11. CASE UnwrapRemove
    BY <1>11 DEF UnwrapRemove, FS!Unlink
  <1>12. CASE InstallRead
    BY <1>12, NoSettingsIsSettings DEF InstallRead
  <1>13. CASE UninstallRead
    BY <1>13 DEF UninstallRead
  <1>14. CASE UNCHANGED vars
    BY <1>14 DEF vars
  <1>15. QED
    BY <1>1, <1>2, <1>3, <1>4, <1>5, <1>6, <1>7, <1>8, <1>9, <1>10, <1>11, <1>12, <1>13, <1>14
       DEF Next

-----------------------------------------------------------------------------
\* The inductive invariant holds in every reachable state.
THEOREM WrapInvariant == Spec => []IInv
  <1>1. Init => IInv
    <2> SUFFICES ASSUME Init
                 PROVE  IInv
      OBVIOUS
    <2>1. /\ files["backup"] = NoFile
          /\ \/ files["settings"] = NoFile /\ version = 0
             \/ files["settings"] = [NoSettings EXCEPT !.version = 1] /\ version = 1
      <3>1. version = 0 \/ version = 1
        BY DEF Init
      <3>2. files["backup"] = NoFile
        BY DEF Init, Paths
      <3>3. version = 0 => files["settings"] = NoFile
        BY DEF Init, Paths
      <3>4. version = 1 => files["settings"] = [NoSettings EXCEPT !.version = 1]
        BY DEF Init, Paths
      <3>5. QED
        BY <3>1, <3>2, <3>3, <3>4
    <2>2. /\ [NoSettings EXCEPT !.version = 1] \in Settings
          /\ [NoSettings EXCEPT !.version = 1].version = 1
          /\ ~[NoSettings EXCEPT !.version = 1].proxied
      BY NoSettingsIsSettings, VersionUpdated
    <2>3. files \in [Paths -> Settings \cup {Blank, NoFile}]
      BY <2>1, <2>2 DEF Init, Paths
    <2>4. TypeOK
      <3>1. version \in Nat
        BY <2>1
      <3>2. op = "none" /\ step = "idle" /\ madeBy = "none" /\ original \in Settings
        BY NoSettingsIsSettings DEF Init
      <3>3. handle \in [{"command"} -> Paths \cup {NoPath}]
        BY DEF Init
      <3>4. spoiled \in BOOLEAN
        BY DEF Init
      <3>5. QED
        BY <2>1, <2>3, <3>1, <3>2, <3>3, <3>4 DEF TypeOK, Steps
    <2>5. InHand
      BY DEF Init, InHand
    <2>6. SettingsLatest /\ OriginalLatest /\ BackupLatest
      BY <2>1, <2>2, TextAssumption DEF Init, SettingsLatest, OriginalLatest, BackupLatest
    <2>7. QED
      BY <2>4, <2>5, <2>6 DEF IInv
  <1>2. IInv /\ [Next]_vars => IInv'
    <2> SUFFICES ASSUME IInv, [Next]_vars
                 PROVE  IInv'
      OBVIOUS
    <2>1. TypeOK' /\ InHand'
      BY NextInHand DEF IInv
    <2>2. spoiled => spoiled'
      BY DEF IInv, Next, vars, Edit, Killed, Start, WrapRead, WrapCheck, BackupCreate,
             BackupFill, RewriteCreate, RewriteFill, UnwrapRead, UnwrapRemove,
             InstallRead, UninstallRead
    <2>3. ~spoiled' => NoSpoil'
      BY <2>2, NextNoSpoil DEF IInv, NoSpoil
    <2>4. QED
      BY <2>1, <2>3 DEF IInv, NoSpoil
  <1>3. QED
    BY <1>1, <1>2, PTL DEF Spec

(***************************************************************************)
(* Whichever commands run and wherever they are killed, one of the two     *)
(* files, or the command that is about to write it, has the latest edit.   *)
(***************************************************************************)
THEOREM LatestEditKept == Spec => []EditKept
  <1>1. IInv => EditKept
    BY TextAssumption, CommandAssumption
       DEF IInv, EditKept, Kept, Holds, Unwrapped, TypeOK, InHand, Paths, Steps,
           SettingsLatest, OriginalLatest, BackupLatest
  <1>2. QED
    BY <1>1, WrapInvariant, PTL

\* As long as there is a backup made by wrap, the latest edit stands unwrapped somewhere.
THEOREM WrapIsUndoable == Spec => []WrapCanBeUndone
  <1>1. IInv => WrapCanBeUndone
    BY DEF IInv, WrapCanBeUndone, BackupLatest
  <1>2. QED
    BY <1>1, WrapInvariant, PTL

(***************************************************************************)
(* An uninstall writes back the edit it has read, which is still the       *)
(* latest when it is written.                                              *)
(***************************************************************************)
THEOREM UninstallIsAnEdit == Spec => UninstallKeepsEdits
  <1>1. ASSUME IInv, Running("uninstall", "fill"), RewriteFill, ~spoiled
        PROVE  files'["settings"].version = version
    <2>1. original \in Settings /\ original.version = version /\ handle["command"] = "settings"
      BY <1>1 DEF IInv, InHand, OriginalLatest, Running
    <2>2. Rendered.version = version
      BY <1>1, <2>1, RenderedKeepsEdit DEF IInv, Running
    <2>3. QED
      BY <1>1, <2>1, <2>2 DEF IInv, TypeOK, RewriteFill, FS!WriteAndClose, Paths
  <1>2. IInv => [Running("uninstall", "fill") /\ RewriteFill /\ ~spoiled
                    => files'["settings"].version = version]_vars
    BY <1>1
  <1>3. QED
    BY <1>2, WrapInvariant, PTL DEF UninstallKeepsEdits
=============================================================================
