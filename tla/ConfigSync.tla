----------------------------- MODULE ConfigSync -----------------------------
(***************************************************************************)
(* rawdata/configsync.py: the files a service has in the configuration     *)
(* index (ConfigStore) brought into a local folder, where other files may  *)
(* be.  A manifest in the folder lists the paths of the previous sync.     *)
(*                                                                         *)
(* One folder of one service.  Of a content, only whether it is the same   *)
(* is kept.  The directories under the folder are left out.                *)
(***************************************************************************)
EXTENDS Naturals, FiniteSets

CONSTANTS
    Path,      \* files of the index, or of the folder
    Reserved,  \* those the sync refuses: the name of the manifest
    Content,
    Torn,      \* what a write that is cut short leaves
    None,
    MaxChanges, \* bound: of the index
    MaxEdits,   \* bound: by hand, in the folder
    MaxFaults   \* bound: crashes and errors

VARIABLES
    source,    \* what the index has for the service, by path
    folder,    \* what is on disk, by path
    manifest,  \* paths, or Torn, or None
    stage,
    files,     \* the current files, as the sync read them
    todo,      \* paths it has yet to write
    gone,      \* paths it has yet to remove
    synced,    \* paths of the next manifest
    mine,      \* history: files put by hand
    ever,      \* ... paths the index had
    orphans,   \* ... files of a sync that was cut short
    edited,    \* ... paths edited by hand since the sync began
    changes, edits, mishaps

work == <<files, todo, gone, synced>>
disk == <<folder, manifest>>
history == <<mine, ever, orphans, edited>>
vars == <<source, disk, stage, work, history, changes, edits, mishaps>>

Has(f) == {p \in Path : f[p] # None}
Nothing == [p \in Path |-> None]

Init ==
    /\ source = Nothing /\ folder = Nothing /\ manifest = None
    /\ stage = "idle" /\ files = Nothing /\ todo = {} /\ gone = {} /\ synced = {}
    /\ mine = {} /\ ever = {} /\ orphans = {} /\ edited = {}
    /\ changes = 0 /\ edits = 0 /\ mishaps = 0

----------------------------------------------------------------------------
(* The index, and the users of the folder.                                  *)

Change(p, c) ==
    /\ changes < MaxChanges /\ changes' = changes + 1
    /\ source[p] # c
    /\ source' = [source EXCEPT ![p] = c]
    /\ ever' = ever \cup {p}
    /\ UNCHANGED <<disk, stage, work, mine, orphans, edited, edits, mishaps>>

Edit(p, c) ==
    /\ edits < MaxEdits /\ edits' = edits + 1
    /\ p \notin Reserved /\ folder[p] # c
    /\ folder' = [folder EXCEPT ![p] = c]
    /\ mine' = IF c = None THEN mine \ {p} ELSE mine \cup {p}
    /\ orphans' = IF c = None THEN orphans \ {p} ELSE orphans
    /\ edited' = edited \cup {p}
    /\ UNCHANGED <<source, manifest, stage, work, ever, changes, mishaps>>

----------------------------------------------------------------------------
(* sync_configs and sync_service.                                           *)

Read ==
    /\ stage = "idle"
    /\ files' = source /\ todo' = Has(source) \ Reserved /\ synced' = {}
    /\ edited' = {} /\ stage' = "write"
    /\ UNCHANGED <<source, disk, gone, mine, ever, orphans, changes, edits, mishaps>>

\* Mutant: a path that is up to date is passed before it is listed.
Rewritten(p) == IF folder[p] = files[p] THEN {} ELSE {p}
Listed(p) == {p}

\* A file that is there with the same bytes is left as is.
Write(p) ==
    /\ stage = "write" /\ p \in todo
    /\ folder' = [folder EXCEPT ![p] = files[p]]
    /\ synced' = synced \cup Listed(p) /\ todo' = todo \ {p}
    /\ UNCHANGED <<source, manifest, stage, files, gone, history, changes, edits, mishaps>>

\* read_manifest: one that is not usable lists nothing.
Manifest == IF manifest \in {None, Torn} THEN {} ELSE manifest

ReadManifest ==
    /\ stage = "write" /\ todo = {}
    /\ gone' = Manifest \ Has(files) /\ stage' = "remove"
    /\ UNCHANGED <<source, disk, files, todo, synced, history, changes, edits, mishaps>>

Remove(p) ==
    /\ stage = "remove" /\ p \in gone
    /\ folder' = [folder EXCEPT ![p] = None]
    /\ gone' = gone \ {p} /\ orphans' = orphans \ {p} /\ mine' = mine \ {p}
    /\ UNCHANGED <<source, manifest, stage, files, todo, synced, ever, edited, changes, edits,
                   mishaps>>

WriteManifest ==
    /\ stage = "remove" /\ gone = {}
    /\ manifest' = IF synced = {} /\ manifest = None THEN None ELSE synced
    /\ orphans' = orphans \ synced
    /\ stage' = "synced"
    /\ UNCHANGED <<source, folder, work, mine, ever, edited, changes, edits, mishaps>>

Leave == stage' = "idle" /\ files' = Nothing /\ todo' = {} /\ gone' = {} /\ synced' = {}

End ==
    /\ stage = "synced" /\ Leave
    /\ UNCHANGED <<source, disk, history, changes, edits, mishaps>>

\* A write fails, or the process dies, with one file written to in part perhaps, the
\* manifest after all others: nothing tells any more who wrote what it listed.
Crash ==
    /\ stage \in {"write", "remove"}
    /\ mishaps < MaxFaults /\ mishaps' = mishaps + 1
    /\ \E torn \in SUBSET todo :
           /\ Cardinality(torn) <= 1
           /\ folder' = [p \in Path |-> IF p \in torn THEN Torn ELSE folder[p]]
    /\ manifest' \in {manifest} \cup (IF stage = "remove" /\ gone = {} THEN {Torn} ELSE {})
    /\ LET listed == IF manifest' \in {None, Torn} THEN {} ELSE manifest' IN
       orphans' = orphans \cup ((Has(folder') \cap ever) \ listed)
    /\ Leave
    /\ UNCHANGED <<source, mine, ever, edited, changes, edits>>

Next ==
    \/ Read \/ ReadManifest \/ WriteManifest \/ End \/ Crash
    \/ \E p \in Path : Write(p) \/ Remove(p)
    \/ \E p \in Path, c \in Content \cup {None} : Change(p, c) \/ Edit(p, c)

Spec == Init /\ [][Next]_vars

----------------------------------------------------------------------------
\* What was edited since the sync began is left out.
Untouched == Path \ edited

\* After a sync, whatever was changed and cut short before: the folder has the files that
\* were current, and the other ones were put by hand, or by a sync that was cut short.  A
\* file put by hand where the index never had one is left alone.
FolderMirrorsIndex ==
    /\ stage = "synced" =>
           /\ \A p \in (Has(files) \ Reserved) \cap Untouched : folder[p] = files[p]
           /\ (Has(folder) \cap Untouched) \ Has(files) \subseteq mine \cup orphans
    /\ \A p \in mine \ ever : p \in Has(folder)
=============================================================================
