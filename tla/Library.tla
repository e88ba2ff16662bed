------------------------------ MODULE Library -------------------------------
(***************************************************************************)
(* Document libraries and the folders in them                              *)
(* (core/documents/services/document-library.service.ts, folder.service.ts)*)
(*                                                                         *)
(* Left out: renaming, codes, and the path of a folder, which a            *)
(* trigger of the database keeps.                                          *)
(***************************************************************************)
EXTENDS Callers

CONSTANTS Libraries, Folders,  \* those that may be created
          Names                \* names of folders

VARIABLES library,        \* library[l]: its row
          folder          \* folder[f]: its row

libraryVars == <<library, folder>>

NoRow == [row |-> "none"]
Top == "top"               \* parent_folder_id is null

ASSUME LibraryAssumption == Top \notin Folders

LibraryRow == [default: BOOLEAN, deleted: BOOLEAN]
FolderRow == [library: Libraries, parent: Folders \cup {Top}, name: Names, deleted: BOOLEAN]

LibraryTypeOK ==
  /\ library \in [Libraries -> LibraryRow \cup {NoRow}]
  /\ folder \in [Folders -> FolderRow \cup {NoRow}]
  /\ focus = "library" => Quiet

LibraryInit ==
  /\ library = [l \in Libraries |-> NoRow]
  /\ folder = [f \in Folders |-> NoRow]

\* a row repository.findOne returns: deletedAt is select: false, so the test of
\* row.deletedAt that follows never refuses
Found(row) == row # NoRow

\* a row a query with "deleted_at IS NULL" returns
Live(row) == row # NoRow /\ ~row.deleted

-----------------------------------------------------------------------------
(* DocumentLibraryService.  create and update are transactions             *)

\* the library that was the default is no longer
OthersCleared(l) == [k \in Libraries |-> IF library[k] = NoRow THEN NoRow
                                         ELSE [library[k] EXCEPT !.default = FALSE]]

CreateLibrary(c, l, default) ==
  /\ MayStart(c, "library")
  /\ library[l] = NoRow
  /\ library' = [(IF default THEN OthersCleared(l) ELSE library)
                   EXCEPT ![l] = [default |-> default, deleted |-> FALSE]]
  /\ UNCHANGED <<folder, call>>

UpdateLibrary(c, l, default) ==
  /\ MayStart(c, "library")
  /\ Found(library[l])
  /\ library' = [(IF default /\ ~library[l].default THEN OthersCleared(l) ELSE library)
                   EXCEPT ![l].default = default]
  /\ UNCHANGED <<folder, call>>

\* its folders are not looked at
DeleteLibrary(c, l) ==
  /\ MayStart(c, "library")
  /\ Found(library[l]) /\ ~library[l].default
  /\ library' = [library EXCEPT ![l].deleted = TRUE]
  /\ UNCHANGED <<folder, call>>

-----------------------------------------------------------------------------
(* FolderService                                                           *)

InLibrary(parent, l) == parent # Top => Found(folder[parent]) /\ folder[parent].library = l

NameFree(l, parent, name) ==
  \A f \in Folders: Live(folder[f]) => <<folder[f].library, folder[f].parent, folder[f].name>>
                                         # <<l, parent, name>>

CreateFolder(c, f, l, parent, name) ==
  /\ MayStart(c, "library")
  /\ folder[f] = NoRow
  /\ Found(library[l])
  /\ InLibrary(parent, l)
  /\ NameFree(l, parent, name)
  /\ folder' = [folder EXCEPT ![f] = [library |-> l, parent |-> parent, name |-> name,
                                      deleted |-> FALSE]]
  /\ UNCHANGED <<library, call>>

\* closed under going down from a folder to those in it, deleted ones included
ClosedDownwards(S) == \A g \in Folders: Found(folder[g]) /\ folder[g].parent \in S => g \in S

\* folders at or below f: the least set WITH RECURSIVE comes to
Below(f) == {g \in Folders: \A S \in SUBSET Folders: f \in S /\ ClosedDownwards(S) => g \in S}

\* isDescendantOf
InSubtree(parent, f) == parent \in Below(f)

\* findOne loads the parent with the folder; TypeORM's save takes the id of a loaded
\* relation from the related entity, and not from the column beside it
SavedParent(loaded, to) == IF loaded = Top THEN to ELSE loaded

\* update with a parentFolderId; no look at the names of its new place
MoveFolder(c, f, parent) ==
  /\ MayStart(c, "library")
  /\ Live(folder[f])
  /\ InLibrary(parent, folder[f].library)
  /\ ~InSubtree(parent, f)
  /\ folder' = [folder EXCEPT ![f].parent = SavedParent(folder[f].parent, parent)]
  /\ UNCHANGED <<library, call>>

DeleteFolder(c, f) ==
  /\ MayStart(c, "library")
  /\ Live(folder[f])
  /\ \A g \in Folders: Live(folder[g]) => folder[g].parent # f
  /\ folder' = [folder EXCEPT ![f].deleted = TRUE]
  /\ UNCHANGED <<library, call>>

DocumentLibraryController ==
  \E c \in Clients:
    \/ \E l \in Libraries, default \in BOOLEAN: CreateLibrary(c, l, default)
                                                \/ UpdateLibrary(c, l, default)
    \/ \E l \in Libraries: DeleteLibrary(c, l)

FolderController ==
  \E c \in Clients:
    \/ \E f \in Folders, l \in Libraries, parent \in Folders \cup {Top}, name \in Names:
         CreateFolder(c, f, l, parent, name)
    \/ \E f \in Folders, parent \in Folders \cup {Top}: MoveFolder(c, f, parent)
    \/ \E f \in Folders: DeleteFolder(c, f)

LibraryNext == DocumentLibraryController \/ FolderController

-----------------------------------------------------------------------------
(* Properties *)

\* No folder comes to lie, through however many others, in itself: the walk up to the
\* root and the recursive query both end (folder.service.ts:138, "Anti-cycle").
FoldersNest == \A f \in Folders: Found(folder[f]) /\ folder[f].parent # Top
                                   => folder[f].parent \notin Below(f)

\* An organisation has one default library at most, whichever were made the default,
\* deleted and changed before (document-library.service.ts:53, "garantir un seul").
OneDefaultLibrary ==
  \A k, l \in Libraries: (/\ Found(library[k]) /\ library[k].default
                          /\ Found(library[l]) /\ library[l].default) => k = l
=============================================================================
