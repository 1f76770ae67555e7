--------------------------- MODULE IdentityStore ---------------------------
(* The agent's crash-safe store of identity files, identity_store.rs: a save
   stages every file beside its target, flushes, renames a marker naming the new
   contents into place (the commit point), renames the staged files over their
   targets, deletes what the save consumes and deletes the marker.  Recovery runs
   at start-up and finishes a marked save or undoes an unmarked one.

   A directory is a set of entries.  Its changes reach the disk in the order they
   were made, at any time up to the flush that waits for them (sync_dir), so a
   power cut leaves each directory as it was at some moment since its last flush:
   `past' holds those moments.  Two directories are independent of each other.
   A file's contents are a value; its SHA-256 is modelled by the value itself. *)
EXTENDS Naturals, Sequences

CONSTANTS
    None,           \* no such entry
    Torn,           \* contents a power cut left half written
    FaultSteps      \* the steps of a save at which an I/O error may strike

IdentityFiles == {"device_id", "cert", "key"}
Files == IdentityFiles \union {"server_ca", "update_key"}

\* The trusted master keys live outside the data folder.
Dirs == {"trust", "data"}
Entries == [trust |-> {"server_ca"},
            data  |-> (Files \ {"server_ca"}) \union {"marker", "note", "removed"}]
AllEntries == UNION {Entries[d] : d \in Dirs}

VARIABLES
    disk,   \* disk.live[e]: the entry e; disk.next[e]: its staged copy e.next
    past,   \* past[d]: what a power cut may leave of directory d
    pc,     \* where the one thread that touches these files stands
    i,      \* the file of the save that the loop at pc is at
    job,    \* the save under way: files in order, contents, whether it consumes the note
    after   \* where the thread goes once the save has returned

-----------------------------------------------------------------------------
View(D, d) == [live |-> [e \in Entries[d] |-> D.live[e]],
               next |-> [e \in Entries[d] |-> D.next[e]]]

\* The directory operations that lead to D, made but not yet flushed.
Write(D) ==
    /\ disk' = D
    /\ past' = [d \in Dirs |-> past[d] \union {View(D, d)}]

DirsOf(S) == {d \in Dirs : Entries[d] \intersect S # {}}

\* sync_dir and sync_parents: everything done so far in these directories is on disk.
Flush(ds) ==
    /\ past' = [d \in Dirs |-> IF d \in ds THEN {View(disk, d)} ELSE past[d]]
    /\ UNCHANGED disk

Remove(S) == [disk EXCEPT !.live = [e \in AllEntries |-> IF e \in S THEN None ELSE @[e]]]
RemoveStaged(S) == [disk EXCEPT !.next = [e \in AllEntries |-> IF e \in S THEN None ELSE @[e]]]

FilesOf(j) == {j.order[k] : k \in DOMAIN j.order}

Goto(p) == /\ pc' = p
           /\ UNCHANGED <<i, job, after>>

\* The next turn of a loop over the save's files, or the step after the loop.
Turn(again, done) ==
    /\ IF i < Len(job.order) THEN pc' = again /\ i' = i + 1
                             ELSE pc' = done /\ i' = 1
    /\ UNCHANGED <<job, after>>

-----------------------------------------------------------------------------
(* commit *)

Begin(j, then) ==
    /\ job' = j
    /\ after' = then
    /\ i' = 1
    /\ pc' = "stage"
    /\ UNCHANGED <<disk, past>>

\* write_synced opens the staged file, truncating it, and then fills and flushes it.
StageOpen ==
    /\ pc = "stage"
    /\ Write([disk EXCEPT !.next[job.order[i]] = Torn])
    /\ Goto("fill")

StageFill ==
    /\ pc = "fill"
    /\ Write([disk EXCEPT !.next[job.order[i]] = job.put[job.order[i]]])
    /\ Turn("stage", "sync_staged")

SyncStaged ==
    /\ pc = "sync_staged"
    /\ Flush(DirsOf(FilesOf(job)))
    /\ Goto("mark")

MarkOpen ==
    /\ pc = "mark"
    /\ Write([disk EXCEPT !.next["marker"] = Torn])
    /\ Goto("mark_fill")

MarkFill ==
    /\ pc = "mark_fill"
    /\ Write([disk EXCEPT !.next["marker"] = job])
    /\ Goto("mark_rename")

MarkRename ==
    /\ pc = "mark_rename"
    /\ Write([disk EXCEPT !.live["marker"] = disk.next["marker"], !.next["marker"] = None])
    /\ Goto("mark_sync")

\* Mutant: the marker is not flushed before the renames begin.
MarkUnflushed ==
    /\ pc = "mark_sync"
    /\ UNCHANGED <<disk, past>>
    /\ Goto("rename")

MarkSync ==
    /\ pc = "mark_sync"
    /\ Flush({"data"})
    /\ Goto("rename")

(* finish, which a save and recovery share *)

\* A staged file is renamed over its target; one already renamed is passed over.
Rename ==
    /\ pc = "rename"
    /\ LET f == job.order[i] IN
         IF disk.next[f] = None
         THEN UNCHANGED <<disk, past>>
         ELSE Write([disk EXCEPT !.live[f] = disk.next[f], !.next[f] = None])
    /\ Turn("rename", "sync_renamed")

SyncRenamed ==
    /\ pc = "sync_renamed"
    /\ Flush(DirsOf(FilesOf(job)))
    /\ Goto("consume")

Consume ==
    /\ pc = "consume"
    /\ IF job.consumes THEN Write(Remove({"note"})) ELSE UNCHANGED <<disk, past>>
    /\ Goto("sync_consumed")

SyncConsumed ==
    /\ pc = "sync_consumed"
    /\ IF job.consumes THEN Flush({"data"}) ELSE UNCHANGED <<disk, past>>
    /\ Goto("unmark")

Unmark ==
    /\ pc = "unmark"
    /\ Write(Remove({"marker"}))
    /\ Goto("sync_unmarked")

\* The last flush; the save, or the recovery, returns Ok to its caller.
SyncUnmarked ==
    /\ pc = "sync_unmarked"
    /\ Flush({"data"})
    /\ Goto(after)

(* recover *)

RecoverStart(then) ==
    /\ pc = "down"
    /\ pc' = "recover"
    /\ after' = then
    /\ i' = 1
    /\ UNCHANGED <<disk, past, job>>

\* holds_new_contents: the marked contents are staged or already in place.
HoldsNew(D, j, f) == j.put[f] \in {D.next[f], D.live[f]}

Readable(m) == m \notin {None, Torn}

MarkedWhole(D) ==
    /\ Readable(D.live["marker"])
    /\ \A f \in FilesOf(D.live["marker"]) : HoldsNew(D, D.live["marker"], f)

RecoverClean ==
    /\ pc = "recover"
    /\ Write(RemoveStaged({"marker"}))
    /\ Goto("read_marker")

RecoverForward ==
    /\ pc = "read_marker"
    /\ MarkedWhole(disk)
    /\ job' = disk.live["marker"]
    /\ pc' = "rename"
    /\ UNCHANGED <<disk, past, i, after>>

\* No marker, one that cannot be parsed, or one whose contents are not all on disk: the staged
\* files go (every one a save may have left, or those the marker names), and then the marker.
RecoverBack ==
    /\ pc = "read_marker"
    /\ ~MarkedWhole(disk)
    /\ Write(RemoveStaged(IF Readable(disk.live["marker"]) THEN FilesOf(disk.live["marker"])
                                                           ELSE Files))
    /\ Goto("undo_marker")

\* Only the undoing of a readable marker is flushed.
UndoMarker ==
    /\ pc = "undo_marker"
    /\ Write(Remove({"marker"}))
    /\ Goto(IF Readable(disk.live["marker"]) THEN "sync_unmarked" ELSE after)

-----------------------------------------------------------------------------
SaveSteps == {"stage", "fill", "sync_staged", "mark", "mark_fill", "mark_rename", "mark_sync",
              "rename", "sync_renamed", "consume", "sync_consumed", "unmark", "sync_unmarked"}

\* The thread leaves the store, with a save done or given up, or dies.
Leave(then) ==
    /\ pc' = then
    /\ i' = 1 /\ job' = None /\ after' = None

\* An I/O error at a step of a save: commit returns it and what was done stays.
Fail(then) ==
    /\ pc \in FaultSteps \intersect SaveSteps
    /\ Leave(then)
    /\ UNCHANGED <<disk, past>>

\* What the disk may hold after a power cut.
Beside(a, b) == [e \in AllEntries |-> IF e \in Entries["trust"] THEN a[e] ELSE b[e]]
Joined(t, d) == [live |-> Beside(t.live, d.live), next |-> Beside(t.next, d.next)]
CutOutcomes == {Joined(t, d) : t \in past["trust"], d \in past["data"]}

\* The machine loses power, or only the process dies and every directory is as it was.
PowerCut ==
    /\ disk' \in CutOutcomes
    /\ past' = [d \in Dirs |-> {View(disk', d)}]

StoreStep ==
    \/ StageOpen \/ StageFill \/ SyncStaged
    \/ MarkOpen \/ MarkFill \/ MarkRename \/ MarkSync
    \/ Rename \/ SyncRenamed \/ Consume \/ SyncConsumed \/ Unmark \/ SyncUnmarked
    \/ RecoverClean \/ RecoverForward \/ RecoverBack \/ UndoMarker

-----------------------------------------------------------------------------
\* What recovery would make of a disk: each entry's contents at the end of it.
Recovered(D) ==
    LET m == D.live["marker"] IN
    [e \in Files \union {"note"} |->
        CASE MarkedWhole(D) /\ e \in FilesOf(m) /\ D.next[e] # None -> D.next[e]
          [] MarkedWhole(D) /\ e = "note" /\ m.consumes -> None
          [] OTHER -> D.live[e]]
=============================================================================
