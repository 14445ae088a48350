----------------------------- MODULE ControlFile -----------------------------
(***************************************************************************)
(* The checkpoint on disk, write by write: PieceMap (storage/piece_map.rs) *)
(* with the counters it keeps beside its bits, the bitset it is stored as, *)
(* and the control file (storage/control.rs), which save_sync writes to a  *)
(* temporary file, syncs and renames into place.  Any of these calls may   *)
(* fail; the process may die and the machine may lose power between any    *)
(* two of them.  A file is the list of the fields write_all put into it;   *)
(* the payload stands for its bitset, the other parts of the snapshot do   *)
(* not change.  Saves of one download never overlap.                       *)
(***************************************************************************)
EXTENDS PieceMap, Sequences, FiniteSetsExt

CONSTANTS
  None,
  ByteWidth,        \* bits in a byte of the bitset
  MaxSaves, MaxCrashes  \* bounds: saves begun, crashes and power failures

(* What the constants have to satisfy.                                      *)
ByteHasBits == ByteWidth \in Nat \ {0}

VARIABLES
  map,              \* the PieceMap of the running download
  tmp, control,     \* the two files: None, or their fields
  synced,           \* the temporary file has been synced
  past,             \* control files a power failure may bring back
  snapshot,         \* the payload save_sync is writing
  pc,               \* the save: "idle", or the call it makes next
  saved,            \* history: bits of all saves begun
  kept,             \* history: bits of the last save that returned Ok
  loaded,           \* what the load of this run returned, until it saves
  saves, crashes

diskVars == <<tmp, control, synced, past>>
saveVars == <<snapshot, pc>>
histVars == <<saved, kept, loaded>>
countVars == <<saves, crashes>>
vars == <<map, diskVars, saveVars, histVars, countVars>>

-----------------------------------------------------------------------------
(* PieceMap: bits, and the counters kept beside them.                       *)
piece_len(p) == MinOf((p + 1) * PieceSize, TotalSize) - p * PieceSize

new == [completed |-> {}, completed_pieces |-> 0, completed_bytes |-> 0,
        next_candidate |-> 0, highest_completed_piece |-> None]

(* to_bitset_bytes: whole bytes, lowest bit first; the bits beyond the last *)
(* piece are clear.                                                         *)
to_bitset_bytes(m) ==
  [i \in 1..div_ceil(piece_count, ByteWidth) |->
     {b \in 0..ByteWidth - 1 : (i - 1) * ByteWidth + b \in m.completed}]

FromBytes(bytes) ==
  {p \in Pieces : p \div ByteWidth < Len(bytes) /\ p % ByteWidth \in bytes[p \div ByteWidth + 1]}

(* from_bitset: one pass over the bits computes the counters.               *)
from_bitset(bytes) ==
  LET done == FromBytes(bytes)
      missing == Pieces \ done
  IN [completed |-> done,
      completed_pieces |-> Cardinality(done),
      completed_bytes |-> MapThenSumSet(piece_len, done),
      next_candidate |-> IF missing = {} THEN piece_count ELSE Min(missing),
      highest_completed_piece |-> IF done = {} THEN None ELSE Max(done)]

(* advance_next_candidate skips what was completed ahead of it.             *)
advance_next_candidate(completed, candidate) ==
  Min({p \in candidate..piece_count : p \notin completed})

mark_complete(p) ==
  /\ p \notin map.completed
  /\ LET completed == map.completed \cup {p} IN
       map' = [completed |-> completed,
               completed_pieces |-> map.completed_pieces + 1,
               completed_bytes |-> map.completed_bytes + piece_len(p),
               next_candidate |-> IF p = map.next_candidate
                                  THEN advance_next_candidate(completed, map.next_candidate)
                                  ELSE map.next_candidate,
               highest_completed_piece |->
                 IF map.highest_completed_piece = None THEN p
                 ELSE MaxOf(map.highest_completed_piece, p)]
  /\ UNCHANGED <<diskVars, saveVars, histVars, countVars>>

Init ==
  /\ map = new
  /\ tmp = None /\ control = None /\ synced = FALSE /\ past = {}
  /\ snapshot = None /\ pc = "idle"
  /\ saved = {} /\ kept = None /\ loaded = None
  /\ saves = 0 /\ crashes = 0

-----------------------------------------------------------------------------
(* save_sync.  The fields are the header, which holds the payload's length  *)
(* and checksum, and the payload.                                           *)
Fields == <<"header", "payload">>

save_sync ==
  /\ pc = "idle" /\ saves < MaxSaves /\ saves' = saves + 1
  /\ snapshot' = to_bitset_bytes(map) /\ saved' = saved \cup {map.completed}
  /\ pc' = "create" /\ loaded' = None
  /\ UNCHANGED <<map, diskVars, kept, crashes>>

(* The `?` of every call: the save is over, and what it wrote stays.        *)
Return(ok) ==
  /\ pc' = "idle" /\ snapshot' = None
  /\ kept' = IF ok THEN FromBytes(snapshot) ELSE kept

(* File::create truncates what an earlier save left behind.                 *)
Create ==
  /\ pc = "create"
  /\ tmp' = <<>> /\ synced' = FALSE /\ pc' = "write"
  /\ UNCHANGED <<map, control, past, snapshot, histVars, countVars>>

write_all ==
  /\ pc = "write" /\ Len(tmp) < Len(Fields)
  /\ tmp' = Append(tmp, <<Fields[Len(tmp) + 1], snapshot>>)
  /\ UNCHANGED <<map, control, synced, past, saveVars, histVars, countVars>>

(* Mutant: the file is renamed without a sync.                              *)
SkipSync ==
  /\ pc = "write" /\ Len(tmp) = Len(Fields)
  /\ pc' = "rename"
  /\ UNCHANGED <<map, diskVars, snapshot, histVars, countVars>>

sync_all ==
  /\ pc = "write" /\ Len(tmp) = Len(Fields)
  /\ synced' = TRUE /\ pc' = "rename"
  /\ UNCHANGED <<map, tmp, control, past, snapshot, histVars, countVars>>

(* The directory is not synced: until the file system writes it back, a     *)
(* power failure may undo this rename and the ones before it.  A file that  *)
(* was not synced may come back with any part of what was written.          *)
rename ==
  /\ pc = "rename"
  /\ control' = tmp /\ tmp' = None /\ synced' = FALSE
  /\ past' = past \cup {control}
       \cup (IF synced THEN {} ELSE {SubSeq(tmp, 1, n) : n \in 0..Len(tmp)})
  /\ Return(TRUE)
  /\ UNCHANGED <<map, saved, loaded, countVars>>

SaveFails ==
  /\ pc # "idle"
  /\ Return(FALSE)
  /\ UNCHANGED <<map, diskVars, saved, loaded, countVars>>

(* The download is complete: delete, where a missing file is no error and   *)
(* any other error leaves the file in place.                                *)
delete ==
  /\ pc = "idle" /\ map.completed_pieces = piece_count
  /\ control # None /\ control' = None /\ past' = past \cup {control}
  /\ kept' = None
  /\ UNCHANGED <<map, tmp, synced, saveVars, saved, loaded, countVars>>

-----------------------------------------------------------------------------
(* load_sync_with_hints: an open error, "too short", "truncated payload" or *)
(* "checksum mismatch" (header and payload of different saves), or a        *)
(* snapshot.  Every file here is of version 2.                              *)
load_sync_with_hints(file) ==
  IF file = None THEN [err |-> "NotFound"]
  ELSE IF Len(file) < Len(Fields) THEN [err |-> "ControlFileCorrupted"]
  ELSE IF file[1][2] # file[2][2] THEN [err |-> "ControlFileCorrupted"]
  ELSE [ok |-> file[2][2]]

(* The next run: try_resume_download restores the map, or starts anew.      *)
Restart(file) ==
  LET result == load_sync_with_hints(file) IN
    /\ loaded' = result
    /\ map' = IF "ok" \in DOMAIN result THEN from_bitset(result.ok) ELSE new
    /\ control' = file
    /\ pc' = "idle" /\ snapshot' = None

(* The process dies: what it wrote stays.                                   *)
Crash ==
  /\ crashes < MaxCrashes /\ crashes' = crashes + 1
  /\ Restart(control)
  /\ UNCHANGED <<tmp, synced, past, saved, kept, saves>>

(* The power fails: renames may be undone, and a file that was not synced   *)
(* keeps any part of what was written.                                      *)
PowerFailure ==
  /\ crashes < MaxCrashes /\ crashes' = crashes + 1
  /\ \E file \in past \cup {control} : Restart(file)
  /\ tmp' \in IF tmp = None \/ synced THEN {tmp} ELSE {SubSeq(tmp, 1, n) : n \in 0..Len(tmp)}
  /\ past' = {} /\ kept' = IF control' = control THEN kept ELSE None
  /\ UNCHANGED <<synced, saved, saves>>

Next ==
  \/ \E p \in Pieces : mark_complete(p)
  \/ save_sync \/ Create \/ write_all \/ sync_all \/ rename \/ SaveFails \/ delete
  \/ Crash \/ PowerFailure

Spec == Init /\ [][Next]_vars

-----------------------------------------------------------------------------
(* save_sync, load_sync_with_hints and from_bitset: whenever the process or *)
(* the machine stops, the next run finds a control file that loads, or none *)
(* at all, and its bits are those of one save.                              *)
RestoredWasSaved ==
  loaded # None => \/ loaded = [err |-> "NotFound"]
                   \/ "ok" \in DOMAIN loaded /\ FromBytes(loaded.ok) \in saved

(* A save that returned Ok is on disk until it is replaced, deleted or      *)
(* undone by a power failure, whatever failed saves and leftovers of the    *)
(* temporary file come after it.                                            *)
OkMeansSaved ==
  kept # None => load_sync_with_hints(control) = [ok |-> to_bitset_bytes([completed |-> kept])]

(* mark_complete: in whatever order pieces complete, and across restarts,   *)
(* the map is what from_bitset makes of the bytes it would be stored as.    *)
CountersFollowBits == map = from_bitset(to_bitset_bytes(map))

(* PieceMap and ControlSnapshot: what a run restores is one whole save, a   *)
(* save that returned Ok is there to be restored, and the restored counters *)
(* are those of the bits.                                                   *)
CheckpointFileIsSound == RestoredWasSaved /\ OkMeansSaved /\ CountersFollowBits
=============================================================================
