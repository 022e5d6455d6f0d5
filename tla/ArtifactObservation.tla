------------------------ MODULE ArtifactObservation ------------------------
(***************************************************************************)
(* One observation of a host-selected file at a time: the tool             *)
(* (tool_layer/artifact_observation_tools.py), the reader                  *)
(* (artifact_observation_reader.py) over two authorized handles            *)
(* (artifact_observation_io.py) and the report (artifact_observation.py),  *)
(* while other programs rename directories, replace the file and write it. *)
(*                                                                         *)
(* The granted root is a path: rootAt is the directory there now.  What a  *)
(* handle was opened on never changes, so the identity of the root, read   *)
(* twice of one handle, is the object itself; its final path does change.  *)
(*                                                                         *)
(* A write leaves any size and any change metadata, the ones from before   *)
(* it too: times are coarse, and programs set them.  The version counts    *)
(* the writes; the code cannot see it, and the properties compare with it. *)
(*                                                                         *)
(* The names that ExperimentDirectory has too begin with obs here, so that *)
(* one module can state theorems of both.                                  *)
(***************************************************************************)
EXTENDS Integers, FiniteSets

CONSTANTS
    Null,
    Dirs, Artifacts,
    Trait,       \* of each object: "plain", "unsupported", "remote" or "astray"
    Volume,      \* the volume it is on
    MaxBytes, ChunkBytes,
    MaxSize, MaxWrites, MaxSwaps  \* bounds of what the other programs do

ASSUME ArtifactAssumption ==
    /\ Null \notin Dirs \cup Artifacts \cup {"observed"}
    /\ MaxBytes \in Nat /\ ChunkBytes \in Nat \ {0}
    /\ MaxSize \in Nat /\ MaxWrites \in Nat /\ MaxSwaps \in Nat

VARIABLES
    rootAt, childIn, \* the directory at the granted path, the selected file in each
    size, token,     \* of each file: its bytes now, its times and change token
    version,         \* history: how often each file was written
    pc,              \* where the call is, "idle" between calls
    root, child,     \* the objects of the open handles, Null when closed
    before, count,   \* metadata read first, bytes read so far
    status,          \* of the capture
    ending,          \* how the last call ended
    opened, closed,  \* history: handles acquired, and close attempts, by handle
    failed,          \* history: a native call of this observation failed
    granted, holder, \* history: the directory opened as root; and the one at
                     \* the path when the child was verified
    swaps,           \* history: how often the path changed hands in this call
    versions,        \* history: the versions of the file at the readings of its
                     \* metadata, and those of the bytes taken
    restored         \* history: between these readings a write left the file
                     \* with the very metadata that were read first

obsWorld == <<rootAt, childIn, size, token, version>>
obsCall  == <<pc, root, child, before, count, status, ending>>
past     == <<opened, closed, failed, granted, holder, swaps, versions,
              restored>>
obsVars  == <<obsWorld, obsCall, past>>

Handles     == {"root", "child"}
OsStatuses  == {"missing", "unreadable", "io_error"}
IOStatuses  == OsStatuses \cup {"unauthorized", "unsupported_type", "unsupported_platform"}
Statuses    == IOStatuses \cup {"observed", "oversized", "changed_during_read"}

NoHandles == [h \in Handles |-> 0]
OneMore(f, h) == [f EXCEPT ![h] = @ + 1]

ObsInit ==
    /\ rootAt \in Dirs
    /\ childIn \in [Dirs -> Artifacts \cup {Null}]
    /\ \A d, e \in Dirs : d # e /\ childIn[d] = childIn[e] => childIn[d] = Null
    /\ size \in [Artifacts -> 0..MaxSize] /\ token = [f \in Artifacts |-> 0]
    /\ version = [f \in Artifacts |-> 0]
    /\ pc = "idle" /\ root = Null /\ child = Null
    /\ before = Null /\ count = 0 /\ status = Null /\ ending = Null
    /\ opened = NoHandles /\ closed = NoHandles /\ failed = FALSE
    /\ granted = Null /\ holder = Null /\ swaps = 0 /\ versions = {}
    /\ restored = FALSE

----------------------------------------------------------------------------
(* Other programs *)

Move(d) ==
    /\ swaps < MaxSwaps /\ d # rootAt
    /\ rootAt' = d /\ swaps' = swaps + 1
    /\ UNCHANGED <<childIn, size, token, version, obsCall, opened, closed, failed,
                   granted, holder, versions, restored>>

Metadata(f) == [size |-> size[f], token |-> token[f]]

WriteFile(f) ==
    /\ version[f] < MaxWrites
    /\ \E n \in 0..MaxSize : size' = [size EXCEPT ![f] = n]
    /\ \E t \in 0..MaxWrites : token' = [token EXCEPT ![f] = t]
    /\ version' = OneMore(version, f)
    /\ restored' = (restored \/ (pc \in {"read", "read_after"} /\ child = f
                                /\ Metadata(f)' = before))
    /\ UNCHANGED <<rootAt, childIn, obsCall, opened, closed, failed, granted, holder,
                   swaps, versions>>

----------------------------------------------------------------------------
(* ExitStack: an error, or the end of the capture, closes child then root. *)

Unwinds(s) == status' = s /\ pc' = "closing"

\* A native call raises: OSError is mapped to a status by _call, and what is
\* no I/O error at all propagates as it is.
Breaks(codes) ==
    /\ failed' = TRUE
    /\ \E s \in codes \cup {"raised"} : Unwinds(s)

\* _os_status: what errno an OSError carries.
OsError == Breaks(OsStatuses)

\* The checks of _verify in order.
Refusal(o, atItsPath) ==
    IF Trait[o] = "unsupported" THEN "unsupported_type"
    ELSE IF Trait[o] = "remote" THEN "unsupported_platform"
    ELSE IF Trait[o] = "astray" \/ ~atItsPath THEN "unauthorized"
    ELSE "none"

\* describe() and _verify() of a handle: on to the next step, or an error.
Verified(o, atItsPath, next) ==
    \/ Refusal(o, atItsPath) = "none" /\ pc' = next /\ UNCHANGED <<status, failed>>
    \/ Refusal(o, atItsPath) # "none" /\ Unwinds(Refusal(o, atItsPath)) /\ failed' = TRUE
    \/ Breaks(IOStatuses)

----------------------------------------------------------------------------
(* open_authorized_artifact *)

\* invoke_tool: the secured root must be the bound one, else nothing is opened.
Refuse == pc = "idle" /\ ending' = "refused"
          /\ UNCHANGED <<obsWorld, pc, root, child, before, count, status, past>>

Begin ==
    /\ pc = "idle"
    /\ pc' = "open_root" /\ before' = Null /\ count' = 0 /\ status' = Null
    /\ ending' = Null
    /\ opened' = NoHandles /\ closed' = NoHandles /\ failed' = FALSE
    /\ granted' = Null /\ holder' = Null /\ swaps' = 0 /\ versions' = {}
    /\ restored' = FALSE
    /\ UNCHANGED <<obsWorld, root, child>>

OpenRoot ==
    /\ pc = "open_root"
    /\ \/ /\ rootAt # Null
          /\ root' = rootAt /\ granted' = rootAt /\ opened' = OneMore(opened, "root")
          /\ pc' = "check_root" /\ UNCHANGED <<status, failed>>
       \/ /\ rootAt = Null
          /\ Unwinds("missing") /\ failed' = TRUE /\ UNCHANGED <<root, granted, opened>>
       \/ /\ Breaks(OsStatuses \cup {"unsupported_platform"})
          /\ UNCHANGED <<root, granted, opened>>
    /\ UNCHANGED <<obsWorld, child, before, count, ending, closed, holder, swaps, versions,
                   restored>>

CheckRoot ==
    /\ pc = "check_root"
    /\ Verified(root, rootAt = root, "open_child")
    /\ UNCHANGED <<obsWorld, root, child, before, count, ending, opened, closed,
                   granted, holder, swaps, versions, restored>>

\* What the child's path names now.
AtChildPath == IF rootAt = Null THEN Null ELSE childIn[rootAt]

OpenChild ==
    /\ pc = "open_child"
    /\ \/ /\ AtChildPath # Null
          /\ child' = AtChildPath /\ opened' = OneMore(opened, "child")
          /\ pc' = "check_child" /\ UNCHANGED <<status, failed>>
       \/ /\ AtChildPath = Null
          /\ Unwinds("missing") /\ failed' = TRUE /\ UNCHANGED <<child, opened>>
       \/ /\ Breaks(OsStatuses \cup {"unsupported_platform"})
          /\ UNCHANGED <<child, opened>>
    /\ UNCHANGED <<obsWorld, root, before, count, ending, closed, granted, holder,
                   swaps, versions, restored>>

CheckChild ==
    /\ pc = "check_child"
    /\ Verified(child, AtChildPath = child, "recheck_root")
    /\ holder' = rootAt
    /\ UNCHANGED <<obsWorld, root, child, before, count, ending, opened, closed,
                   granted, swaps, versions, restored>>

\* Mutant of RecheckRoot: the root is not described again.
RecheckVolume ==
    /\ pc = "recheck_root"
    /\ \/ Volume[child] = Volume[root] /\ pc' = "read_before"
          /\ UNCHANGED <<status, failed>>
       \/ Volume[child] # Volume[root] /\ Unwinds("unauthorized") /\ failed' = TRUE
    /\ UNCHANGED <<obsWorld, root, child, before, count, ending, opened, closed,
                   granted, holder, swaps, versions, restored>>

\* The root is described and verified once more, and the volumes compared.
RecheckRoot ==
    /\ pc = "recheck_root"
    /\ \/ Volume[child] = Volume[root] /\ Verified(root, rootAt = root, "read_before")
       \/ Volume[child] # Volume[root] /\ Verified(root, rootAt = root, "refused")
    /\ UNCHANGED <<obsWorld, root, child, before, count, ending, opened, closed,
                   granted, holder, swaps, versions, restored>>

RefuseVolume ==
    /\ pc = "refused"
    /\ Unwinds("unauthorized") /\ failed' = TRUE
    /\ UNCHANGED <<obsWorld, root, child, before, count, ending, opened, closed,
                   granted, holder, swaps, versions, restored>>

----------------------------------------------------------------------------
(* _read_capture *)

ReadBefore ==
    /\ pc = "read_before"
    /\ \/ /\ before' = Metadata(child) /\ versions' = {version[child]}
          /\ \/ size[child] > MaxBytes /\ Unwinds("oversized")
             \/ size[child] <= MaxBytes /\ pc' = "read" /\ UNCHANGED status
          /\ UNCHANGED failed
       \/ OsError /\ UNCHANGED <<before, versions>>
    /\ UNCHANGED <<obsWorld, root, child, count, ending, opened, closed, granted,
                   holder, swaps, restored>>

\* One read past the budget would tell that there is more.
Request == IF ChunkBytes < MaxBytes + 1 - count THEN ChunkBytes ELSE MaxBytes + 1 - count

\* A read returns some of what lies between the position and the end.
Reads(n, left) == IF left <= 0 THEN {0} ELSE {k \in 1..n : k <= left}

ReadChunk ==
    /\ pc = "read"
    /\ \/ \E k \in Reads(Request, size[child] - count) :
          /\ count' = count + k
          /\ \/ k = 0 /\ pc' = "read_after" /\ UNCHANGED <<status, versions>>
             \/ k > 0 /\ count' > MaxBytes /\ Unwinds("oversized") /\ UNCHANGED versions
             \/ /\ k > 0 /\ count' <= MaxBytes /\ UNCHANGED <<pc, status>>
                /\ versions' = versions \cup {version[child]}
          /\ UNCHANGED failed
       \/ OsError /\ UNCHANGED <<count, versions>>
    /\ UNCHANGED <<obsWorld, root, child, before, ending, opened, closed, granted,
                   holder, swaps, restored>>

\* Mutant of Unchanged: the times and the change token are not compared.
UnchangedSize(after) == after.size = before.size /\ count = before.size

Unchanged(after) == after = before /\ count = before.size

ReadAfter ==
    /\ pc = "read_after"
    /\ \/ /\ Unchanged(Metadata(child)) /\ Unwinds("observed") /\ UNCHANGED failed
          /\ versions' = versions \cup {version[child]}
       \/ /\ ~Unchanged(Metadata(child)) /\ Unwinds("changed_during_read")
          /\ UNCHANGED <<failed, versions>>
       \/ OsError /\ UNCHANGED versions
    /\ UNCHANGED <<obsWorld, root, child, before, count, ending, opened, closed,
                   granted, holder, swaps, restored>>

----------------------------------------------------------------------------
(* Leaving the context *)

\* Mutant of Closes: an error of a close is dropped.
ClosesQuietly == failed' \in {failed, TRUE} /\ UNCHANGED status

\* A close that fails raises, over whatever was raised or captured before.
Closes ==
    \/ UNCHANGED <<status, failed>>
    \/ failed' = TRUE /\ status' \in OsStatuses

\* The handle is given up before the native call, so it is closed once.
CloseChild ==
    /\ pc = "closing" /\ child # Null
    /\ child' = Null /\ closed' = OneMore(closed, "child") /\ Closes
    /\ UNCHANGED <<obsWorld, pc, root, before, count, ending, opened, granted, holder,
                   swaps, versions, restored>>

\* Mutant of CloseRoot: the root is closed only after a clean exit.
CloseRootClean ==
    /\ pc = "closing" /\ child = Null /\ root # Null
    /\ root' = Null /\ Closes
    /\ closed' = IF failed THEN closed ELSE OneMore(closed, "root")
    /\ UNCHANGED <<obsWorld, pc, child, before, count, ending, opened, granted, holder,
                   swaps, versions, restored>>

CloseRoot ==
    /\ pc = "closing" /\ child = Null /\ root # Null
    /\ root' = Null /\ closed' = OneMore(closed, "root") /\ Closes
    /\ UNCHANGED <<obsWorld, pc, child, before, count, ending, opened, granted, holder,
                   swaps, versions, restored>>

\* The completion is read after the handles are closed.  An unexpected error
\* propagates, and so does the projection's when the clock has gone back.
Report ==
    /\ pc = "closing" /\ child = Null /\ root = Null
    /\ pc' = "idle" /\ status' = Null
    /\ ending' \in {status, "raised"}
    /\ UNCHANGED <<obsWorld, root, child, before, count, past>>

----------------------------------------------------------------------------

Others == (\E d \in Dirs \cup {Null} : Move(d)) \/ (\E f \in Artifacts : WriteFile(f))

ObsNext ==
    \/ Others
    \/ Refuse \/ Begin \/ OpenRoot \/ CheckRoot \/ OpenChild \/ CheckChild
    \/ RecheckRoot \/ RefuseVolume
    \/ ReadBefore \/ ReadChunk \/ ReadAfter
    \/ CloseChild \/ CloseRoot \/ Report

ObsSpec == ObsInit /\ [][ObsNext]_obsVars

----------------------------------------------------------------------------

(* A reported observation is whole: no native call failed, not even the     *)
(* closing of a handle after the last byte was read; there are as many      *)
(* bytes as the size says and no more than the budget; and all the bytes    *)
(* and both readings of the metadata are of one version of the file, unless *)
(* a write in between left it with the very metadata that were read first.  *)
(* That case the code cannot tell and disclaims (_read_capture's "no change *)
(* detected", atomic_snapshot_not_guaranteed); whatever else is written     *)
(* between two chunks, and back to the first size too, shows                *)
(* (_read_capture, _OwnedHandle.close).                                     *)
ObservedWhole ==
    ending = "observed" =>
        /\ ~failed
        /\ count = before.size /\ count <= MaxBytes
        /\ restored \/ \A v, w \in versions : v = w

(* Bytes are taken only of a file that was the selected child of the very   *)
(* directory opened as the granted root, when it was verified; a directory  *)
(* put at the granted path in between shows in the second look at the root. *)
(* Only a path that changes hands twice in a call, there and back between   *)
(* the two looks, is not told from one that never did                       *)
(* (open_authorized_artifact).                                              *)
DirectChild ==
    count > 0 => holder = granted \/ swaps >= 2

(* Every handle acquired has one close attempt when the call is over, and   *)
(* none had two, whichever native call failed, another close included; the  *)
(* root outlives the child (open_authorized_artifact's ExitStack).          *)
HandlesReleased ==
    /\ pc = "idle" => closed = opened
    /\ \A h \in Handles : closed[h] <= opened[h]
    /\ child # Null => root # Null
=============================================================================
