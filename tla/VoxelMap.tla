------------------------------- MODULE VoxelMap -------------------------------
(***************************************************************************)
(* SparseVoxelMap and those who write it: the costmap, the terrain         *)
(* planner and the viewer merge the latest cloud and carve what it sees    *)
(* through, the drive loop merges without carving, the save tool writes    *)
(* the file and the next start loads it.  The voxels are those of one row  *)
(* away from the sensor: a return from one sees through all nearer ones.   *)
(* The farthest is floor, and no obstacle.                                 *)
(***************************************************************************)
EXTENDS Integers, FiniteSets

CONSTANTS
  Row,         \* how many voxels the row has
  MaxHits,     \* bound on the count of hits, which saturates there
  CarveMisses, \* carve_misses
  MaxVoxels,   \* max_voxels
  MaxFrames,   \* bound on the clouds the sensor sends
  MaxSaves     \* bound on the saves

ASSUME VoxelAssumption ==
  Row \in Nat \ {0, 1} /\ MaxHits \in Nat \ {0} /\ CarveMisses \in Nat \ {0} /\ MaxVoxels \in Nat \ {0}

VARIABLES
  hits,    \* _hits, 0 for a voxel that is not in the map
  misses,  \* _misses
  free,    \* _known_free_xy
  cloud,   \* the returns of the latest frame
  file,    \* the target: a whole map, a part of one, or none
  temp,    \* the temporary file beside it
  running, \* the process is up
  past,    \* what really happened to each voxel
  left     \* frames and saves that may still come

mapVars == <<hits, misses, free, cloud, file, temp, running, past, left>>

Voxels == 1..Row
Obstacles == 1..(Row - 1)   \* within obstacle_min_z_m .. obstacle_max_z_m
NoFile == [state |-> "none"]

\* The last observation of a voxel, how often it was seen through since its
\* last return, and whether the limit threw it out.
NoPast == [last |-> [v \in Voxels |-> "never"], through |-> [v \in Voxels |-> 0], evicted |-> {}]

MapInit ==
  /\ hits = [v \in Voxels |-> 0] /\ misses = [v \in Voxels |-> 0] /\ free = {}
  /\ cloud = {}
  /\ file = NoFile /\ temp = NoFile
  /\ running = TRUE
  /\ past = NoPast
  /\ left = [frames |-> MaxFrames, saves |-> MaxSaves]

Lesser(a, b) == IF a < b THEN a ELSE b

-----------------------------------------------------------------------------
(* integrate.                                                              *)

\* Fault: a return does not forgive the misses before it.
Misses_Kept(touched, seen, carved) ==
  [v \in Voxels |-> IF v \in carved THEN 0 ELSE IF v \in seen THEN misses[v] + 1 ELSE misses[v]]

Misses(touched, seen, carved) ==
  [v \in Voxels |-> IF v \in touched \union carved THEN 0 ELSE IF v \in seen THEN misses[v] + 1 ELSE misses[v]]

\* Fault: a ray also frees the voxels that other rays of the cloud end in.
Through_Touched(points) == {v \in Voxels : \E p \in points : v < p}

\* The rays end in the returns; what they pass, and no ray ends in, is free.
Through(points) == {v \in Voxels : \E p \in points : v < p} \ points

\* _enforce_limit: those with the fewest hits go, the first of them first.
Victims(count) ==
  LET present == {v \in Voxels : count[v] > 0}
      Before(a, b) == count[a] < count[b] \/ (count[a] = count[b] /\ a < b)
  IN {v \in present : Cardinality({w \in present : Before(w, v)}) < Cardinality(present) - MaxVoxels}

Integrate(points, carve) ==
  LET counted == [v \in Voxels |-> IF v \in points THEN Lesser(hits[v] + 1, MaxHits) ELSE hits[v]]
      through == IF carve THEN Through(points) ELSE {}
      seen == {v \in through : counted[v] > 0}
      carved == {v \in seen : misses[v] + 1 >= CarveMisses}
      victims == Victims([v \in Voxels |-> IF v \in carved THEN 0 ELSE counted[v]])
      gone == carved \union victims
  IN /\ hits' = [v \in Voxels |-> IF v \in gone THEN 0 ELSE counted[v]]
     /\ misses' = [v \in Voxels |-> IF v \in victims THEN 0 ELSE Misses(points, seen, carved)[v]]
     /\ free' = free \union through
     /\ past' = [last |-> [v \in Voxels |-> IF v \in points THEN "return"
                                           ELSE IF v \in through THEN "through" ELSE past.last[v]],
                 through |-> [v \in Voxels |-> IF v \in points THEN 0
                              ELSE IF v \in through THEN Lesser(past.through[v] + 1, CarveMisses)
                              ELSE past.through[v]],
                 evicted |-> (past.evicted \ (points \union through)) \union victims]

Idle == running /\ temp = NoFile

\* The sensor: any returns along the row.
NewFrame ==
  /\ left.frames > 0
  /\ cloud' \in SUBSET Voxels \ {{}}
  /\ left' = [left EXCEPT !.frames = @ - 1]
  /\ UNCHANGED <<hits, misses, free, file, temp, running, past>>

\* The costmap, the map's state tool and the terrain planner: whoever asks
\* merges the latest cloud, once more if it has been merged before.  The viewer
\* does the same, once for each frame.
MergeAndCarve ==
  /\ Idle /\ cloud # {}
  /\ Integrate(cloud, TRUE)
  /\ UNCHANGED <<cloud, file, temp, running, left>>

\* The drive loop.
MergeOnTheWay ==
  /\ Idle /\ cloud # {}
  /\ Integrate(cloud, FALSE)
  /\ UNCHANGED <<cloud, file, temp, running, left>>

-----------------------------------------------------------------------------
(* save and load.  save holds the event loop: nothing but a crash comes    *)
(* between its steps.                                                      *)

Content == [state |-> "whole", hits |-> hits, free |-> free, past |-> past]
Part == [state |-> "part"]

\* Fault: the file is written in place.
SaveBegins_InPlace ==
  /\ Idle /\ left.saves > 0
  /\ temp' = Part /\ file' = Part
  /\ left' = [left EXCEPT !.saves = @ - 1]
  /\ UNCHANGED <<hits, misses, free, cloud, running, past>>

SaveBegins ==
  /\ Idle /\ left.saves > 0
  /\ temp' = Part
  /\ left' = [left EXCEPT !.saves = @ - 1]
  /\ UNCHANGED <<hits, misses, free, cloud, file, running, past>>

\* Written, flushed and synced.
SaveWrites ==
  /\ running /\ temp = Part
  /\ temp' = Content
  /\ UNCHANGED <<hits, misses, free, cloud, file, running, past, left>>

SaveReplaces ==
  /\ running /\ temp.state = "whole"
  /\ file' = temp /\ temp' = NoFile
  /\ UNCHANGED <<hits, misses, free, cloud, running, past, left>>

\* The disk is full, or the target cannot be replaced: the temporary goes.
SaveFails ==
  /\ running /\ temp # NoFile
  /\ temp' = NoFile
  /\ UNCHANGED <<hits, misses, free, cloud, file, running, past, left>>

\* What was not saved is lost; a temporary file stays, and nobody reads it.
Crash ==
  /\ running
  /\ running' = FALSE /\ temp' = NoFile
  /\ UNCHANGED <<hits, misses, free, cloud, file, past, left>>

\* load checks the hash, without which the runtime does not start.  The misses
\* are not in the file; a map that was larger keeps its size.
Start ==
  /\ ~running /\ file.state # "part"
  /\ running' = TRUE
  /\ misses' = [v \in Voxels |-> 0]
  /\ IF file = NoFile THEN hits' = [v \in Voxels |-> 0] /\ free' = {} /\ past' = NoPast
     ELSE hits' = file.hits /\ free' = file.free /\ past' = file.past
  /\ cloud' = {}
  /\ UNCHANGED <<file, temp, left>>

MapNext ==
  \/ NewFrame \/ MergeAndCarve \/ MergeOnTheWay
  \/ SaveBegins \/ SaveWrites \/ SaveReplaces \/ SaveFails \/ Crash \/ Start

-----------------------------------------------------------------------------
Occupied == {v \in Obstacles : hits[v] > 0}

\* Fault: what was once free stays free.
KnownFree_Stale == free

\* occupancy_grid: free is what was seen through and is not occupied.
KnownFree == free \ Occupied

\* Routes run through known free cells alone: no cell is shown free whose last
\* observation was a return, unless the limit threw it out of the map.
FreeIsSeen == \A v \in KnownFree : past.last[v] = "through" \/ v \in past.evicted

\* "Atomically save": whenever the process dies, the next start finds a whole
\* map or none.
FileIsWhole == file.state # "part"

MapIsTrue == FreeIsSeen /\ FileIsWhole

\* "free space carving removes stale obstacle after confirmations": a voxel
\* leaves the map by the limit or after carve_misses sights through it since
\* its last return.
ObstacleStays ==
  [][\A v \in Voxels : running /\ hits[v] > 0 /\ hits'[v] = 0 =>
       v \in past'.evicted \/ past'.through[v] >= CarveMisses]_mapVars

MapSpec == MapInit /\ [][MapNext]_mapVars
=============================================================================
