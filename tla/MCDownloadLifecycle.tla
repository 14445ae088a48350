------------------------- MODULE MCDownloadLifecycle -------------------------
(* Instances of DownloadLifecycle: which settings the runs may have.         *)
EXTENDS DownloadLifecycle

RunSettings(resume, connections, prealloc, path) ==
  [resume : resume, max_connections : connections, prealloc : prealloc, output_path : path]

SingleSettings == RunSettings({TRUE}, {1}, BOOLEAN, {TRUE})
MultiSettings == RunSettings({TRUE}, {4}, BOOLEAN, BOOLEAN)
MixedSettings == RunSettings({TRUE}, {1, 4}, {TRUE}, {TRUE})

(* A replacement of the same size, then a shorter one.                      *)
Sizes == [v \in Version |-> IF v = 3 THEN 2 ELSE 3]
LargerSizes == [v \in Version |-> IF v = 3 THEN 3 ELSE 4]
Both == BOOLEAN
Never == {FALSE}
Always == {TRUE}
NetworkErrors == {"Connect", "OtherStatus"}
Truncations == {"Body"}
=============================================================================
