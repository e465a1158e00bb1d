------------------------------- MODULE MCFs ---------------------------------
(***************************************************************************)
(* Small instances of Fs: a disk with two directories and two files,       *)
(*                                                                         *)
(*      /  (1)      d/ (2)      f (3)      d/g (4)                         *)
(*                                                                         *)
(* and one number that is free for a new file.                             *)
(***************************************************************************)
EXTENDS Fs, TLC

SmallTree ==
    (1 :> ("." :> 1 @@ ".." :> 1 @@ "d" :> 2 @@ "f" :> 3)) @@
    (2 :> ("." :> 2 @@ ".." :> 1 @@ "g" :> 4))

(* Without d/g.                                                            *)
TinyTree ==
    (1 :> ("." :> 1 @@ ".." :> 1 @@ "d" :> 2 @@ "f" :> 3)) @@
    (2 :> ("." :> 2 @@ ".." :> 1))

(* Found over "." and "..", in the root and below, with and without '/' at *)
(* the ends; not found; refused for "//".                                  *)
MixedPaths == { <<"/", "d", "/", "..", "/", "f">>, <<"..", "/", "d", "/", ".", "/", "g", "/">>,
                <<"d", "/", "x">>, <<"d", "/", "/", "g">> }

(* For calls whose reads fail: one path for each way through the walk.     *)
FaultPaths == { <<"/">>, <<"f", "/", "g">>, <<"d", "/", "g">>,
                <<"..", "/", "d", "/", "..", "/", "f">>, <<"/", "/", "f">> }

(* For fs_creat() when reads fail: a file that exists, one that does not.  *)
FewCreatPaths == { <<"/", "f">>, <<"d", "/", "x">> }
=============================================================================
