------------------------------ MODULE PathUtils ------------------------------
(***************************************************************************)
(* path_utils: paths of the configuration and of requests.  A path is the  *)
(* sequence of what its slashes separate, "" where two of them meet.  All  *)
(* paths here are absolute: those of the configuration are put behind a    *)
(* "/", and a request with any other is refused by the parser.             *)
(***************************************************************************)
EXTENDS Naturals, Sequences, SequencesExt

CONSTANT Plain   \* the segments other than "", "." and ".."

ASSUME PlainAssumption == Plain \cap {"", ".", ".."} = {}

Segment == Plain \cup {"", ".", ".."}

(* Bug: ".." above the root is kept. *)
StepKeepsUp(segments, segment) ==
  CASE segment \in {"", "."} -> segments
    [] segment = ".."        -> IF segments = <<>> THEN <<"..">> ELSE Front(segments)
    [] OTHER                 -> Append(segments, segment)

(* One turn of the loop of simplify_path                                   *)
Step(segments, segment) ==
  CASE segment \in {"", "."} -> segments
    [] segment = ".."        -> IF segments = <<>> THEN <<>> ELSE Front(segments)
    [] OTHER                 -> Append(segments, segment)

simplify_path(path) ==
  LET segments[n \in 0..Len(path)] ==
        IF n = 0 THEN <<>> ELSE Step(segments[n - 1], path[n])
  IN  segments[Len(path)]
=============================================================================
