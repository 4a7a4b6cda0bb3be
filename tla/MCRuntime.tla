------------------------------ MODULE MCRuntime ------------------------------
EXTENDS SyncRuntime, SyncOutput, TLC
CONSTANTS p1, p2, c1, c2, c3, f1, f2
MCHost == (c1 :> p1) @@ (c2 :> p1) @@ (c3 :> p2)
MCWanted == (c1 :> {f1}) @@ (c2 :> {f1, f2}) @@ (c3 :> {f1})

(* A pure algorithm, for every text of at most six characters: the         *)
(* detector finds what the regular expression finds.                       *)
MCToken == <<"e", "r", ":">>
ASSUME DetectorAgrees ==
  \A n \in 0 .. 6 : \A text \in [1 .. n -> Alphabet] : Detected(text) = Reported(text)
=============================================================================
