----------------------------- MODULE MCMailStore -----------------------------
(* Two clients of one or two hosts; each run chooses which, and how many   *)
(* paths, entries and calls there are.                                     *)
EXTENDS MailStoreContract, TLC
CONSTANTS h1, h2, c1, c2
MCOneHost == (c1 :> h1) @@ (c2 :> h1)
MCOneEach == (c1 :> h1) @@ (c2 :> h2)
HostsSwap == {(h1 :> h2) @@ (h2 :> h1) @@ (c1 :> c2) @@ (c2 :> c1)}
Owners == HostsSwap \cup Permutations(Entries) \cup Permutations(Databases) \cup Permutations(Paths)
Twins == Permutations({c1, c2}) \cup Permutations(Entries) \cup Permutations(Calls)
=============================================================================
