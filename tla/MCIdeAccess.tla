----------------------------- MODULE MCIdeAccess -----------------------------
(* Instances of IdeAccess for TLC. *)
EXTENDS IdeAccess, TLC
CONSTANTS r1, r2, w1, w2, c1, c2, c3, s1, s2
TwoRequests == {r1, r2}
OneWorkspace == {w1}
TwoWorkspaces == {w1, w2}
TwoCodes == {c1, c2}
ThreeCodes == {c1, c2, c3}
OneSession == {s1}
TwoSessions == {s1, s2}

Symmetry ==
  Permutations(Request) \cup Permutations(Workspace) \cup Permutations(Code)
    \cup Permutations(Session)
=============================================================================
