----------------------------- MODULE MCSessions ------------------------------
(* Two tabs of one browser, a reviewer and a viewer who share it, and an     *)
(* administrator who demotes and deactivates the reviewer.                   *)
EXTENDS BrowserSession, TLC

CONSTANTS alice, bob

MCHired == alice :> "reviewer" @@ bob :> "viewer"

MCBecomes == alice :> {"viewer", "inactive"} @@ bob :> {}

MCSymmetry == Permutations(Tabs) \cup Permutations(Calls)
=============================================================================
