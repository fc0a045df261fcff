----------------------------- MODULE MCNetwork -----------------------------
(* Network for TLC: two hosts on a line of one or two switches.            *)
EXTENDS Network, TLC

CONSTANTS s1, s2, h1, h2, bcast

OneHome == (h1 :> <<s1, 1>>) @@ (h2 :> <<s1, 2>>)
OneLink == << >>

(* h1 - 1 s1 2 - 1 s2 2 - h2 *)
LineHome == (h1 :> <<s1, 1>>) @@ (h2 :> <<s2, 2>>)
LineLink == (<<s1, 2>> :> <<s2, 1>>) @@ (<<s2, 1>> :> <<s1, 2>>)

(* The same with a second link between the two switches.                   *)
LoopLink == LineLink @@ (<<s1, 3>> :> <<s2, 3>>) @@ (<<s2, 3>> :> <<s1, 3>>)

(* What the theorems suppose of the links: that they close no circle.      *)
ASSUME LinesAreTrees == OneWay <=> Link # LoopLink
=============================================================================
