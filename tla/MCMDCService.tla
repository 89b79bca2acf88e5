---------------------------- MODULE MCMDCService ----------------------------
(* Instances of MDCService: streams of three packets, the third of them good,*)
(* coded, of a wrong head, of length 0, too long, or negative.               *)
EXTENDS MDCService

Frame(h, n) == <<h, 0, 0, 0, n>>
Good  == Frame(64, 1) \o <<7>> \o Frame(64, 3) \o <<64, 8, 9>>
Tails == { Frame(64, 2) \o <<1, 2>>, Frame(80, 1) \o <<5>> \o Frame(64, 1) \o <<6>>, Frame(32, 1) \o <<5>>, Frame(64, 0) \o <<5>>,
           Frame(64, 4) \o <<5, 6>>, <<64, 255, 0, 0, 1, 5>>, <<64, 0, 0, 1, 1, 5>> }

MCStreams == {Good \o t : t \in Tails}
=============================================================================
