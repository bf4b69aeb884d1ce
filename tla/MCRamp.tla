------------------------------- MODULE MCRamp -------------------------------
(* One gobgp session and two ExaBGP sessions of one container.               *)
EXTENDS Ramp

CONSTANTS g, x, y, box

MCOrder == <<g, x, y>>
MCBox   == [s \in {x, y} |-> box]
=============================================================================
