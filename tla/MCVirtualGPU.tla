---------------------------- MODULE MCVirtualGPU ----------------------------
EXTENDS VirtualGPU

CONSTANTS v1, v2, h1, h2

TwoVGPUs == {v1, v2}
TwoRings == {h1, h2}

(* Two virtual devices with a ring each, or with one ring; and one virtual
   device that gets more commands than it has signals and cannot create any. *)
Separate == [used |-> TwoVGPUs, hwQueue |-> [v \in TwoVGPUs |-> IF v = v1 THEN h1 ELSE h2],
             commands |-> 3, listed |-> 4]
Shared   == [Separate EXCEPT !.hwQueue = [v \in TwoVGPUs |-> h1]]
Alone    == [Separate EXCEPT !.used = {v1}, !.commands = 4, !.listed = 3]

AllSetups == {Separate, Shared, Alone}
(* One virtual device, to fill memory. *)
Filling == {[Alone EXCEPT !.listed = 4]}
=============================================================================
