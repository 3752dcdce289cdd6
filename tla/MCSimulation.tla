---------------------------- MODULE MCSimulation ----------------------------
(***************************************************************************)
(* Simulation for TLC: a model, a simulation of two models, and another    *)
(* model after it, as in modellib/test/python/run_convection.py.           *)
(***************************************************************************)
EXTENDS SimulationInvariant

MCMembers == [s \in {"run", "flow"} |->
                IF s = "run" THEN <<"constraint", "flow", "temperature">> ELSE <<"pressure", "velocity">>]
=============================================================================
