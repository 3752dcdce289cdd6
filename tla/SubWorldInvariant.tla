-------------------------- MODULE SubWorldInvariant --------------------------
(***************************************************************************)
(* The inductive invariant behind the safety properties of SubWorld, for   *)
(* scripts that copy no variable and jobs that export a SET variable at    *)
(* most once per world and batch.                                          *)
(***************************************************************************)
EXTENDS SubWorld

IsReducer(r) == r \in [value : {r.value}, valueadded : BOOLEAN, exported : BOOLEAN]

\* The tables of states and of reducers have the right shape; the values are left open.
Shape(st, rm) ==
  /\ st \in [Worlds -> [Vars -> States]]
  /\ rm = [w \in Worlds |-> [v \in Vars |-> rm[w][v]]]
  /\ \A w \in Worlds, v \in Vars : IsReducer(rm[w][v])

\* What holds of one variable across the worlds
VarInv(st, rm, v) ==
  /\ Holders(st, v) # {} => In(st, v, {"NONE", "INTERESTED"}) = {}
  /\ v \in Shared => \A a, b \in Holders(st, v) :
       rm[a][v].valueadded /\ rm[a][v].value = rm[b][v].value
  /\ \A w \in Worlds :
       /\ st[w][v] = "NEW" => rm[w][v].valueadded
       /\ st[w][v] \in {"NONE", "INTERESTED"} => ~ rm[w][v].valueadded

\* Between StartBatch and Join the worlds deliver what they agreed on, whatever the
\* faster ones have already merged.
BatchInv ==
  /\ (\E w \in Worlds : pc[w] = "script") => InScript
  /\ \A w \in Worlds : pc[w] \in {"script", "jobs"} => imported[w] = [v \in Vars |-> None]
  /\ \A v \in Shared : \A a, b \in Worlds :
       /\ pc[a] = "jobs" /\ pc[b] = "jobs" => Import(a, v) = Import(b, v)
       /\ pc[a] = "jobs" /\ Delivered(b) => Import(a, v) = imported[b][v]
       /\ Delivered(a) /\ Delivered(b) => imported[a][v] = imported[b][v]

\* The invariant: it is checked on small instances and proved in SubWorldProofs.
IInv ==
  /\ Shape(varstate, reducemap)
  /\ imported = [w \in Worlds |-> imported[w]]
  /\ pc \in [Worlds -> {"script", "jobs", "transport", "joining"}]
  /\ \A v \in Vars : VarInv(varstate, reducemap, v)
  /\ BatchInv

\* A variable that isn't declared has a blank entry on every world.
BlankInv ==
  \A v \in Vars \ declared, w \in Worlds : varstate[w][v] = "NONE" /\ ~ reducemap[w][v].exported

\* Only a variable that the script reads is ever wanted where nobody has it.
Sourced(st, v) ==
  In(st, v, {"INTERESTED"}) # {} => v \in Queried \/ Holders(st, v) \cup New(st, v) # {}

\* While jobs run or their exports are merged, the updates are those of this round.
RoundInv ==
  (\E w \in Worlds : pc[w] \in {"jobs", "transport"}) =>
    \A v \in Shared, w \in Worlds : varstate[w][v] = "NEW" <=> reducemap[w][v].exported

\* What else the refinement of SharedVariables needs: checked on small instances and
\* proved in SubWorldProofs.
RInv ==
  /\ IInv
  /\ BlankInv
  /\ \A v \in Vars : Sourced(varstate, v)
  /\ RoundInv
=============================================================================
