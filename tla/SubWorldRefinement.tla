-------------------------- MODULE SubWorldRefinement --------------------------
(***************************************************************************)
(* The worlds of SubWorld, together, implement the one value per variable  *)
(* of SharedVariables.  Variables of kind LOCAL are outside this promise.  *)
(***************************************************************************)
EXTENDS SubWorld

\* The one value of a shared variable that the worlds' tables stand for: the
\* reduction of what is NEW somewhere, else the copy that any world holds.
SharedValue(v) ==
  LET news == New(varstate, v)
      having == {w \in Worlds : reducemap[w][v].valueadded}
  IN  IF news # {}
      THEN IF (Several(news) /\ CanClash(Op[v])) \/ ~ news \subseteq having
           THEN [holds |-> "conflict", value |-> 0]
           ELSE [holds |-> "value", value |-> Merged(varstate, reducemap, v)]
      ELSE IF having = {}
      THEN [holds |-> "nothing", value |-> 0]
      ELSE [holds |-> "value", value |-> reducemap[CHOOSE w \in having : TRUE][v].value]

Abstract == INSTANCE SharedVariables WITH
  Vars <- Shared,
  declared <- declared \cap Shared,
  shared <- [v \in Shared |-> SharedValue(v)],
  fresh <- {v \in Shared : \E w \in Worlds : reducemap[w][v].exported}

\* Together the worlds behave as if there was one value per shared variable
\* (subworlds.tex, Variable): no export is lost or counted twice by
\* synchVariableValues, and synchronising changes no value.
OneValue == Abstract!Spec
=============================================================================
