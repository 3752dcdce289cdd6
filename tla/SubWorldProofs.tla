--------------------------- MODULE SubWorldProofs ---------------------------
(***************************************************************************)
(* Proofs about SubWorld, for any number of worlds and variables and any   *)
(* bounds: for scripts that copy no variable and jobs that export a SET    *)
(* variable at most once per world and batch, the worlds' old copies agree *)
(* and so do the values delivered to the jobs of a batch; together the     *)
(* worlds keep one value per shared variable, as SharedVariables says.     *)
(***************************************************************************)
EXTENDS SubWorldRefinement, SubWorldInvariant, VariableGroups, WellFoundedInduction,
        SequenceTheorems, FiniteSetTheorems, TLAPS

\* All worlds would deliver the same value of v to their jobs.
Agreed(rm, v) ==
  \A a, b \in Worlds : /\ rm[a][v].valueadded = rm[b][v].valueadded
                       /\ rm[a][v].valueadded => rm[a][v].value = rm[b][v].value

-----------------------------------------------------------------------------
(* The reducers' methods                                                   *)

\* A new reducer, a reset or a cleared one holds no value; a new round keeps
\* the value and whether there is one.
LEMMA ResetOps ==
  ASSUME NEW r, IsReducer(r)
  PROVE  /\ IsReducer(NewReducer) /\ ~ NewReducer.valueadded
         /\ IsReducer(Reset(r)) /\ ~ Reset(r).valueadded
         /\ IsReducer(Clear(r)) /\ ~ Clear(r).valueadded
         /\ IsReducer(NewRound(r)) /\ NewRound(r).valueadded = r.valueadded
         /\ NewRound(r).value = r.value
  BY DEF IsReducer, NewReducer, Reset, Clear, NewRound

\* What recvValue leaves is a reducer with the value received, except that a
\* reducer of local values ignores what it is sent.
LEMMA ReceiveOps ==
  ASSUME NEW r, IsReducer(r), NEW x, NEW op
  PROVE  /\ IsReducer(Receive(op, r, x))
         /\ op = "LOCAL" => Receive(op, r, x) = r
         /\ op # "LOCAL" => Receive(op, r, x).value = x /\ Receive(op, r, x).valueadded
<1>1. IsReducer(Receive(op, r, x))
  BY DEF IsReducer, Receive
<1>2. op # "LOCAL" => Receive(op, r, x).value = x /\ Receive(op, r, x).valueadded
  BY DEF IsReducer, Receive
<1> QED BY <1>1, <1>2 DEF Receive

\* What reduceRemoteValues leaves is a reducer with the merged value, which
\* counts as added only if the reducer had one before.
LEMMA RemoteOps ==
  ASSUME NEW r, IsReducer(r), NEW x, NEW op
  PROVE  /\ IsReducer(ReduceRemoteValues(op, r, x))
         /\ op # "LOCAL" => ReduceRemoteValues(op, r, x).value = x
         /\ ReduceRemoteValues(op, r, x).valueadded = r.valueadded
<1>1. IsReducer(ReduceRemoteValues(op, r, x))
  BY DEF IsReducer, ReduceRemoteValues
<1>2. op # "LOCAL" => ReduceRemoteValues(op, r, x).value = x
  BY DEF IsReducer, ReduceRemoteValues
<1>3. ReduceRemoteValues(op, r, x).valueadded = r.valueadded
  BY DEF IsReducer, ReduceRemoteValues
<1> QED BY <1>1, <1>2, <1>3

\* Unless it raises, reduceLocalValue leaves a reducer that has a value.
LEMMA ReduceLocal ==
  ASSUME NEW r, IsReducer(r), NEW x, NEW op
  PROVE  /\ IsReducer(ReduceLocalValue(op, r, x))
         /\ ~ LocalClash(op, r) => ReduceLocalValue(op, r, x).valueadded
  BY ResetOps DEF IsReducer, ReduceLocalValue, LocalClash, CanClash

\* One world's entry for one variable changes, the rest of the table stays.
LEMMA TableExcept ==
  ASSUME NEW t, t = [w \in Worlds |-> [v \in Vars |-> t[w][v]]],
         NEW w0 \in Worlds, NEW v0 \in Vars, NEW e
  PROVE  [t EXCEPT ![w0][v0] = e] =
           [w \in Worlds |-> [v \in Vars |-> IF w = w0 /\ v = v0 THEN e ELSE t[w][v]]]
  OBVIOUS

-----------------------------------------------------------------------------
(* Synchronisation keeps what holds of one variable.                       *)

\* After synchVariableInfo every world wants what some world has.
AllWant(st, v) ==
  Holders(st, v) \cup New(st, v) # {} =>
    \A w \in Worlds : st[w][v] \in {"INTERESTED", "OLDINTERESTED", "NEW"}

\* synchVariableInfo keeps what is known of each variable; afterwards every world
\* takes part in a declared one that some world has a value of.
LEMMA InfoKeeps ==
  ASSUME NEW st, NEW rm, Shape(st, rm), NEW v \in Vars, VarInv(st, rm, v)
  PROVE  /\ VarInv(SynchVariableInfo(st), rm, v)
         /\ v \in declared => AllWant(SynchVariableInfo(st), v)
<1> DEFINE si == SynchVariableInfo(st)
<1>1. \A w \in Worlds : si[w][v] =
        IF v \in declared /\ Holders(st, v) \cup New(st, v) # {}
        THEN Interested(st[w][v]) ELSE st[w][v]
  BY DEF SynchVariableInfo
<1>2. \A w \in Worlds : st[w][v] \in States
  BY DEF Shape
<1> HIDE DEF si
<1>3. \A w \in Worlds : /\ si[w][v] = "NEW" <=> st[w][v] = "NEW"
                        /\ si[w][v] \in {"OLD", "OLDINTERESTED"} <=> st[w][v] \in {"OLD", "OLDINTERESTED"}
                        /\ si[w][v] \in {"NONE", "INTERESTED"} <=> st[w][v] \in {"NONE", "INTERESTED"}
  BY <1>1, <1>2 DEF Interested, States
<1>4. /\ Holders(si, v) = Holders(st, v)
      /\ New(si, v) = New(st, v)
      /\ In(si, v, {"NONE", "INTERESTED"}) = In(st, v, {"NONE", "INTERESTED"})
  BY <1>3 DEF Holders, New, In
<1>5. VarInv(si, rm, v)
  BY <1>3, <1>4 DEF VarInv
<1>6. ASSUME v \in declared PROVE AllWant(si, v)
  BY <1>1, <1>2, <1>4, <1>6 DEF AllWant, Interested, States
<1> QED BY <1>5, <1>6 DEF si

\* synchVariableValues keeps what is known of each variable; if no world
\* raises, all worlds agree on a shared one.
LEMMA ValuesKeep ==
  ASSUME NEW st, NEW rm, Shape(st, rm), NEW v \in Vars, VarInv(st, rm, v),
         v \in declared => AllWant(st, v),
         NEW s2, NEW r2,
         \A w \in Worlds : /\ s2[w][v] = SynchedState(st, w, v)
                           /\ r2[w][v] = SynchedReducer(st, rm, w, v)
  PROVE  /\ \A w \in Worlds : s2[w][v] \in States /\ IsReducer(r2[w][v])
         /\ VarInv(s2, r2, v)
         /\ v \in Shared \cap declared /\ Failing(st) = {} => Agreed(r2, v)
<1> DEFINE N == New(st, v)
           Goal == /\ \A w \in Worlds : s2[w][v] \in States /\ IsReducer(r2[w][v])
                   /\ VarInv(s2, r2, v)
                   /\ v \in Shared \cap declared /\ Failing(st) = {} => Agreed(r2, v)
<1>s. \A w \in Worlds : st[w][v] \in States /\ IsReducer(rm[w][v])
  BY DEF Shape
<1>1. CASE Loses(st, v)
  <2>1. \A w \in Worlds : s2[w][v] = "NONE" /\ r2[w][v] = Reset(rm[w][v])
    BY <1>1 DEF SynchedState, SynchedReducer
  <2>2. \A w \in Worlds : IsReducer(r2[w][v]) /\ ~ r2[w][v].valueadded
    BY <2>1, <1>s, ResetOps
  <2>3. Failing(st) # {}
    BY <1>1 DEF Loses, StopsAt
  <2> QED BY <2>1, <2>2, <2>3 DEF VarInv, Holders, In, States
<1>2. CASE ~ Loses(st, v) /\ v \notin Passed(st)
  <2>1. v \notin declared \/ Failing(st) # {}
    BY <1>2 DEF Passed
  <2>2. \A w \in Worlds : s2[w][v] = st[w][v] /\ r2[w][v] = rm[w][v]
    BY <1>2 DEF SynchedState, SynchedReducer
  <2>3. VarInv(s2, r2, v)
    BY <2>2 DEF VarInv, Holders, In
  <2> QED BY <2>1, <2>2, <2>3, <1>s
<1>3. CASE v \in Passed(st) /\ N = {}
  <2>1. ~ Ships(st, v) /\ ~ Ages(st, v) /\ ~ Several(N) /\ ~ Loses(st, v)
    BY <1>3 DEF Ships, Several, Ages, Loses, SetClash
  <2>2. ~ ShipsOld(st, v)
    BY DEF VarInv, ShipsOld, In
  <2>3. \A w \in Worlds : s2[w][v] = st[w][v] /\ r2[w][v] = rm[w][v]
    BY <1>3, <2>1, <2>2 DEF SynchedState, SynchedReducer, SharedState, SharedReducer
  <2>4. VarInv(s2, r2, v)
    BY <2>3 DEF VarInv, Holders, In
  <2>5. ASSUME v \in Shared, v \in declared PROVE Agreed(r2, v)
    <3>1. CASE Holders(st, v) = {}
      <4>1. \A w \in Worlds : st[w][v] \in {"NONE", "INTERESTED"}
        BY <1>3, <3>1, <1>s DEF Holders, New, In, States
      <4>2. \A w \in Worlds : ~ r2[w][v].valueadded
        BY <4>1, <2>3 DEF VarInv
      <4>3. \A w \in Worlds : r2[w][v].valueadded \in BOOLEAN
        BY <2>3, <1>s DEF IsReducer
      <4> QED BY <4>2, <4>3 DEF Agreed
    <3>2. CASE Holders(st, v) # {}
      <4>1. \A w \in Worlds : w \in Holders(st, v)
        BY <1>3, <3>2, <2>5 DEF AllWant, Holders, New, In, VarInv
      <4>2. \A w \in Worlds : r2[w][v].valueadded
        BY <4>1, <2>3, <2>5 DEF VarInv
      <4>3. \A a, b \in Worlds : r2[a][v].value = r2[b][v].value
        BY <4>1, <2>3, <2>5 DEF VarInv
      <4> QED BY <4>2, <4>3 DEF Agreed
    <3> QED BY <3>1, <3>2
  <2> QED BY <2>3, <2>4, <2>5, <1>s
<1>4. CASE v \in Passed(st) /\ N # {}
  <2>1. v \in declared /\ v \notin Failing(st)
    BY <1>4, VarsAssumption DEF Passed
  <2>2. \A w \in Worlds : st[w][v] \in {"INTERESTED", "OLDINTERESTED", "NEW"}
    BY <1>4, <2>1 DEF AllWant
  <2>3. ~ Loses(st, v) /\ ~ ShipsOld(st, v)
    BY <1>4, <2>1 DEF Loses, StopsAt, ShipsOld
  <2>4. \A w \in Worlds : w \in N <=> st[w][v] = "NEW"
    BY DEF New, In
  <2>5. \A w \in Worlds : w \in Wanting(st, v) <=> st[w][v] \in {"INTERESTED", "OLDINTERESTED"}
    BY DEF Wanting, In
  <2>6. Op[v] # "LOCAL" <=> v \in Shared
    BY DEF Shared
  \* Whatever was shipped, every world ends with a copy, and equal ones if v is shared.
  <2> DEFINE Ends ==
        \A w \in Worlds :
          /\ s2[w][v] \in {"OLD", "OLDINTERESTED", "NEW"}
          /\ s2[w][v] = "NEW" => r2[w][v].valueadded
          /\ IsReducer(r2[w][v])
          /\ v \in Shared => /\ r2[w][v].valueadded
                             /\ \A u \in Worlds : r2[w][v].value = r2[u][v].value
  <2>7. ASSUME ~ Ships(st, v) PROVE Ends
    <3>1. \A w \in Worlds : st[w][v] = "NEW"
      BY <1>4, <2>2, <2>5, <2>7 DEF Ships, Wanting, In
    <3>2. \A a, b \in Worlds : a = b
      BY <2>4, <2>7, <3>1 DEF Ships, Several
    <3>3. \A w \in Worlds : SharedState(st, w, v) = "NEW" /\ SharedReducer(st, rm, w, v) = rm[w][v]
      BY <2>3, <2>7, <3>1 DEF SharedState, SharedReducer, Ships
    <3>4. \A w \in Worlds : s2[w][v] \in {"OLD", "NEW"} /\ r2[w][v] = rm[w][v]
      BY <1>4, <2>3, <3>3 DEF SynchedState, SynchedReducer
    <3>5. \A w \in Worlds : r2[w][v].valueadded
      BY <3>1, <3>4 DEF VarInv
    <3> QED BY <3>2, <3>4, <3>5, <1>s
  <2>8. ASSUME Ships(st, v), N = Worlds PROVE Ends
    <3>1. \A w \in Worlds : SharedState(st, w, v) = "NEW"
      BY <2>4, <2>8 DEF SharedState
    <3>2. \A w \in Worlds : s2[w][v] \in {"OLD", "NEW"} /\ r2[w][v] = SharedReducer(st, rm, w, v)
      BY <1>4, <2>3, <3>1 DEF SynchedState, SynchedReducer
    <3>3. \A w \in Worlds : rm[w][v].valueadded
      BY <2>4, <2>8 DEF VarInv
    <3>4. \A w \in Worlds : r2[w][v] = ReduceRemoteValues(Op[v], rm[w][v], Merged(st, rm, v))
      BY <2>8, <3>2 DEF SharedReducer
    <3>5. ASSUME NEW w \in Worlds
          PROVE  /\ IsReducer(r2[w][v])
                 /\ v \in Shared => r2[w][v].value = Merged(st, rm, v)
                 /\ r2[w][v].valueadded = rm[w][v].valueadded
      BY <1>s, <2>6, <3>4, RemoteOps
    <3> QED BY <3>2, <3>3, <3>5
  <2>9. ASSUME Ships(st, v), N # Worlds PROVE Ends
    <3>1. \A w \in Worlds : SharedState(st, w, v) \in {"OLDINTERESTED", "NEW"}
      BY <2>2, <2>9 DEF SharedState
    <3>2. \A w \in Worlds : SharedState(st, w, v) = "NEW" => st[w][v] = "NEW"
      BY <2>2 DEF SharedState
    <3>3. \A w \in Worlds : /\ s2[w][v] \in {"OLD", "OLDINTERESTED", "NEW"}
                            /\ s2[w][v] = "NEW" => st[w][v] = "NEW"
                            /\ r2[w][v] = SharedReducer(st, rm, w, v)
      BY <1>4, <2>3, <3>1, <3>2 DEF SynchedState, SynchedReducer
    <3>4. \A w \in Worlds : r2[w][v] = Receive(Op[v], rm[w][v], Merged(st, rm, v))
      BY <2>2, <2>4, <2>5, <2>9, <3>3 DEF SharedReducer
    <3>5. \A w \in Worlds :
            /\ IsReducer(r2[w][v])
            /\ v \notin Shared => r2[w][v] = rm[w][v]
            /\ v \in Shared => r2[w][v].value = Merged(st, rm, v) /\ r2[w][v].valueadded
      <4> SUFFICES ASSUME NEW w \in Worlds
                   PROVE  /\ IsReducer(r2[w][v])
                          /\ v \notin Shared => r2[w][v] = rm[w][v]
                          /\ v \in Shared => r2[w][v].value = Merged(st, rm, v) /\ r2[w][v].valueadded
        OBVIOUS
      <4>1. IsReducer(rm[w][v])
        BY <1>s
      <4>2. r2[w][v] = Receive(Op[v], rm[w][v], Merged(st, rm, v))
        BY <3>4
      <4> QED BY <2>6, <4>1, <4>2, ReceiveOps
    <3>6. \A w \in Worlds : st[w][v] = "NEW" => rm[w][v].valueadded
      BY DEF VarInv
    <3> QED BY <3>3, <3>5, <3>6
  <2>10. Ends
    BY <2>7, <2>8, <2>9
  <2>11. VarInv(s2, r2, v)
    BY <2>10 DEF VarInv, Holders, In
  <2>12. v \in Shared => Agreed(r2, v)
    BY <2>10 DEF Agreed
  <2> QED BY <2>10, <2>11, <2>12 DEF States
<1> QED BY <1>1, <1>2, <1>3, <1>4 DEF Passed

\* Both exchanges of runJobs together keep what is known of the variables.
LEMMA SynchKeeps ==
  ASSUME NEW st, NEW rm, Shape(st, rm), \A v \in Vars : VarInv(st, rm, v), Synch(st, rm)
  PROVE  /\ Shape(varstate', reducemap')
         /\ \A v \in Vars : VarInv(varstate', reducemap', v)
         /\ SynchSucceeds(st) => \A v \in Shared \cap declared : Agreed(reducemap', v)
<1> DEFINE si == SynchVariableInfo(st)
<1>1. Shape(si, rm)
  <2>1. \A w \in Worlds, v \in Vars : st[w][v] \in States
    BY DEF Shape
  <2>2. si \in [Worlds -> [Vars -> States]]
    BY <2>1 DEF SynchVariableInfo, Interested, States
  <2> QED BY <2>2 DEF Shape
<1>2. \A v \in Vars : VarInv(si, rm, v) /\ (v \in declared => AllWant(si, v))
  BY InfoKeeps
<1>3. /\ varstate' = [w \in Worlds |-> [v \in Vars |-> SynchedState(si, w, v)]]
      /\ reducemap' = [w \in Worlds |-> [v \in Vars |-> SynchedReducer(si, rm, w, v)]]
  BY DEF Synch
<1>4. SynchSucceeds(st) <=> Failing(si) = {}
  BY DEF SynchSucceeds
<1> HIDE DEF si
<1>5. ASSUME NEW v \in Vars
      PROVE  /\ \A w \in Worlds : varstate'[w][v] \in States /\ IsReducer(reducemap'[w][v])
             /\ VarInv(varstate', reducemap', v)
             /\ v \in Shared \cap declared /\ Failing(si) = {} => Agreed(reducemap', v)
  <2>1. \A w \in Worlds : /\ varstate'[w][v] = SynchedState(si, w, v)
                          /\ reducemap'[w][v] = SynchedReducer(si, rm, w, v)
    BY <1>3
  <2> QED BY <1>1, <1>2, <2>1, ValuesKeep
<1>6. varstate' \in [Worlds -> [Vars -> States]]
  BY <1>3, <1>5
<1>7. reducemap' = [w \in Worlds |-> [v \in Vars |-> reducemap'[w][v]]]
  BY <1>3
<1>8. Shared \subseteq Vars
  BY DEF Shared
<1> QED BY <1>4, <1>5, <1>6, <1>7, <1>8 DEF Shape

-----------------------------------------------------------------------------
(* The other operations on the tables                                      *)

\* So does resetInterest with the new round of the reducers.
LEMMA ResetKeeps ==
  ASSUME Shape(varstate, reducemap), \A v \in Vars : VarInv(varstate, reducemap, v)
  PROVE  /\ Shape(ResetInterest(varstate), NewRounds)
         /\ \A v \in Vars : VarInv(ResetInterest(varstate), NewRounds, v)
<1> DEFINE st == ResetInterest(varstate)
           rm == NewRounds
<1>1. \A w \in Worlds, v \in Vars : /\ st[w][v] = NotInterested(varstate[w][v])
                                    /\ rm[w][v] = NewRound(reducemap[w][v])
  BY DEF ResetInterest, NewRounds
<1>2. rm = [w \in Worlds |-> [v \in Vars |-> rm[w][v]]]
  BY DEF NewRounds
<1>3. \A w \in Worlds, v \in Vars : varstate[w][v] \in States /\ IsReducer(reducemap[w][v])
  BY DEF Shape
<1>4. st \in [Worlds -> [Vars -> States]]
  BY <1>3 DEF ResetInterest, NotInterested, States
<1> HIDE DEF st, rm
<1>5. ASSUME NEW w \in Worlds, NEW v \in Vars
      PROVE  /\ IsReducer(rm[w][v])
             /\ rm[w][v].valueadded = reducemap[w][v].valueadded
             /\ rm[w][v].value = reducemap[w][v].value
             /\ st[w][v] = "NEW" <=> varstate[w][v] = "NEW"
             /\ st[w][v] \in {"OLD", "OLDINTERESTED"} <=> varstate[w][v] \in {"OLD", "OLDINTERESTED"}
             /\ st[w][v] \in {"NONE", "INTERESTED"} <=> varstate[w][v] \in {"NONE", "INTERESTED"}
  <2>1. /\ IsReducer(rm[w][v])
        /\ rm[w][v].valueadded = reducemap[w][v].valueadded
        /\ rm[w][v].value = reducemap[w][v].value
    BY <1>1, <1>3, ResetOps
  <2>2. varstate[w][v] \in States /\ st[w][v] = NotInterested(varstate[w][v])
    BY <1>1, <1>3
  <2> QED BY <2>1, <2>2 DEF NotInterested, States
<1>6. ASSUME NEW v \in Vars PROVE VarInv(st, rm, v)
  <2>1. Holders(st, v) = Holders(varstate, v)
    BY <1>5 DEF Holders, In
  <2>2. In(st, v, {"NONE", "INTERESTED"}) = In(varstate, v, {"NONE", "INTERESTED"})
    BY <1>5 DEF In
  <2>3. Holders(varstate, v) \subseteq Worlds
    BY DEF Holders, In
  <2>4. VarInv(varstate, reducemap, v)
    OBVIOUS
  <2> QED BY <1>5, <2>1, <2>2, <2>3, <2>4 DEF VarInv
<1>7. Shape(st, rm)
  BY <1>2, <1>4, <1>5 DEF Shape
<1> QED BY <1>6, <1>7 DEF st, rm

\* A world asks for one variable.
LEMMA InterestKeeps ==
  ASSUME Shape(varstate, reducemap), \A v \in Vars : VarInv(varstate, reducemap, v),
         NEW u \in Vars
  PROVE  LET st == [w \in Worlds |-> [varstate[w] EXCEPT ![u] = Interested(@)]]
         IN  Shape(st, reducemap) /\ \A v \in Vars : VarInv(st, reducemap, v)
<1> DEFINE st == [w \in Worlds |-> [varstate[w] EXCEPT ![u] = Interested(@)]]
<1>1. \A w \in Worlds, v \in Vars : varstate[w][v] \in States
  BY DEF Shape
<1>2. varstate \in [Worlds -> [Vars -> States]]
  BY DEF Shape
<1>3. \A w \in Worlds, v \in Vars :
        st[w][v] = IF v = u THEN Interested(varstate[w][v]) ELSE varstate[w][v]
  BY <1>2
<1>4. st \in [Worlds -> [Vars -> States]]
  BY <1>1, <1>2 DEF Interested, States
<1> HIDE DEF st
<1>5. \A w \in Worlds, v \in Vars :
        /\ st[w][v] = "NEW" <=> varstate[w][v] = "NEW"
        /\ st[w][v] \in {"OLD", "OLDINTERESTED"} <=> varstate[w][v] \in {"OLD", "OLDINTERESTED"}
        /\ st[w][v] \in {"NONE", "INTERESTED"} <=> varstate[w][v] \in {"NONE", "INTERESTED"}
  BY <1>1, <1>3 DEF Interested, States
<1>6. ASSUME NEW v \in Vars PROVE VarInv(st, reducemap, v)
  <2>1. Holders(st, v) = Holders(varstate, v)
    BY <1>5 DEF Holders, In
  <2>2. In(st, v, {"NONE", "INTERESTED"}) = In(varstate, v, {"NONE", "INTERESTED"})
    BY <1>5 DEF In
  <2>3. VarInv(varstate, reducemap, v)
    OBVIOUS
  <2> QED BY <1>5, <2>1, <2>2, <2>3 DEF VarInv
<1>7. Shape(st, reducemap)
  BY <1>4 DEF Shape
<1> QED BY <1>6, <1>7 DEF st

\* addVariable, removeVariable and clearVariable leave a blank entry everywhere.
LEMMA BlankKeeps ==
  ASSUME Shape(varstate, reducemap), \A v \in Vars : VarInv(varstate, reducemap, v),
         NEW u \in Vars,
         varstate' = [w \in Worlds |-> [varstate[w] EXCEPT ![u] = "NONE"]],
         reducemap' = [w \in Worlds |-> [v \in Vars |-> reducemap'[w][v]]],
         \A w \in Worlds : IsReducer(reducemap'[w][u]) /\ ~ reducemap'[w][u].valueadded,
         \A w \in Worlds, v \in Vars \ {u} : reducemap'[w][v] = reducemap[w][v]
  PROVE  /\ Shape(varstate', reducemap')
         /\ \A v \in Vars : VarInv(varstate', reducemap', v)
<1>1. varstate \in [Worlds -> [Vars -> States]]
  BY DEF Shape
<1>2. \A w \in Worlds, v \in Vars : varstate'[w][v] = IF v = u THEN "NONE" ELSE varstate[w][v]
  BY <1>1
<1>3. varstate' \in [Worlds -> [Vars -> States]]
  BY <1>1 DEF States
<1>4. \A w \in Worlds, v \in Vars : IsReducer(reducemap'[w][v])
  BY DEF Shape
<1>5. Shape(varstate', reducemap')
  BY <1>3, <1>4 DEF Shape
<1>6. VarInv(varstate', reducemap', u)
  <2>1. Holders(varstate', u) = {}
    BY <1>2 DEF Holders, In
  <2> QED BY <1>2, <2>1 DEF VarInv
<1>7. ASSUME NEW v \in Vars \ {u} PROVE VarInv(varstate', reducemap', v)
  <2>1. \A w \in Worlds : varstate'[w][v] = varstate[w][v] /\ reducemap'[w][v] = reducemap[w][v]
    BY <1>2
  <2>2. VarInv(varstate, reducemap, v)
    OBVIOUS
  <2>3. Holders(varstate', v) = Holders(varstate, v)
    BY <2>1 DEF Holders, In
  <2>4. In(varstate', v, {"NONE", "INTERESTED"}) = In(varstate, v, {"NONE", "INTERESTED"})
    BY <2>1 DEF In
  <2>5. Holders(varstate, v) \subseteq Worlds
    BY DEF Holders, In
  <2>6. Holders(varstate', v) # {} => In(varstate', v, {"NONE", "INTERESTED"}) = {}
    BY <2>2, <2>3, <2>4 DEF VarInv
  <2>7. v \in Shared => \A a, b \in Holders(varstate', v) :
          reducemap'[a][v].valueadded /\ reducemap'[a][v].value = reducemap'[b][v].value
    BY <2>1, <2>2, <2>3, <2>5 DEF VarInv
  <2>8. \A w \in Worlds :
          /\ varstate'[w][v] = "NEW" => reducemap'[w][v].valueadded
          /\ varstate'[w][v] \in {"NONE", "INTERESTED"} => ~ reducemap'[w][v].valueadded
    BY <2>1, <2>2 DEF VarInv
  <2> QED BY <2>6, <2>7, <2>8 DEF VarInv
<1> QED BY <1>5, <1>6, <1>7

-----------------------------------------------------------------------------
(* The invariant is inductive.                                             *)

\* The script assumed: it copies nothing, and no world sets a SET variable twice in a batch.
PlainScript == Copied = {} /\ SetTwice = FALSE

\* In a new SplitWorld no variable is declared, and the invariant holds.
LEMMA InitInv == Init => IInv
<1> SUFFICES ASSUME Init PROVE IInv
  OBVIOUS
<1> USE DEF Init
<1>1. IsReducer(NewReducer) /\ ~ NewReducer.valueadded
  BY DEF IsReducer, NewReducer
<1>2. \A w \in Worlds, v \in Vars : varstate[w][v] = "NONE" /\ reducemap[w][v] = NewReducer
  OBVIOUS
<1>3. Shape(varstate, reducemap)
  <2>1. varstate \in [Worlds -> [Vars -> States]]
    BY DEF States
  <2>2. reducemap = [w \in Worlds |-> [v \in Vars |-> reducemap[w][v]]]
    OBVIOUS
  <2> QED BY <1>1, <1>2, <2>1, <2>2 DEF Shape
<1>4. ASSUME NEW v \in Vars PROVE VarInv(varstate, reducemap, v)
  <2>1. Holders(varstate, v) = {}
    BY <1>2 DEF Holders, In
  <2> QED BY <1>1, <1>2, <2>1 DEF VarInv
<1>5. BatchInv
  BY DEF BatchInv, InScript, NotDelivered, Delivered
<1>6. imported = [w \in Worlds |-> imported[w]]
  BY DEF NotDelivered
<1> QED BY <1>3, <1>4, <1>5, <1>6 DEF IInv

\* An operation that leaves every world in the script delivers nothing.
LEMMA ScriptKeeps ==
  ASSUME IInv, InScript, UNCHANGED <<imported, pc>>,
         Shape(varstate', reducemap'), \A v \in Vars : VarInv(varstate', reducemap', v)
  PROVE  IInv'
<1>1. \A w \in Worlds : imported'[w] = [v \in Vars |-> None]
  BY DEF IInv, BatchInv, InScript
<1>2. \A w \in Worlds : pc'[w] = "script"
  BY DEF InScript
<1>3. Shared \subseteq Vars
  BY DEF Shared
<1>4. BatchInv'
  BY <1>1, <1>2, <1>3 DEF BatchInv, InScript, Delivered
<1> QED BY <1>4 DEF IInv

\* Every step of the script, of runJobs and of the queries keeps the invariant.
LEMMA StepInv ==
  ASSUME PlainScript, IInv, Next
  PROVE  IInv'
<1>s. Shape(varstate, reducemap) /\ \A v \in Vars : VarInv(varstate, reducemap, v)
  BY DEF IInv
<1>p. pc \in [Worlds -> {"script", "jobs", "transport", "joining"}]
  BY DEF IInv
<1>i. imported = [w \in Worlds |-> imported[w]]
  BY DEF IInv
<1>b. BatchInv
  BY DEF IInv
<1>t. reducemap = [w \in Worlds |-> [v \in Vars |-> reducemap[w][v]]]
  BY <1>s DEF Shape
<1>r. \A w \in Worlds, v \in Vars : IsReducer(reducemap[w][v])
  BY <1>s DEF Shape
<1>h. Shared \subseteq Vars
  BY DEF Shared
<1>1. ASSUME NEW u \in Vars, AddVariable(u) PROVE IInv'
  <2>1. /\ InScript /\ UNCHANGED <<imported, pc>>
        /\ varstate' = [w \in Worlds |-> [varstate[w] EXCEPT ![u] = "NONE"]]
        /\ reducemap' = [w \in Worlds |-> [reducemap[w] EXCEPT ![u] = NewReducer]]
    BY <1>1 DEF AddVariable
  <2>2. reducemap' = [w \in Worlds |-> [v \in Vars |-> IF v = u THEN NewReducer ELSE reducemap[w][v]]]
    BY <1>t, <2>1
  <2>3. IsReducer(NewReducer) /\ ~ NewReducer.valueadded
    BY DEF IsReducer, NewReducer
  <2>4. reducemap' = [w \in Worlds |-> [v \in Vars |-> reducemap'[w][v]]]
    BY <2>2
  <2>5. \A w \in Worlds : IsReducer(reducemap'[w][u]) /\ ~ reducemap'[w][u].valueadded
    BY <2>2, <2>3
  <2>6. \A w \in Worlds, v \in Vars \ {u} : reducemap'[w][v] = reducemap[w][v]
    BY <2>2
  <2>7. /\ Shape(varstate', reducemap')
        /\ \A v \in Vars : VarInv(varstate', reducemap', v)
    BY <1>s, <2>1, <2>4, <2>5, <2>6, BlankKeeps
  <2> QED BY <2>1, <2>7, ScriptKeeps
<1>2. ASSUME NEW u \in Vars, RemoveVariable(u) PROVE IInv'
  <2>1. /\ InScript /\ UNCHANGED <<imported, pc>>
        /\ varstate' = [w \in Worlds |-> [varstate[w] EXCEPT ![u] = "NONE"]]
        /\ reducemap' = [w \in Worlds |-> [reducemap[w] EXCEPT ![u] = NewReducer]]
    BY <1>2 DEF RemoveVariable, ScriptOp
  <2>2. reducemap' = [w \in Worlds |-> [v \in Vars |-> IF v = u THEN NewReducer ELSE reducemap[w][v]]]
    BY <1>t, <2>1
  <2>3. IsReducer(NewReducer) /\ ~ NewReducer.valueadded
    BY DEF IsReducer, NewReducer
  <2>4. reducemap' = [w \in Worlds |-> [v \in Vars |-> reducemap'[w][v]]]
    BY <2>2
  <2>5. \A w \in Worlds : IsReducer(reducemap'[w][u]) /\ ~ reducemap'[w][u].valueadded
    BY <2>2, <2>3
  <2>6. \A w \in Worlds, v \in Vars \ {u} : reducemap'[w][v] = reducemap[w][v]
    BY <2>2
  <2>7. /\ Shape(varstate', reducemap')
        /\ \A v \in Vars : VarInv(varstate', reducemap', v)
    BY <1>s, <2>1, <2>4, <2>5, <2>6, BlankKeeps
  <2> QED BY <2>1, <2>7, ScriptKeeps
<1>3. ASSUME NEW u \in Vars, ClearVariable(u) PROVE IInv'
  <2>1. /\ InScript /\ UNCHANGED <<imported, pc>>
        /\ varstate' = [w \in Worlds |-> [varstate[w] EXCEPT ![u] = "NONE"]]
        /\ reducemap' = [w \in Worlds |-> [reducemap[w] EXCEPT ![u] = Reset(@)]]
    BY <1>3 DEF ClearVariable, ScriptOp
  <2>2. reducemap' = [w \in Worlds |-> [v \in Vars |->
                        IF v = u THEN Reset(reducemap[w][u]) ELSE reducemap[w][v]]]
    BY <1>t, <2>1
  <2>3. \A w \in Worlds : IsReducer(Reset(reducemap[w][u])) /\ ~ Reset(reducemap[w][u]).valueadded
    BY <1>r, ResetOps
  <2>4. reducemap' = [w \in Worlds |-> [v \in Vars |-> reducemap'[w][v]]]
    BY <2>2
  <2>5. \A w \in Worlds : IsReducer(reducemap'[w][u]) /\ ~ reducemap'[w][u].valueadded
    BY <2>2, <2>3
  <2>6. \A w \in Worlds, v \in Vars \ {u} : reducemap'[w][v] = reducemap[w][v]
    BY <2>2
  <2>7. /\ Shape(varstate', reducemap')
        /\ \A v \in Vars : VarInv(varstate', reducemap', v)
    BY <1>s, <2>1, <2>4, <2>5, <2>6, BlankKeeps
  <2> QED BY <2>1, <2>7, ScriptKeeps
<1>4. ASSUME NEW u \in Vars, GetVariable(u) PROVE IInv'
  <2> DEFINE st == [w \in Worlds |-> [varstate[w] EXCEPT ![u] = Interested(@)]]
  <2>1. InScript /\ UNCHANGED <<imported, pc>> /\ Synch(st, reducemap)
    BY <1>4 DEF GetVariable, ScriptOp
  <2>2. Shape(st, reducemap) /\ \A v \in Vars : VarInv(st, reducemap, v)
    BY <1>s, InterestKeeps
  <2> HIDE DEF st
  <2>3. /\ Shape(varstate', reducemap')
        /\ \A v \in Vars : VarInv(varstate', reducemap', v)
    BY <2>1, <2>2, SynchKeeps
  <2> QED BY <2>1, <2>3, ScriptKeeps
<1>5. ASSUME StartBatch PROVE IInv'
  <2> DEFINE st == ResetInterest(varstate)
  <2>1. /\ InScript /\ Synch(st, NewRounds)
        /\ UNCHANGED <<declared, imported>>
        /\ IF SynchSucceeds(st) THEN pc' = [w \in Worlds |-> "jobs"]
                                ELSE pc' = [w \in Worlds |-> "joining"]
    BY <1>5 DEF StartBatch
  <2>2. Shape(st, NewRounds) /\ \A v \in Vars : VarInv(st, NewRounds, v)
    BY <1>s, ResetKeeps
  <2> HIDE DEF st
  <2>3. /\ Shape(varstate', reducemap')
        /\ \A v \in Vars : VarInv(varstate', reducemap', v)
        /\ SynchSucceeds(st) => \A v \in Shared \cap declared : Agreed(reducemap', v)
    BY <2>1, <2>2, SynchKeeps
  <2>4. \A w \in Worlds : imported'[w] = [v \in Vars |-> None]
    BY <1>b, <2>1 DEF BatchInv, InScript
  <2>5. CASE SynchSucceeds(st)
    <3>1. \A w \in Worlds : pc'[w] = "jobs"
      BY <2>1, <2>5
    <3>2. \A v \in Shared, a, b \in Worlds : Import(a, v)' = Import(b, v)'
      BY <2>1, <2>3, <2>5 DEF Import, Agreed
    <3>3. BatchInv'
      BY <2>4, <3>1, <3>2 DEF BatchInv, InScript, Delivered
    <3> QED BY <1>i, <2>1, <2>3, <2>5, <3>3 DEF IInv
  <2>6. CASE ~ SynchSucceeds(st)
    <3>1. \A w \in Worlds : pc'[w] = "joining"
      BY <2>1, <2>6
    <3>2. BatchInv'
      BY <1>h, <2>4, <3>1 DEF BatchInv, InScript, Delivered
    <3> QED BY <1>i, <2>1, <2>3, <2>6, <3>2 DEF IInv
  <2> QED BY <2>5, <2>6
<1>6. ASSUME StartBatchFails PROVE IInv'
  <2>1. /\ InScript /\ UNCHANGED <<imported, pc>>
        /\ varstate' = ResetInterest(varstate) /\ reducemap' = NewRounds
    BY <1>6 DEF StartBatchFails
  <2> QED BY <1>s, <2>1, ResetKeeps, ScriptKeeps
<1>7. ASSUME NEW w \in Worlds, NEW r \in 0 .. 3, RunJobs(w, r) PROVE IInv'
  <2>1. /\ pc[w] = "jobs"
        /\ imported' = [imported EXCEPT ![w] = [v \in Vars |-> Import(w, v)]]
        /\ pc' = [pc EXCEPT ![w] = IF r < 2 THEN "transport" ELSE "joining"]
        /\ UNCHANGED <<declared, varstate, reducemap>>
    BY <1>7 DEF RunJobs
  <2>2. \A a \in Worlds : /\ imported'[a] = IF a = w THEN [v \in Vars |-> Import(w, v)] ELSE imported[a]
                          /\ a # w => pc'[a] = pc[a]
    BY <1>i, <1>p, <2>1
  <2>3. pc'[w] \in {"transport", "joining"}
    BY <1>p, <2>1
  <2>4. \A a \in Worlds, v \in Vars : Import(a, v)' = Import(a, v)
    BY <2>1 DEF Import
  <2>5. ASSUME NEW v \in Shared, NEW a \in Worlds, NEW b \in Worlds
        PROVE  /\ pc'[a] = "jobs" /\ pc'[b] = "jobs" => Import(a, v)' = Import(b, v)'
               /\ pc'[a] = "jobs" /\ Delivered(b)' => Import(a, v)' = imported'[b][v]
               /\ Delivered(a)' /\ Delivered(b)' => imported'[a][v] = imported'[b][v]
    <3>1. imported'[w][v] = Import(w, v)
      BY <1>h, <2>2
    <3>2. /\ pc[a] = "jobs" /\ pc[b] = "jobs" => Import(a, v) = Import(b, v)
          /\ pc[w] = "jobs" /\ pc[a] = "jobs" => Import(w, v) = Import(a, v)
          /\ pc[w] = "jobs" /\ pc[b] = "jobs" => Import(w, v) = Import(b, v)
          /\ pc[a] = "jobs" /\ Delivered(b) => Import(a, v) = imported[b][v]
          /\ pc[w] = "jobs" /\ Delivered(b) => Import(w, v) = imported[b][v]
          /\ pc[w] = "jobs" /\ Delivered(a) => Import(w, v) = imported[a][v]
          /\ Delivered(a) /\ Delivered(b) => imported[a][v] = imported[b][v]
      BY <1>b DEF BatchInv
    <3>3. Import(a, v)' = Import(a, v) /\ Import(b, v)' = Import(b, v)
      BY <1>h, <2>4
    <3> QED BY <2>1, <2>2, <2>3, <3>1, <3>2, <3>3 DEF Delivered
  <2>6. BatchInv'
    <3>1. (\E a \in Worlds : pc'[a] = "script") => \A a \in Worlds : pc'[a] = "script"
      BY <1>b, <2>1, <2>2, <2>3 DEF BatchInv, InScript
    <3>2. \A a \in Worlds : pc'[a] \in {"script", "jobs"} => imported'[a] = [v \in Vars |-> None]
      BY <1>b, <2>2, <2>3 DEF BatchInv
    <3> QED BY <2>5, <3>1, <3>2 DEF BatchInv, InScript
  <2> QED BY <1>s, <1>p, <1>i, <2>1, <2>6 DEF IInv
<1>8. ASSUME NEW w \in Worlds, NEW u \in Vars, NEW x \in ExportValues, Transport(w, u, x) PROVE IInv'
  <2>1. /\ pc[w] = "transport"
        /\ ~ LocalClash(Op[u], reducemap[w][u])
        /\ reducemap' = [reducemap EXCEPT ![w][u] = ReduceLocalValue(Op[u], @, x)]
        /\ varstate' = [varstate EXCEPT ![w][u] = "NEW"]
        /\ UNCHANGED <<declared, imported, pc>>
    BY <1>8 DEF Transport, PlainScript
  <2> DEFINE e == ReduceLocalValue(Op[u], reducemap[w][u], x)
  <2>2. IsReducer(e) /\ e.valueadded
    BY <1>r, <2>1, ReduceLocal
  <2>3. reducemap' = [a \in Worlds |-> [v \in Vars |-> IF a = w /\ v = u THEN e ELSE reducemap[a][v]]]
    BY <1>t, <2>1, TableExcept
  <2> HIDE DEF e
  <2>4. varstate \in [Worlds -> [Vars -> States]]
    BY <1>s DEF Shape
  <2>5. \A a \in Worlds, v \in Vars :
          varstate'[a][v] = IF a = w /\ v = u THEN "NEW" ELSE varstate[a][v]
    BY <2>1, <2>4
  <2>6. \A a \in Worlds, v \in Vars :
          reducemap'[a][v] = IF a = w /\ v = u THEN e ELSE reducemap[a][v]
    BY <2>3
  <2>7. Shape(varstate', reducemap')
    <3>1. varstate' \in [Worlds -> [Vars -> States]]
      BY <2>1, <2>4 DEF States
    <3>2. reducemap' = [a \in Worlds |-> [v \in Vars |-> reducemap'[a][v]]]
      BY <2>3
    <3> QED BY <1>r, <2>2, <2>6, <3>1, <3>2 DEF Shape
  <2>8. ASSUME NEW v \in Vars PROVE VarInv(varstate', reducemap', v)
    <3>1. VarInv(varstate, reducemap, v)
      BY <1>s
    <3>2. Holders(varstate', v) \subseteq Holders(varstate, v) /\ Holders(varstate', v) \subseteq Worlds
      BY <2>5 DEF Holders, In
    <3>3. In(varstate', v, {"NONE", "INTERESTED"}) \subseteq In(varstate, v, {"NONE", "INTERESTED"})
      BY <2>5 DEF In
    <3>4. Holders(varstate', v) # {} => In(varstate', v, {"NONE", "INTERESTED"}) = {}
      BY <3>1, <3>2, <3>3 DEF VarInv
    <3>5. \A a \in Holders(varstate', v) : reducemap'[a][v] = reducemap[a][v]
      BY <2>5, <2>6 DEF Holders, In
    <3>6. v \in Shared => \A a, b \in Holders(varstate', v) :
            reducemap'[a][v].valueadded /\ reducemap'[a][v].value = reducemap'[b][v].value
      BY <3>1, <3>2, <3>5 DEF VarInv
    <3>7. \A a \in Worlds :
            /\ varstate'[a][v] = "NEW" => reducemap'[a][v].valueadded
            /\ varstate'[a][v] \in {"NONE", "INTERESTED"} => ~ reducemap'[a][v].valueadded
      BY <2>2, <2>5, <2>6, <3>1 DEF VarInv
    <3> QED BY <3>4, <3>6, <3>7 DEF VarInv
  <2>9. \A a \in Worlds, v \in Vars : a # w => Import(a, v)' = Import(a, v)
    BY <2>1, <2>6 DEF Import
  <2>10. BatchInv'
    <3>1. \A v \in Shared : \A a, b \in Worlds :
            /\ pc'[a] = "jobs" /\ pc'[b] = "jobs" => Import(a, v)' = Import(b, v)'
            /\ pc'[a] = "jobs" /\ Delivered(b)' => Import(a, v)' = imported'[b][v]
            /\ Delivered(a)' /\ Delivered(b)' => imported'[a][v] = imported'[b][v]
      BY <1>b, <1>h, <2>1, <2>9 DEF BatchInv, Delivered
    <3>2. \A a \in Worlds : pc'[a] \in {"script", "jobs"} => imported'[a] = [v \in Vars |-> None]
      BY <1>b, <2>1 DEF BatchInv
    <3>3. (\E a \in Worlds : pc'[a] = "script") => \A a \in Worlds : pc'[a] = "script"
      BY <1>b, <2>1 DEF BatchInv, InScript
    <3> QED BY <3>1, <3>2, <3>3 DEF BatchInv, InScript
  <2> QED BY <1>p, <1>i, <2>1, <2>7, <2>8, <2>10 DEF IInv
<1>9. ASSUME NEW w \in Worlds, RefuseExport(w) \/ EndTransport(w) PROVE IInv'
  <2>1. /\ pc[w] = "transport"
        /\ pc' = [pc EXCEPT ![w] = "joining"]
        /\ UNCHANGED <<declared, varstate, reducemap, imported>>
    BY <1>9 DEF RefuseExport, EndTransport
  <2>2. \A a \in Worlds : pc'[a] = IF a = w THEN "joining" ELSE pc[a]
    BY <1>p, <2>1
  <2>3. \A a \in Worlds : Delivered(a)' <=> Delivered(a)
    BY <2>1, <2>2 DEF Delivered
  <2>4. \A a \in Worlds, v \in Vars : Import(a, v)' = Import(a, v)
    BY <2>1 DEF Import
  <2>5. BatchInv'
    <3>1. \A v \in Shared : \A a, b \in Worlds :
            /\ pc'[a] = "jobs" /\ pc'[b] = "jobs" => Import(a, v)' = Import(b, v)'
            /\ pc'[a] = "jobs" /\ Delivered(b)' => Import(a, v)' = imported'[b][v]
            /\ Delivered(a)' /\ Delivered(b)' => imported'[a][v] = imported'[b][v]
      BY <1>b, <1>h, <2>1, <2>2, <2>3, <2>4 DEF BatchInv
    <3>2. \A a \in Worlds : pc'[a] \in {"script", "jobs"} => imported'[a] = [v \in Vars |-> None]
      BY <1>b, <2>1, <2>2 DEF BatchInv
    <3>3. (\E a \in Worlds : pc'[a] = "script") => \A a \in Worlds : pc'[a] = "script"
      BY <1>b, <2>1, <2>2 DEF BatchInv, InScript
    <3> QED BY <3>1, <3>2, <3>3 DEF BatchInv, InScript
  <2> QED BY <1>s, <1>p, <1>i, <2>1, <2>5 DEF IInv
<1>10. ASSUME Join PROVE IInv'
  <2>1. /\ pc' = [w \in Worlds |-> "script"]
        /\ imported' = NotDelivered
        /\ UNCHANGED <<declared, varstate, reducemap>>
    BY <1>10 DEF Join
  <2>2. \A w \in Worlds : pc'[w] = "script" /\ imported'[w] = [v \in Vars |-> None]
    BY <2>1 DEF NotDelivered
  <2>3. BatchInv'
    BY <2>2 DEF BatchInv, InScript, Delivered
  <2>4. imported' = [w \in Worlds |-> imported'[w]]
    BY <2>1 DEF NotDelivered
  <2> QED BY <1>s, <2>1, <2>3, <2>4 DEF IInv
<1>11. ASSUME UNCHANGED vars PROVE IInv'
  BY <1>11 DEF vars, IInv, BatchInv, InScript, Delivered, Import
<1> QED
  <2>1. ASSUME Script PROVE IInv'
    BY <1>1, <1>2, <1>3, <1>4, <1>5, <1>6, <2>1, ScriptAssumption DEF Script, PlainScript
  <2>2. ASSUME NEW w \in Worlds, Local(w) PROVE IInv'
    BY <1>7, <1>8, <1>9, <2>2 DEF Local
  <2> QED BY <1>10, <1>11, <2>1, <2>2 DEF Next, Finished

-----------------------------------------------------------------------------
(* Variables of kind LOCAL                                                 *)

\* A reducer that, if it still has a value, has the one of r
Derived(r2, r) == r2.valueadded => r2.value = r.value

\* An exchange leaves a local variable without a value or with the one it had.
LEMMA LocalSynched ==
  ASSUME NEW st, NEW rm, NEW w \in Worlds, NEW v \in Vars \ Shared, IsReducer(rm[w][v])
  PROVE  Derived(SynchedReducer(st, rm, w, v), rm[w][v])
<1>1. Op[v] = "LOCAL"
  BY DEF Shared
<1>2. SharedReducer(st, rm, w, v) = rm[w][v]
  BY <1>1 DEF SharedReducer, ReduceRemoteValues, Receive
<1>3. ~ Reset(rm[w][v]).valueadded /\ ~ Clear(rm[w][v]).valueadded
  BY ResetOps
<1> QED BY <1>2, <1>3 DEF SynchedReducer, Derived

\* So does every step of a plain script, unless the world takes over what its
\* jobs export.
LEMMA LocalStep ==
  ASSUME PlainScript, IInv, [Next]_vars, NEW w \in Worlds, NEW v \in Vars \ Shared,
         pc[w] # "transport"
  PROVE  Derived(reducemap'[w][v], reducemap[w][v])
<1>s. Shape(varstate, reducemap)
  BY DEF IInv
<1>t. reducemap = [a \in Worlds |-> [u \in Vars |-> reducemap[a][u]]]
  BY <1>s DEF Shape
<1>r. \A a \in Worlds, u \in Vars : IsReducer(reducemap[a][u])
  BY <1>s DEF Shape
<1>b. ASSUME UNCHANGED reducemap PROVE Derived(reducemap'[w][v], reducemap[w][v])
  BY <1>b DEF Derived
<1>1. ASSUME NEW u \in Vars, AddVariable(u) \/ RemoveVariable(u)
      PROVE  Derived(reducemap'[w][v], reducemap[w][v])
  <2>1. reducemap' = [a \in Worlds |-> [reducemap[a] EXCEPT ![u] = NewReducer]]
    BY <1>1 DEF AddVariable, RemoveVariable
  <2>2. reducemap'[w][v] = IF u = v THEN NewReducer ELSE reducemap[w][v]
    BY <1>t, <2>1
  <2> QED BY <2>2 DEF Derived, NewReducer
<1>2. ASSUME NEW u \in Vars, ClearVariable(u)
      PROVE  Derived(reducemap'[w][v], reducemap[w][v])
  <2>1. reducemap' = [a \in Worlds |-> [reducemap[a] EXCEPT ![u] = Reset(@)]]
    BY <1>2 DEF ClearVariable
  <2>2. reducemap'[w][v] = IF u = v THEN Reset(reducemap[w][v]) ELSE reducemap[w][v]
    BY <1>t, <2>1
  <2>3. ~ Reset(reducemap[w][v]).valueadded
    BY <1>r, ResetOps
  <2> QED BY <2>2, <2>3 DEF Derived
<1>3. ASSUME NEW u \in Vars, GetVariable(u)
      PROVE  Derived(reducemap'[w][v], reducemap[w][v])
  <2>1. PICK st : Synch(st, reducemap)
    BY <1>3 DEF GetVariable
  <2>2. reducemap'[w][v] = SynchedReducer(SynchVariableInfo(st), reducemap, w, v)
    BY <2>1 DEF Synch
  <2> QED BY <1>r, <2>2, LocalSynched
<1>4. ASSUME StartBatch \/ StartBatchFails
      PROVE  Derived(reducemap'[w][v], reducemap[w][v])
  <2> DEFINE rm == NewRounds
  <2>1. /\ rm[w][v] = NewRound(reducemap[w][v])
        /\ IsReducer(rm[w][v]) /\ Derived(rm[w][v], reducemap[w][v])
    BY <1>r, ResetOps DEF NewRounds, Derived
  <2>2. CASE StartBatchFails
    BY <2>1, <2>2 DEF StartBatchFails
  <2>3. CASE StartBatch
    <3>1. PICK st : Synch(st, rm)
      BY <2>3 DEF StartBatch
    <3> HIDE DEF rm
    <3>2. reducemap'[w][v] = SynchedReducer(SynchVariableInfo(st), rm, w, v)
      BY <3>1 DEF Synch
    <3>3. Derived(reducemap'[w][v], rm[w][v])
      BY <2>1, <3>2, LocalSynched
    <3>4. rm[w][v].valueadded = reducemap[w][v].valueadded
          /\ rm[w][v].value = reducemap[w][v].value
      BY <1>r, <2>1, ResetOps
    <3> QED BY <3>3, <3>4 DEF Derived
  <2> QED BY <1>4, <2>2, <2>3
<1>5. ASSUME NEW a \in Worlds, Local(a)
      PROVE  Derived(reducemap'[w][v], reducemap[w][v])
  <2>1. ASSUME NEW u \in Vars, NEW x \in ExportValues, Transport(a, u, x)
        PROVE  Derived(reducemap'[w][v], reducemap[w][v])
    <3>1. a # w /\ reducemap' = [reducemap EXCEPT ![a][u] = ReduceLocalValue(Op[u], @, x)]
      BY <2>1 DEF Transport
    <3>2. reducemap'[w][v] = reducemap[w][v]
      BY <1>t, <3>1, TableExcept
    <3> QED BY <3>2 DEF Derived
  <2>2. CASE (\E r \in 0 .. 3 : RunJobs(a, r)) \/ RefuseExport(a) \/ EndTransport(a)
    BY <1>b, <2>2 DEF RunJobs, RefuseExport, EndTransport
  <2> QED BY <1>5, <2>1, <2>2 DEF Local
<1>6. CASE Join \/ UNCHANGED vars
  BY <1>b, <1>6 DEF Join, vars
<1> QED BY <1>1, <1>2, <1>3, <1>4, <1>5, <1>6, ScriptAssumption
       DEF Next, Script, Finished, PlainScript

-----------------------------------------------------------------------------
(* The theorems                                                            *)

\* The tables keep their relations in every reachable state of a plain script.
THEOREM InvHolds ==
  ASSUME PlainScript
  PROVE  Spec => []IInv
<1>1. IInv /\ [Next]_vars => IInv'
  <2>1. ASSUME IInv, UNCHANGED vars PROVE IInv'
    BY <2>1 DEF vars, IInv, BatchInv, InScript, Delivered, Import
  <2> QED BY <2>1, StepInv
<1> QED BY <1>1, InitInv, PTL DEF Spec

\* However many worlds there are, synchVariableValues is never asked for an old
\* copy that some world lacks.
THEOREM CopiesEverywhereHolds ==
  ASSUME PlainScript
  PROVE  Spec => []CopiesEverywhere
<1>1. IInv => CopiesEverywhere
  BY DEF IInv, VarInv, CopiesEverywhere
<1> QED BY <1>1, InvHolds, PTL

\* However many worlds there are, old copies of a shared variable are equal.
THEOREM OldCopiesAgreeHolds ==
  ASSUME PlainScript
  PROVE  Spec => []OldCopiesAgree
<1>1. Shared \subseteq Vars
  BY DEF Shared
<1>2. IInv => OldCopiesAgree
  BY <1>1 DEF IInv, VarInv, OldCopiesAgree
<1> QED BY <1>2, InvHolds, PTL

\* A world that announces a new value has one.
THEOREM NewHasValueHolds ==
  ASSUME PlainScript
  PROVE  Spec => []NewHasValue
<1>1. IInv => NewHasValue
  BY DEF IInv, VarInv, NewHasValue
<1> QED BY <1>1, InvHolds, PTL

\* A world that announces nothing has no value.
THEOREM NoneMeansNoValueHolds ==
  ASSUME PlainScript
  PROVE  Spec => []NoneMeansNoValue
<1>1. IInv => NoneMeansNoValue
  BY DEF IInv, VarInv, NoneMeansNoValue
<1> QED BY <1>1, InvHolds, PTL

\* The jobs of one batch see the same values on every world.
THEOREM ImportsAgreeHolds ==
  ASSUME PlainScript
  PROVE  Spec => []ImportsAgree
<1>1. IInv => ImportsAgree
  BY DEF IInv, BatchInv, ImportsAgree
<1> QED BY <1>1, InvHolds, PTL

\* However many worlds there are, a LOCAL variable takes a new value only from its own
\* world's jobs: no synchronisation brings it one.
THEOREM LocalStaysLocalHolds ==
  ASSUME PlainScript
  PROVE  Spec => LocalStaysLocal
<1> DEFINE Stays == \A w \in Worlds, v \in Vars \ Shared :
                      reducemap'[w][v].valueadded /\ reducemap'[w][v].value # reducemap[w][v].value
                        => pc[w] = "transport"
<1>1. IInv /\ [Next]_vars => [Stays]_vars
  BY LocalStep DEF Derived
<1> HIDE DEF Stays
<1>2. Spec => [][Stays]_vars
  BY <1>1, InvHolds, PTL DEF Spec
<1> QED BY <1>2 DEF LocalStaysLocal, Stays

-----------------------------------------------------------------------------
(* The calls of the single processes in synchVariableValues match, and     *)
(* leave what the joint step of SubWorld says.                             *)

Less == {p \in Nat \X Nat : p[1] < p[2]}

\* The positions of a communicator's calls are ordered without infinite
\* descent.
LEMMA LessIsWellFounded == IsWellFoundedOn(Less, Nat)
<1>1. OpToRel(<, Nat) = Less
  BY DEF OpToRel, Less
<1> QED BY <1>1, NatLessThanWellFounded

\* Worlds that take part have a first one.
LEMMA FirstInSet ==
  ASSUME NEW S, S \subseteq Worlds, S # {}
  PROVE  FirstOf(S) \in S
<1>1. S \subseteq Nat
  BY WorldsAssumption DEF Worlds
<1>2. PICK w \in S : \A u \in S : ~(<<u, w>> \in Less)
  BY <1>1, LessIsWellFounded, WFMin
<1>3. \A u \in S : w <= u
  <2> SUFFICES ASSUME NEW u \in S PROVE w <= u
    OBVIOUS
  <2>1. u \in Nat /\ w \in Nat
    BY <1>1
  <2>2. ~(u < w)
    BY <1>2, <2>1 DEF Less
  <2> QED BY <2>1, <2>2
<1> QED BY <1>3 DEF FirstOf

\* And a last one.
LEMMA LastInSet ==
  ASSUME NEW S, S \subseteq Worlds, S # {}
  PROVE  LastOf(S) \in S
<1> DEFINE Behind == {swcount - w : w \in S}
<1>2. Behind \subseteq Nat /\ Behind # {}
  <2>1. \A w \in S : swcount - w \in Nat
    BY WorldsAssumption DEF Worlds
  <2> QED BY <2>1
<1>3. PICK x \in Behind : \A y \in Behind : ~(<<y, x>> \in Less)
  <2> HIDE DEF Behind
  <2> QED BY <1>2, LessIsWellFounded, WFMin
<1>4. PICK w \in S : x = swcount - w
  BY <1>3
<1>5. \A u \in S : u <= w
  <2> SUFFICES ASSUME NEW u \in S PROVE u <= w
    OBVIOUS
  <2>1. swcount - u \in Behind /\ swcount - u \in Nat /\ x \in Nat
    BY <1>2, <1>3
  <2>2. ~(swcount - u < x)
    BY <1>3, <2>1 DEF Less
  <2> QED BY <1>4, <2>2, WorldsAssumption DEF Worlds
<1> QED BY <1>5 DEF LastOf

-----------------------------------------------------------------------------
(* One variable, whose states all worlds know.                             *)

\* Two lists of one member make a list of two.
LEMMA OneAndOne ==
  ASSUME NEW x, NEW y
  PROVE  <<x>> \o <<y>> = <<x, y>>
<1> DEFINE S == {x, y}
           l == <<x>> \o <<y>>
<1>1. <<x>> \in Seq(S) /\ <<y>> \in Seq(S) /\ <<x, y>> \in Seq(S)
  OBVIOUS
<1>2. l \in Seq(S) /\ Len(l) = 2 /\ l[1] = x /\ l[2] = y
  <2>1. Len(<<x>>) = 1 /\ Len(<<y>>) = 1 /\ <<x>>[1] = x /\ <<y>>[1] = y
    OBVIOUS
  <2> QED BY <1>1, <2>1, ConcatProperties
<1>3. \A i \in 1 .. Len(l) : l[i] = <<x, y>>[i]
  <2>1. 1 .. 2 = {1, 2}
    OBVIOUS
  <2> QED BY <1>2, <2>1
<1> HIDE DEF S, l
<1>4. Len(<<x, y>>) = 2
  OBVIOUS
<1>5. l = <<x, y>>
  BY <1>1, <1>2, <1>3, <1>4, SeqEqual
<1> QED BY <1>5 DEF l

\* What the process of world w calls, when no old copy is to be shipped
LEMMA CalledBy ==
  ASSUME NEW st, NEW v, NEW clash \in BOOLEAN, NEW w \in Worlds,
         st[w][v] \in States, ~ShipsOld(st, v)
  PROVE  LET s == st[w][v]
             C == CopyGroup(st, v)
             R == Group(New(st, v), FirstOf(New(st, v)))
         IN  /\ OneUpdate(st, v) =>
                  Called(st, v, w, clash) = IF TakesPart(s) THEN <<SendOn(C, s)>> ELSE <<>>
             /\ AllUpdated(st, v) =>
                  Called(st, v, w, clash) = IF clash THEN <<>> ELSE <<ReduceOn(Group(Worlds, 0))>>
             /\ SomeUpdated(st, v) =>
                  Called(st, v, w, clash) =
                    IF clash \/ ~TakesPart(s) THEN <<>>
                    ELSE IF s = "NEW" THEN <<ReduceOn(R), SendOn(C, s)>>
                    ELSE <<SendOn(C, s)>>
             /\ ~OneUpdate(st, v) /\ ~AllUpdated(st, v) /\ ~SomeUpdated(st, v) =>
                  Called(st, v, w, clash) = <<>>
<1> DEFINE s == st[w][v]
           N == New(st, v)
           C == CopyGroup(st, v)
           R == Group(N, FirstOf(N))
           made == Created(st, v, w)
<1>1. C.members = N \cup Wanting(st, v) /\ EmptyGroup.members = {}
  BY DEF CopyGroup, Group, EmptyGroup
<1>2. w \in C.members <=> TakesPart(s)
  BY <1>1 DEF TakesPart, Wanting, New, In
<1>3. TakesPart(s) <=> s \notin {"NONE", "OLD"}
  BY DEF TakesPart, States
<1> HIDE DEF C, R
<1>4. ASSUME OneUpdate(st, v)
      PROVE  Called(st, v, w, clash) = IF TakesPart(s) THEN <<SendOn(C, s)>> ELSE <<>>
  <2>1. ~AllUpdated(st, v) /\ ~SomeUpdated(st, v)
    BY <1>4 DEF OneUpdate, AllUpdated, SomeUpdated
  <2>2. made = IF TakesPart(s) THEN <<C>> ELSE <<EmptyGroup>>
    BY <1>4, <2>1 DEF Created, MakeGroupComm1, C
  <2> QED BY <1>3, <1>4, <2>1, <2>2 DEF Called
<1>5. ASSUME AllUpdated(st, v)
      PROVE  Called(st, v, w, clash) = IF clash THEN <<>> ELSE <<ReduceOn(Group(Worlds, 0))>>
  <2>1. ~OneUpdate(st, v) /\ ~SomeUpdated(st, v)
    BY <1>5 DEF OneUpdate, AllUpdated, SomeUpdated
  <2> QED BY <1>5, <2>1 DEF Called
<1>6. ASSUME SomeUpdated(st, v)
      PROVE  Called(st, v, w, clash) =
               IF clash \/ ~TakesPart(s) THEN <<>>
               ELSE IF s = "NEW" THEN <<ReduceOn(R), SendOn(C, s)>>
               ELSE <<SendOn(C, s)>>
  <2>1. ~OneUpdate(st, v) /\ ~AllUpdated(st, v)
    BY <1>6 DEF OneUpdate, AllUpdated, SomeUpdated, Several
  <2>2. made = IF TakesPart(s) THEN <<R, C>> ELSE <<EmptyGroup, EmptyGroup>>
    BY <1>6, <2>1 DEF Created, MakeGroupReduceGroups, C, R
  <2>3. Called(st, v, w, clash) =
          IF clash THEN <<>>
          ELSE (IF s = "NEW" THEN <<ReduceOn(made[1])>> ELSE <<>>)
                 \o (IF w \in made[2].members THEN <<SendOn(made[2], s)>> ELSE <<>>)
    BY <1>6, <2>1 DEF Called
  <2>4. CASE TakesPart(s)
    <3>1. made[1] = R /\ made[2] = C /\ w \in C.members
      BY <1>2, <2>2, <2>4
    <3>2. <<ReduceOn(R)>> \o <<SendOn(C, s)>> = <<ReduceOn(R), SendOn(C, s)>>
      BY OneAndOne
    <3>3. <<>> \o <<SendOn(C, s)>> = <<SendOn(C, s)>>
      OBVIOUS
    <3> HIDE DEF made, s
    <3> QED BY <2>3, <2>4, <3>1, <3>2, <3>3
  <2>5. CASE ~TakesPart(s)
    <3>1. made[2] = EmptyGroup /\ s # "NEW"
      BY <1>3, <2>2, <2>5
    <3> QED BY <1>1, <2>3, <2>5, <3>1
  <2> QED BY <2>4, <2>5
<1>7. ASSUME ~OneUpdate(st, v), ~AllUpdated(st, v), ~SomeUpdated(st, v)
      PROVE  Called(st, v, w, clash) = <<>>
  BY <1>7 DEF Called, Created
<1> QED BY <1>4, <1>5, <1>6, <1>7 DEF C, R

\* The ranks of two worlds meet in the same communicator calls for a variable,
\* and in the same order, if no old value is shipped.
LEMMA GroupsMeet ==
  ASSUME NEW st, NEW v, NEW clash \in BOOLEAN, NEW a \in Worlds, NEW b \in Worlds,
         \A w \in Worlds : st[w][v] \in States, ~ShipsOld(st, v)
  PROVE  CallsMeet(st, v, clash, a, b)
<1> DEFINE N == New(st, v)
           C == CopyGroup(st, v)
           R == Group(N, FirstOf(N))
<1>1. N \subseteq Worlds /\ \A w \in Worlds : w \in N <=> st[w][v] = "NEW"
  BY DEF New, In
<1>2. C.members = N \cup Wanting(st, v) /\ C.root = LastOf(N) /\ R.members = N
      /\ EmptyGroup.members = {}
  BY DEF CopyGroup, Group, EmptyGroup
<1>3. \A w \in Worlds : w \in C.members <=> TakesPart(st[w][v])
  BY <1>1, <1>2 DEF TakesPart, Wanting, In
<1>4. \A w \in Worlds : TakesPart(st[w][v]) <=> st[w][v] \notin {"NONE", "OLD"}
  BY DEF TakesPart, States
<1>5. N # {} => C.root \in N /\ R.root \in N
  <2>1. R.root = FirstOf(N)
    BY DEF Group
  <2> QED BY <1>1, <1>2, <2>1, FirstInSet, LastInSet
<1> HIDE DEF N, C, R
<1>6. CASE OneUpdate(st, v)
  <2>0. ~AllUpdated(st, v) /\ ~SomeUpdated(st, v)
    BY <1>6 DEF OneUpdate, AllUpdated, SomeUpdated
  <2>1. \A w \in Worlds : Created(st, v, w) =
          IF TakesPart(st[w][v]) THEN <<C>> ELSE <<EmptyGroup>>
    BY <1>6, <2>0 DEF Created, MakeGroupComm1, C
  <2>2. \A w \in Worlds : Called(st, v, w, clash) =
          IF TakesPart(st[w][v]) THEN <<SendOn(C, st[w][v])>> ELSE <<>>
    BY <1>4, <1>6, <2>0, <2>1 DEF Called
  <2>3. N # {}
    BY <1>6 DEF OneUpdate, N
  <2>4. Len(Created(st, v, a)) = Len(Created(st, v, b))
    BY <2>1
  <2>5. ASSUME NEW i \in DOMAIN Created(st, v, a), b \in Created(st, v, a)[i].members
        PROVE  Created(st, v, b)[i] = Created(st, v, a)[i]
    BY <1>2, <1>3, <2>1, <2>5
  <2>6. ASSUME NEW i \in DOMAIN Called(st, v, a, clash)
        PROVE  LET c == Called(st, v, a, clash)[i] IN
               /\ b \in c.group.members =>
                    \E k \in DOMAIN Called(st, v, b, clash) :
                      LET d == Called(st, v, b, clash)[k] IN d.call = c.call /\ d.group = c.group
               /\ b = c.group.root => st[b][v] = "NEW"
    <3>1. Called(st, v, a, clash)[i] = SendOn(C, st[a][v])
      BY <2>2, <2>6
    <3>2. b \in C.members => 1 \in DOMAIN Called(st, v, b, clash)
                             /\ Called(st, v, b, clash)[1] = SendOn(C, st[b][v])
      BY <1>3, <2>2
    <3> QED BY <1>1, <1>5, <2>3, <3>1, <3>2 DEF SendOn
  <2> QED BY <2>4, <2>5, <2>6 DEF CallsMeet
<1>7. CASE AllUpdated(st, v)
  <2>1. ~OneUpdate(st, v) /\ ~SomeUpdated(st, v) /\ N = Worlds
    BY <1>7 DEF OneUpdate, AllUpdated, SomeUpdated, N
  <2>2. \A w \in Worlds : Created(st, v, w) = <<>>
    BY <1>7, <2>1 DEF Created, AllUpdated, SomeUpdated
  <2>3. \A w \in Worlds : Called(st, v, w, clash) =
          IF clash THEN <<>> ELSE <<ReduceOn(Group(Worlds, 0))>>
    BY <1>7, <2>1 DEF Called
  <2>4. Group(Worlds, 0).root = 0
    BY DEF Group
  <2> QED BY <1>1, <2>1, <2>2, <2>3, <2>4 DEF CallsMeet, ReduceOn
<1>8. CASE SomeUpdated(st, v)
  <2>1. ~OneUpdate(st, v) /\ ~AllUpdated(st, v) /\ N # {}
    BY <1>8 DEF OneUpdate, AllUpdated, SomeUpdated, Several, N
  <2>2. \A w \in Worlds : Created(st, v, w) =
          IF TakesPart(st[w][v]) THEN <<R, C>> ELSE <<EmptyGroup, EmptyGroup>>
    BY <1>8, <2>1 DEF Created, MakeGroupReduceGroups, C, R, N
  <2>3. \A w \in Worlds : Called(st, v, w, clash) =
          IF clash \/ ~TakesPart(st[w][v]) THEN <<>>
          ELSE IF st[w][v] = "NEW" THEN <<ReduceOn(R), SendOn(C, st[w][v])>>
          ELSE <<SendOn(C, st[w][v])>>
    BY <1>8, CalledBy DEF C, R, N
  <2>4. Len(Created(st, v, a)) = Len(Created(st, v, b))
    BY <2>2
  <2>5. ASSUME NEW i \in DOMAIN Created(st, v, a), b \in Created(st, v, a)[i].members
        PROVE  Created(st, v, b)[i] = Created(st, v, a)[i]
    <3>1. TakesPart(st[a][v])
      BY <1>2, <2>2, <2>5
    <3>2. i \in {1, 2} /\ Created(st, v, a) = <<R, C>>
      BY <2>2, <2>5, <3>1
    <3>3. TakesPart(st[b][v])
      BY <1>1, <1>2, <1>3, <1>4, <2>5, <3>2
    <3> QED BY <2>2, <3>2, <3>3
  <2>6. ASSUME NEW i \in DOMAIN Called(st, v, a, clash)
        PROVE  LET c == Called(st, v, a, clash)[i] IN
               /\ b \in c.group.members =>
                    \E k \in DOMAIN Called(st, v, b, clash) :
                      LET d == Called(st, v, b, clash)[k] IN d.call = c.call /\ d.group = c.group
               /\ b = c.group.root => st[b][v] = "NEW"
    <3>1. ~clash /\ TakesPart(st[a][v])
      BY <2>3, <2>6
    <3>2. CASE Called(st, v, a, clash)[i] = ReduceOn(R)
      <4>1. b \in R.members => Called(st, v, b, clash) = <<ReduceOn(R), SendOn(C, st[b][v])>>
        BY <1>1, <1>2, <1>4, <2>3, <3>1
      <4>2. b \in R.members => 1 \in DOMAIN Called(st, v, b, clash)
                               /\ Called(st, v, b, clash)[1] = ReduceOn(R)
        BY <4>1
      <4> QED BY <1>1, <1>5, <2>1, <3>2, <4>2 DEF ReduceOn
    <3>3. CASE Called(st, v, a, clash)[i] = SendOn(C, st[a][v])
      <4>1. ASSUME b \in C.members
            PROVE  \E k \in DOMAIN Called(st, v, b, clash) :
                     Called(st, v, b, clash)[k] = SendOn(C, st[b][v])
        <5>1. CASE st[b][v] = "NEW"
          <6>1. Called(st, v, b, clash) = <<ReduceOn(R), SendOn(C, st[b][v])>>
            BY <1>3, <2>3, <3>1, <4>1, <5>1
          <6>2. 2 \in DOMAIN Called(st, v, b, clash)
                /\ Called(st, v, b, clash)[2] = SendOn(C, st[b][v])
            BY <6>1
          <6> QED BY <6>2
        <5>2. CASE st[b][v] # "NEW"
          <6>1. Called(st, v, b, clash) = <<SendOn(C, st[b][v])>>
            BY <1>3, <2>3, <3>1, <4>1, <5>2
          <6>2. 1 \in DOMAIN Called(st, v, b, clash)
                /\ Called(st, v, b, clash)[1] = SendOn(C, st[b][v])
            BY <6>1
          <6> QED BY <6>2
        <5> QED BY <5>1, <5>2
      <4> QED BY <1>1, <1>5, <2>1, <3>3, <4>1 DEF SendOn
    <3>4. Called(st, v, a, clash)[i] \in {ReduceOn(R), SendOn(C, st[a][v])}
      BY <2>3, <2>6, <3>1
    <3> QED BY <3>2, <3>3, <3>4
  <2> QED BY <2>4, <2>5, <2>6 DEF CallsMeet
<1>9. CASE ~OneUpdate(st, v) /\ ~AllUpdated(st, v) /\ ~SomeUpdated(st, v)
  <2>1. \A w \in Worlds : Created(st, v, w) = <<>> /\ Called(st, v, w, clash) = <<>>
    BY <1>9 DEF Created, Called
  <2> QED BY <2>1 DEF CallsMeet
<1> QED BY <1>6, <1>7, <1>8, <1>9
-----------------------------------------------------------------------------
(* What the calls do to the values                                         *)

\* An Allreduce with one member returns its value.
LEMMA AllreduceOfOne ==
  ASSUME NEW op, NEW f, NEW u
  PROVE  Allreduce(op, {u}, f) = f[u]
<1> DEFINE first == CHOOSE w \in {u} : TRUE
           base == f[first]
           rest == {u} \ {first}
           Body(g, s) == IF s = {} THEN base
                         ELSE LET x == CHOOSE y \in s : TRUE IN Combine(op, f[x], g[s \ {x}])
           iter == CHOOSE g : g = [s \in SUBSET rest |-> Body(g, s)]
<1>1. Allreduce(op, {u}, f) = iter[rest]
  BY DEF Allreduce, FoldFunctionOnSet, MapThenFoldSet
<1>2. first = u /\ rest = {}
  OBVIOUS
<1>3. \E g : g = [s \in SUBSET rest |-> Body(g, s)]
  <2> DEFINE g0 == [s \in SUBSET {} |-> base]
  <2>1. g0 = [s \in SUBSET {} |-> Body(g0, s)]
    OBVIOUS
  <2> HIDE DEF Body, g0, rest
  <2> QED BY <1>2, <2>1
<1>4. iter = [s \in SUBSET rest |-> Body(iter, s)]
  <2> HIDE DEF Body
  <2> QED BY <1>3
<1>5. iter[rest] = base
  <2> HIDE DEF iter, rest
  <2> QED BY <1>2, <1>4
<1> QED BY <1>1, <1>2, <1>5

\* A value only one world has is merged to itself.
LEMMA MergedOne ==
  ASSUME NEW st, NEW rm, NEW v, NEW u \in Worlds, New(st, v) = {u}
  PROVE  Merged(st, rm, v) = rm[u][v].value
<1> DEFINE f == [w \in Worlds |-> rm[w][v].value]
<1>1. Merged(st, rm, v) = Allreduce(Op[v], {u}, f) /\ f[u] = rm[u][v].value
  BY DEF Merged
<1> HIDE DEF f
<1> QED BY <1>1, AllreduceOfOne

\* An update that can't be merged stops the loop.
LEMMA PassedMerges ==
  ASSUME NEW st, NEW v \in Vars, v \in Passed(st)
  PROVE  Several(New(st, v)) => ~CanClash(Op[v])
<1>1. v \notin Failing(st) /\ v \in declared
  BY VarsAssumption DEF Passed
<1> QED BY <1>1 DEF Failing, SetClash

\* The communicator calls of the ranks, one by one, leave a reducer as the
\* joint step of the worlds says.
LEMMA CallsLeave ==
  ASSUME NEW st, NEW rm, NEW v \in Vars, v \in Passed(st), NEW w \in Worlds,
         \A u \in Worlds : st[u][v] \in States, ~ShipsOld(st, v)
  PROVE  AfterCalls(st, rm, v, w) = SharedReducer(st, rm, w, v)
<1> DEFINE s == st[w][v]
           N == New(st, v)
           C == CopyGroup(st, v)
           R == Group(N, FirstOf(N))
           calls == Called(st, v, w, CanClash(Op[v]))
           M == Merged(st, rm, v)
<1>0. CanClash(Op[v]) \in BOOLEAN
  BY DEF CanClash
<1>1. /\ N \subseteq Worlds /\ \A u \in Worlds : u \in N <=> st[u][v] = "NEW"
      /\ C.root = LastOf(N) /\ (Several(N) => ~CanClash(Op[v]))
      /\ \A u \in Worlds : u \in Wanting(st, v) => u \notin N
      /\ TakesPart(s) <=> w \in N \cup Wanting(st, v)
  BY PassedMerges DEF New, In, CopyGroup, Group, Wanting, TakesPart
<1>2. N # {} => LastOf(N) \in N
  BY <1>1, LastInSet
<1>3. AfterCalls(st, rm, v, w) =
        IF calls = <<>> THEN rm[w][v]
        ELSE IF calls[Len(calls)].call = "send"
        THEN Receive(Op[v], rm[w][v], Reduced(st, rm, v, calls[Len(calls)].group.root))
        ELSE ReduceRemoteValues(Op[v], rm[w][v], Reduced(st, rm, v, w))
  BY DEF AfterCalls
<1>4. \A u \in N : Several(N) => Reduced(st, rm, v, u) = M
  BY <1>1 DEF Reduced
<1> HIDE DEF M
<1>5. CASE OneUpdate(st, v)
  <2>1. N # {} /\ ~Several(N) /\ Wanting(st, v) # {}
    BY <1>5 DEF OneUpdate
  <2>2. N = {C.root} /\ C.root \in Worlds
    BY <1>1, <1>2, <2>1 DEF Several
  <2>3. Reduced(st, rm, v, C.root) = M
    <3>1. M = rm[C.root][v].value
      <4> HIDE DEF C
      <4> QED BY <2>2, MergedOne DEF M, N
    <3>2. Reduced(st, rm, v, C.root) = rm[C.root][v].value
      BY <2>1 DEF Reduced
    <3> QED BY <3>1, <3>2
  <2>4. Ships(st, v) /\ N # Worlds
    BY <1>1, <2>1 DEF Ships, Wanting, In
  <2>5. calls = IF TakesPart(s) THEN <<SendOn(C, s)>> ELSE <<>>
    BY <1>0, <1>5, CalledBy
  <2>6. AfterCalls(st, rm, v, w) = IF TakesPart(s) THEN Receive(Op[v], rm[w][v], M) ELSE rm[w][v]
    <3>1. SendOn(C, s).call = "send" /\ SendOn(C, s).group.root = C.root
      BY DEF SendOn
    <3> HIDE DEF calls, C, s
    <3> QED BY <1>3, <2>3, <2>5, <3>1
  <2>7. SharedReducer(st, rm, w, v) =
          IF w \in N \cup Wanting(st, v) THEN Receive(Op[v], rm[w][v], M) ELSE rm[w][v]
    BY <2>4 DEF SharedReducer, M
  <2> QED BY <1>1, <2>6, <2>7
<1>6. CASE AllUpdated(st, v)
  <2>1. Several(N) /\ N = Worlds /\ ~CanClash(Op[v])
    BY <1>1, <1>6 DEF AllUpdated
  <2>2. calls = <<ReduceOn(Group(Worlds, 0))>>
    BY <1>0, <1>6, <2>1, CalledBy
  <2>3. AfterCalls(st, rm, v, w) = ReduceRemoteValues(Op[v], rm[w][v], M)
    <3>1. ReduceOn(Group(Worlds, 0)).call = "reduce"
      BY DEF ReduceOn
    <3>2. Reduced(st, rm, v, w) = M
      BY <1>4, <2>1
    <3> HIDE DEF calls
    <3> QED BY <1>3, <2>2, <3>1, <3>2
  <2>4. Ships(st, v)
    BY <2>1 DEF Ships
  <2>5. SharedReducer(st, rm, w, v) = ReduceRemoteValues(Op[v], rm[w][v], M)
    BY <2>1, <2>4 DEF SharedReducer, M
  <2> QED BY <2>3, <2>5
<1>7. CASE SomeUpdated(st, v)
  <2>1. Several(N) /\ N # Worlds /\ ~CanClash(Op[v]) /\ N # {}
    BY <1>1, <1>7 DEF SomeUpdated, Several
  <2>2. calls = IF ~TakesPart(s) THEN <<>>
                ELSE IF s = "NEW" THEN <<ReduceOn(R), SendOn(C, s)>> ELSE <<SendOn(C, s)>>
    BY <1>0, <1>7, <2>1, CalledBy
  <2>3. Reduced(st, rm, v, C.root) = M
    BY <1>1, <1>2, <1>4, <2>1
  <2>4. AfterCalls(st, rm, v, w) = IF TakesPart(s) THEN Receive(Op[v], rm[w][v], M) ELSE rm[w][v]
    <3>1. SendOn(C, s).call = "send" /\ SendOn(C, s).group.root = C.root
      BY DEF SendOn
    <3>2. TakesPart(s) => calls # <<>> /\ calls[Len(calls)] = SendOn(C, s)
      <4> HIDE DEF C, R, s
      <4> QED BY <2>2
    <3> HIDE DEF calls, C, s
    <3> QED BY <1>3, <2>2, <2>3, <3>1, <3>2
  <2>5. Ships(st, v)
    BY <2>1 DEF Ships
  <2>6. SharedReducer(st, rm, w, v) =
          IF w \in N \cup Wanting(st, v) THEN Receive(Op[v], rm[w][v], M) ELSE rm[w][v]
    BY <2>1, <2>5 DEF SharedReducer, M
  <2> QED BY <1>1, <2>4, <2>6
<1>8. CASE ~OneUpdate(st, v) /\ ~AllUpdated(st, v) /\ ~SomeUpdated(st, v)
  <2>1. calls = <<>>
    BY <1>0, <1>8, CalledBy
  <2>2. AfterCalls(st, rm, v, w) = rm[w][v]
    BY <1>3, <2>1
  <2>3. ~Ships(st, v)
    BY <1>8 DEF Ships, OneUpdate, AllUpdated, SomeUpdated
  <2> QED BY <2>2, <2>3 DEF SharedReducer
<1> QED BY <1>5, <1>6, <1>7, <1>8

-----------------------------------------------------------------------------
(* Whatever states synchVariableValues starts with.                        *)

\* Once the states have been exchanged no world ships a value of an earlier
\* round.
LEMMA NothingOldShipped ==
  ASSUME NEW st, NEW rm, Shape(st, rm), NEW v \in Vars, VarInv(st, rm, v)
  PROVE  /\ \A w \in Worlds : SynchVariableInfo(st)[w][v] \in States
         /\ ~ShipsOld(SynchVariableInfo(st), v)
<1> DEFINE si == SynchVariableInfo(st)
<1>1. \A w \in Worlds : si[w][v] \in States
  <2>1. \A w \in Worlds : st[w][v] \in States
    BY DEF Shape
  <2> QED BY <2>1 DEF SynchVariableInfo, Interested, States
<1>2. VarInv(si, rm, v)
  BY InfoKeeps
<1> HIDE DEF si
<1>3. ~ShipsOld(si, v)
  BY <1>2 DEF VarInv, ShipsOld, In
<1> QED BY <1>1, <1>3 DEF si

\* In every table of states an exchange may begin with, the same holds.
LEMMA AskedStates ==
  ASSUME IInv, NEW st \in Asked, NEW v \in Vars
  PROVE  /\ \A w \in Worlds : st[w][v] \in States
         /\ ~ShipsOld(st, v)
<1>1. Shape(varstate, reducemap) /\ \A u \in Vars : VarInv(varstate, reducemap, u)
  BY DEF IInv
<1>2. CASE st = SynchVariableInfo(ResetInterest(varstate))
  BY <1>1, <1>2, ResetKeeps, NothingOldShipped
<1>3. ASSUME NEW u \in Queried,
             st = SynchVariableInfo([w \in Worlds |-> [varstate[w] EXCEPT ![u] = Interested(@)]])
      PROVE  (\A w \in Worlds : st[w][v] \in States) /\ ~ShipsOld(st, v)
  <2> DEFINE s0 == [w \in Worlds |-> [varstate[w] EXCEPT ![u] = Interested(@)]]
  <2>1. u \in Vars
    BY ScriptAssumption
  <2>2. Shape(s0, reducemap) /\ VarInv(s0, reducemap, v)
    BY <1>1, <2>1, InterestKeeps
  <2> HIDE DEF s0
  <2> QED BY <1>3, <2>2, NothingOldShipped DEF s0
<1> QED BY <1>2, <1>3 DEF Asked

KnownVars == declared \subseteq Vars

\* Only names of variables are ever declared.
LEMMA DeclaredInVars == Spec => []KnownVars
<1>1. Init => KnownVars
  BY DEF Init, KnownVars
<1>2. KnownVars /\ [Next]_vars => KnownVars'
  <2> SUFFICES ASSUME KnownVars, [Next]_vars PROVE KnownVars'
    OBVIOUS
  <2> USE DEF vars, Finished, KnownVars
  <2>1. CASE Script
    BY <2>1 DEF Script, AddVariable, RemoveVariable, ClearVariable, CopyVariable,
                GetVariable, StartBatch, StartBatchFails
  <2>2. CASE Join \/ \E w \in Worlds : Local(w)
    BY <2>2 DEF Join, Local, RunJobs, Transport, RefuseExport, EndTransport
  <2>3. CASE UNCHANGED vars
    BY <2>3
  <2> QED BY <2>1, <2>2, <2>3 DEF Next
<1> QED BY <1>1, <1>2, PTL DEF Spec

\* However many worlds there are, the processes of all worlds create the same
\* communicators, call the same on them, and let one send that has an update.
THEOREM GroupsMatchHolds ==
  ASSUME PlainScript
  PROVE  Spec => []GroupsMatch
<1>1. IInv /\ KnownVars => GroupsMatch
  <2> SUFFICES ASSUME IInv, KnownVars, InScript,
                      NEW st \in Asked, NEW v \in Passed(st), NEW clash \in BOOLEAN,
                      NEW a \in Worlds, NEW b \in Worlds
               PROVE  CallsMeet(st, v, clash, a, b)
    BY DEF GroupsMatch
  <2>1. v \in Vars
    BY DEF Passed, KnownVars
  <2> QED BY <2>1, AskedStates, GroupsMeet
<1> QED BY <1>1, InvHolds, DeclaredInVars, PTL

\* However many worlds there are, these calls leave the value on every world that
\* SubWorld's joint step says.
THEOREM JointStepHolds ==
  ASSUME PlainScript
  PROVE  Spec => []JointStep
<1>1. IInv /\ KnownVars => JointStep
  <2> SUFFICES ASSUME IInv, KnownVars, InScript,
                      NEW st \in Asked, NEW v \in Passed(st), NEW w \in Worlds
               PROVE  AfterCalls(st, reducemap, v, w) = SharedReducer(st, reducemap, w, v)
    BY DEF JointStep
  <2>1. v \in Vars
    BY DEF Passed, KnownVars
  <2> QED BY <2>1, AskedStates, CallsLeave
<1> QED BY <1>1, InvHolds, DeclaredInVars, PTL

-----------------------------------------------------------------------------
(* One value per variable.  What MPI_Allreduce returns doesn't depend on   *)
(* the order in which the values are combined.                             *)

-----------------------------------------------------------------------------
(* Folding Combine over a set of worlds                                    *)

Merging == {"SUM", "MAX", "MIN"}

\* Sum, maximum and minimum of two numbers are numbers and symmetric.
LEMMA CombineFacts ==
  ASSUME NEW op \in Merging, NEW a \in Int, NEW b \in Int
  PROVE  Combine(op, a, b) \in Int /\ Combine(op, a, b) = Combine(op, b, a)
  BY DEF Combine, Merging

\* Sum, maximum and minimum are associative.
LEMMA CombineAssociative ==
  ASSUME NEW op \in Merging, NEW a \in Int, NEW b \in Int, NEW c \in Int
  PROVE  Combine(op, a, Combine(op, b, c)) = Combine(op, Combine(op, a, b), c)
  BY DEF Combine, Merging

\* Of three numbers the first two may be swapped.
LEMMA CombineSwaps ==
  ASSUME NEW op \in Merging, NEW a \in Int, NEW b \in Int, NEW c \in Int
  PROVE  Combine(op, a, Combine(op, b, c)) = Combine(op, b, Combine(op, a, c))
<1>1. Combine(op, a, Combine(op, b, c)) = Combine(op, Combine(op, a, b), c)
  BY CombineAssociative
<1>2. Combine(op, b, Combine(op, a, c)) = Combine(op, Combine(op, b, a), c)
  BY CombineAssociative
<1> QED BY <1>1, <1>2, CombineFacts

\* The fold as it is defined: one function on all subsets.
OneOf(s) == CHOOSE x \in s : TRUE

Body(op, base, f, g, s) ==
  IF s = {} THEN base ELSE Combine(op, f[OneOf(s)], g[s \ {OneOf(s)}])

Numbers(f, S) == \A x \in S : f[x] \in Int

SameOn(f, g, S) == \A x \in S : f[x] = g[x]

Solves(op, base, f, S, g) ==
  g \in [SUBSET S -> Int] /\ \A s \in SUBSET S : g[s] = Body(op, base, f, g, s)

Fold(op, base, f, S) == CHOOSE g : g = [s \in SUBSET S |-> Body(op, base, f, g, s)]

\* MPI_Allreduce folds the values over the ranks, starting with one of them.
LEMMA AllreduceIsFold ==
  ASSUME NEW op, NEW f, NEW S
  PROVE  Allreduce(op, S, f) =
           Fold(op, f[OneOf(S)], f, S \ {OneOf(S)})[S \ {OneOf(S)}]
  BY DEF Allreduce, FoldFunctionOnSet, MapThenFoldSet, Fold, Body, OneOf

\* The member chosen to start with is one of the set.
LEMMA OneOfIsIn ==
  ASSUME NEW s, s # {}
  PROVE  OneOf(s) \in s
  BY DEF OneOf

\* A family of subsets of a finite set has a smallest member.
LEMMA SmallestSet ==
  ASSUME NEW S, IsFiniteSet(S), NEW B \in SUBSET SUBSET S, B # {}
  PROVE  \E s \in B : \A t \in B : ~ (t \subseteq s /\ t # s)
<1>1. \A s \in B : s \in SUBSET S /\ IsFiniteSet(s)
  BY FS_Subset
<1>2. B \subseteq FiniteSubsetsOf(S)
  BY <1>1 DEF FiniteSubsetsOf
<1>3. PICK s \in B : \A t \in B : ~ (<<t, s>> \in StrictSubsetOrdering(S))
  BY <1>2, FS_StrictSubsetOrderingWellFounded, WFMin
<1> QED BY <1>1, <1>3 DEF StrictSubsetOrdering

\* A set of numbers has a least one.
LEMMA LeastNumber ==
  ASSUME NEW B \in SUBSET Nat, B # {}
  PROVE  \E n \in B : \A k \in B : n <= k
<1>1. PICK n \in B : \A k \in B : ~ (<<k, n>> \in Less)
  BY LessIsWellFounded, WFMin
<1>2. \A k \in B : k \in Nat /\ n \in Nat /\ ~ (k < n)
  BY <1>1 DEF Less
<1> QED BY <1>2

\* The fold's recursive definition has a solution over any finite set.
LEMMA FoldExists ==
  ASSUME NEW op \in Merging, NEW S, IsFiniteSet(S), NEW f, Numbers(f, S),
         NEW base \in Int
  PROVE  \E g : Solves(op, base, f, S, g)
<1> DEFINE Small(n) == {s \in SUBSET S : Cardinality(s) <= n}
           Good(n) == \E g \in [Small(n) -> Int] :
                        \A s \in Small(n) : g[s] = Body(op, base, f, g, s)
           Bad == {n \in Nat : ~ Good(n)}
<1>1. \A s \in SUBSET S : IsFiniteSet(s) /\ Cardinality(s) \in Nat
  BY FS_Subset, FS_CardinalityType
<1>2. Good(0)
  <2> DEFINE g == [s \in Small(0) |-> base]
  <2>1. \A s \in Small(0) : s = {}
    BY <1>1, FS_EmptySet
  <2>2. g \in [Small(0) -> Int] /\ \A s \in Small(0) : g[s] = Body(op, base, f, g, s)
    BY <2>1 DEF Body
  <2> HIDE DEF g
  <2> QED BY <2>2
<1>3. ASSUME NEW n \in Nat, Good(n) PROVE Good(n + 1)
  <2>1. PICK g \in [Small(n) -> Int] : \A s \in Small(n) : g[s] = Body(op, base, f, g, s)
    BY <1>3
  <2> DEFINE h == [s \in Small(n + 1) |-> IF s \in Small(n) THEN g[s] ELSE Body(op, base, f, g, s)]
  <2>2. ASSUME NEW s \in Small(n + 1), s # {}
        PROVE  /\ OneOf(s) \in S /\ s \ {OneOf(s)} \in Small(n) /\ s \ {OneOf(s)} \in Small(n + 1)
    <3>1. OneOf(s) \in s /\ s \subseteq S /\ IsFiniteSet(s) /\ Cardinality(s) \in Nat
          /\ Cardinality(s) <= n + 1
      BY <1>1, <2>2, OneOfIsIn
    <3>2. Cardinality(s \ {OneOf(s)}) = Cardinality(s) - 1
      BY <3>1, FS_RemoveElement
    <3> QED BY <3>1, <3>2
  <2>3. \A s \in Small(n + 1) : Body(op, base, f, h, s) = Body(op, base, f, g, s)
    BY <2>2 DEF Body
  <2>4. \A s \in Small(n + 1) : Body(op, base, f, g, s) \in Int
    <3> SUFFICES ASSUME NEW s \in Small(n + 1), s # {} PROVE Body(op, base, f, g, s) \in Int
      BY DEF Body
    <3>1. OneOf(s) \in S /\ s \ {OneOf(s)} \in Small(n)
      BY <2>2
    <3>2. f[OneOf(s)] \in Int /\ g[s \ {OneOf(s)}] \in Int
      BY <2>1, <3>1 DEF Numbers
    <3> QED BY <3>2, CombineFacts DEF Body
  <2>5. h \in [Small(n + 1) -> Int]
    BY <2>1, <2>4
  <2>6. \A s \in Small(n + 1) : h[s] = Body(op, base, f, h, s)
    BY <2>1, <2>3
  <2> HIDE DEF h
  <2> QED BY <2>5, <2>6
<1> HIDE DEF Good
<1>4. Bad = {}
  <2> SUFFICES ASSUME Bad # {} PROVE FALSE
    OBVIOUS
  <2>1. PICK n \in Bad : \A k \in Bad : n <= k
    BY LeastNumber
  <2>2. n # 0 /\ n \in Nat
    BY <1>2
  <2>3. n - 1 \in Nat /\ ~ (n <= n - 1) /\ (n - 1) + 1 = n
    BY <2>2
  <2>4. Good(n - 1)
    BY <2>1, <2>3
  <2>5. Good((n - 1) + 1)
    BY <1>3, <2>3, <2>4
  <2> QED BY <2>1, <2>3, <2>5
<1>5. Cardinality(S) \in Nat /\ Small(Cardinality(S)) = SUBSET S
  BY <1>1, FS_Subset
<1>6. Good(Cardinality(S))
  BY <1>4, <1>5
<1> HIDE DEF Small
<1> QED BY <1>5, <1>6 DEF Good, Solves

\* The fold of the library is such a function.
LEMMA FoldSolves ==
  ASSUME NEW op \in Merging, NEW S, IsFiniteSet(S), NEW f, Numbers(f, S), NEW base \in Int
  PROVE  Solves(op, base, f, S, Fold(op, base, f, S))
<1>1. PICK h : Solves(op, base, f, S, h)
  BY FoldExists
<1> DEFINE IsFold(g) == g = [s \in SUBSET S |-> Body(op, base, f, g, s)]
           G == CHOOSE g : IsFold(g)
<1>2. IsFold(h)
  BY <1>1 DEF Solves
<1>3. IsFold(G)
  <2> HIDE DEF IsFold
  <2> QED BY <1>2
<1>4. G = Fold(op, base, f, S)
  BY DEF Fold
<1> HIDE DEF G
<1>5. G = [s \in SUBSET S |-> G[s]] /\ \A s \in SUBSET S : G[s] = Body(op, base, f, G, s)
  BY <1>3
<1> DEFINE Bad == {s \in SUBSET S : G[s] \notin Int}
<1>6. Bad = {}
  <2> SUFFICES ASSUME Bad # {} PROVE FALSE
    OBVIOUS
  <2>1. PICK s \in Bad : \A t \in Bad : ~ (t \subseteq s /\ t # s)
    <3>1. Bad \in SUBSET SUBSET S
      OBVIOUS
    <3> HIDE DEF Bad
    <3> QED BY <3>1, SmallestSet
  <2>2. s # {} /\ s \in SUBSET S
    BY <1>5, <2>1 DEF Body
  <2>3. OneOf(s) \in s
    BY <2>2, OneOfIsIn
  <2>4. s \ {OneOf(s)} \notin Bad
    BY <2>1, <2>3
  <2>5. f[OneOf(s)] \in Int /\ G[s \ {OneOf(s)}] \in Int
    BY <2>2, <2>3, <2>4 DEF Numbers
  <2>6. Combine(op, f[OneOf(s)], G[s \ {OneOf(s)}]) \in Int
    BY <2>5, CombineFacts
  <2> QED BY <1>5, <2>1, <2>2, <2>6 DEF Body
<1>7. G \in [SUBSET S -> Int]
  BY <1>5, <1>6
<1> QED BY <1>4, <1>5, <1>7 DEF Solves

\* The order doesn't matter: any element may be combined last.
LEMMA FoldAny ==
  ASSUME NEW op \in Merging, NEW S, IsFiniteSet(S), NEW f, Numbers(f, S), NEW base,
         NEW G, Solves(op, base, f, S, G)
  PROVE  \A s \in SUBSET S : \A x \in s : G[s] = Combine(op, f[x], G[s \ {x}])
<1> DEFINE Bad == {s \in SUBSET S : \E x \in s : G[s] # Combine(op, f[x], G[s \ {x}])}
<1> SUFFICES ASSUME Bad # {} PROVE FALSE
  OBVIOUS
<1>1. PICK s \in Bad : \A t \in Bad : ~ (t \subseteq s /\ t # s)
  <2>1. Bad \in SUBSET SUBSET S
    OBVIOUS
  <2> HIDE DEF Bad
  <2> QED BY <2>1, SmallestSet
<1>2. PICK x \in s : G[s] # Combine(op, f[x], G[s \ {x}])
  BY <1>1
<1> DEFINE y == OneOf(s)
           r == s \ {x, y}
<1>3. y \in s /\ s \in SUBSET S /\ s # {}
  BY <1>1, <1>2, OneOfIsIn
<1>4. G[s] = Combine(op, f[y], G[s \ {y}])
  BY <1>3 DEF Solves, Body
<1> HIDE DEF y
<1>5. x # y
  BY <1>2, <1>4
<1>6. s \ {y} \notin Bad /\ s \ {x} \notin Bad
  BY <1>1, <1>2, <1>3
<1>7. G[s \ {y}] = Combine(op, f[x], G[(s \ {y}) \ {x}])
  BY <1>2, <1>3, <1>5, <1>6
<1>8. G[s \ {x}] = Combine(op, f[y], G[(s \ {x}) \ {y}])
  BY <1>2, <1>3, <1>5, <1>6
<1>9. (s \ {y}) \ {x} = r /\ (s \ {x}) \ {y} = r
  OBVIOUS
<1>10. f[x] \in Int /\ f[y] \in Int /\ G[r] \in Int
  BY <1>2, <1>3 DEF Numbers, Solves
<1> HIDE DEF r
<1>11. Combine(op, f[y], Combine(op, f[x], G[r])) = Combine(op, f[x], Combine(op, f[y], G[r]))
  BY <1>10, CombineSwaps
<1> QED BY <1>2, <1>4, <1>7, <1>8, <1>9, <1>11

\* What is folded depends only on the values in the set.
LEMMA FoldAgree ==
  ASSUME NEW op \in Merging, NEW base, NEW T, IsFiniteSet(T),
         NEW S1, NEW f1, NEW G1, Solves(op, base, f1, S1, G1), T \subseteq S1,
         NEW S2, NEW f2, NEW G2, Solves(op, base, f2, S2, G2), T \subseteq S2,
         SameOn(f1, f2, T)
  PROVE  G1[T] = G2[T]
<1> DEFINE Bad == {s \in SUBSET T : G1[s] # G2[s]}
<1> SUFFICES ASSUME Bad # {} PROVE FALSE
  OBVIOUS
<1>1. PICK s \in Bad : \A t \in Bad : ~ (t \subseteq s /\ t # s)
  <2>1. Bad \in SUBSET SUBSET T
    OBVIOUS
  <2> HIDE DEF Bad
  <2> QED BY <2>1, SmallestSet
<1>2. s \in SUBSET T /\ s \in SUBSET S1 /\ s \in SUBSET S2
  BY <1>1
<1>3. G1[s] = Body(op, base, f1, G1, s) /\ G2[s] = Body(op, base, f2, G2, s)
  BY <1>2 DEF Solves
<1>4. s # {}
  BY <1>1, <1>3 DEF Body
<1>5. OneOf(s) \in s
  BY <1>4, OneOfIsIn
<1>6. G1[s \ {OneOf(s)}] = G2[s \ {OneOf(s)}]
  BY <1>1, <1>5
<1>7. f1[OneOf(s)] = f2[OneOf(s)]
  BY <1>2, <1>5 DEF SameOn
<1> QED BY <1>1, <1>3, <1>6, <1>7 DEF Body

\* A fold from another value differs by these values alone.
LEMMA FoldBase ==
  ASSUME NEW op \in Merging, NEW S, IsFiniteSet(S), NEW f, Numbers(f, S),
         NEW a \in Int, NEW G, Solves(op, a, f, S, G),
         NEW b \in Int, NEW H, Solves(op, b, f, S, H)
  PROVE  \A s \in SUBSET S : Combine(op, b, G[s]) = Combine(op, a, H[s])
<1> DEFINE Bad == {s \in SUBSET S : Combine(op, b, G[s]) # Combine(op, a, H[s])}
<1> SUFFICES ASSUME Bad # {} PROVE FALSE
  OBVIOUS
<1>1. PICK s \in Bad : \A t \in Bad : ~ (t \subseteq s /\ t # s)
  <2>1. Bad \in SUBSET SUBSET S
    OBVIOUS
  <2> HIDE DEF Bad
  <2> QED BY <2>1, SmallestSet
<1>2. s \in SUBSET S
  BY <1>1
<1>3. G[s] = Body(op, a, f, G, s) /\ H[s] = Body(op, b, f, H, s)
  BY <1>2 DEF Solves
<1>4. s # {}
  <2> SUFFICES ASSUME s = {} PROVE FALSE
    OBVIOUS
  <2>1. G[s] = a /\ H[s] = b
    BY <1>3 DEF Body
  <2> QED BY <1>1, <2>1, CombineFacts
<1> DEFINE y == OneOf(s)
           r == s \ {y}
<1>5. y \in s
  BY <1>4, OneOfIsIn
<1>6. G[s] = Combine(op, f[y], G[r]) /\ H[s] = Combine(op, f[y], H[r])
  BY <1>3, <1>4 DEF Body
<1> HIDE DEF y
<1>7. Combine(op, b, G[r]) = Combine(op, a, H[r])
  BY <1>1, <1>5
<1>8. f[y] \in Int /\ G[r] \in Int /\ H[r] \in Int
  BY <1>2, <1>5 DEF Numbers, Solves
<1> HIDE DEF r
<1>9. Combine(op, b, Combine(op, f[y], G[r])) = Combine(op, f[y], Combine(op, b, G[r]))
  BY <1>8, CombineSwaps
<1>10. Combine(op, a, Combine(op, f[y], H[r])) = Combine(op, f[y], Combine(op, a, H[r]))
  BY <1>8, CombineSwaps
<1> QED BY <1>1, <1>6, <1>7, <1>9, <1>10

-----------------------------------------------------------------------------
(* What an MPI_Allreduce over a group of worlds yields                     *)

\* Any member's value may be the one the fold begins with.
LEMMA AllreduceFrom ==
  ASSUME NEW op \in Merging, NEW N, IsFiniteSet(N), NEW f, Numbers(f, N), NEW x \in N
  PROVE  Allreduce(op, N, f) = Fold(op, f[x], f, N \ {x})[N \ {x}]
<1> DEFINE m == OneOf(N)
           R == (N \ {m}) \ {x}
           G == Fold(op, f[m], f, N \ {m})
           H == Fold(op, f[x], f, N \ {x})
           K == Fold(op, f[m], f, R)
           L == Fold(op, f[x], f, R)
<1>1. Allreduce(op, N, f) = G[N \ {m}]
  BY AllreduceIsFold
<1>2. m \in N
  BY OneOfIsIn
<1> HIDE DEF m
<1> SUFFICES ASSUME m # x PROVE G[N \ {m}] = H[N \ {x}]
  BY <1>1
<1>3. f[m] \in Int /\ f[x] \in Int
  BY <1>2 DEF Numbers
<1>4. /\ IsFiniteSet(N \ {m}) /\ Numbers(f, N \ {m})
      /\ IsFiniteSet(N \ {x}) /\ Numbers(f, N \ {x})
      /\ IsFiniteSet(R) /\ Numbers(f, R)
  BY FS_Subset DEF Numbers
<1>5. Solves(op, f[m], f, N \ {m}, G) /\ Solves(op, f[x], f, N \ {x}, H)
  BY <1>3, <1>4, FoldSolves
<1>6. Solves(op, f[m], f, R, K) /\ Solves(op, f[x], f, R, L)
  BY <1>3, <1>4, FoldSolves
<1>7. R \subseteq N \ {m} /\ R \subseteq N \ {x} /\ (N \ {x}) \ {m} = R
  OBVIOUS
<1> HIDE DEF G, H, K, L
<1>8. G[N \ {m}] = Combine(op, f[x], G[R])
  BY <1>2, <1>4, <1>5, FoldAny
<1>9. H[N \ {x}] = Combine(op, f[m], H[R])
  BY <1>2, <1>4, <1>5, <1>7, FoldAny
<1> HIDE DEF R
<1>s. SameOn(f, f, R)
  BY DEF SameOn
<1>10. G[R] = K[R]
  BY <1>s, <1>4, <1>5, <1>6, <1>7, FoldAgree
<1>11. H[R] = L[R]
  BY <1>s, <1>4, <1>5, <1>6, <1>7, FoldAgree
<1>12. Combine(op, f[x], K[R]) = Combine(op, f[m], L[R])
  BY <1>3, <1>4, <1>6, FoldBase
<1> QED BY <1>8, <1>9, <1>10, <1>11, <1>12

\* The result of MPI_Allreduce is that solution, whichever member it started
\* with.
LEMMA AllreduceSolves ==
  ASSUME NEW op \in Merging, NEW N, IsFiniteSet(N), NEW f, Numbers(f, N), NEW x \in N
  PROVE  \E G : Solves(op, f[x], f, N \ {x}, G) /\ Allreduce(op, N, f) = G[N \ {x}]
<1>1. f[x] \in Int /\ IsFiniteSet(N \ {x}) /\ Numbers(f, N \ {x})
  BY FS_Subset DEF Numbers
<1>2. Solves(op, f[x], f, N \ {x}, Fold(op, f[x], f, N \ {x}))
  BY <1>1, FoldSolves
<1> QED BY <1>2, AllreduceFrom

\* Reducing the values of a group, and what one more member makes of it
LEMMA AllreduceFacts ==
  ASSUME NEW op \in Merging, NEW N, IsFiniteSet(N), NEW x \in N, NEW f, Numbers(f, N)
  PROVE  Allreduce(op, N, f) \in Int
<1>1. f[x] \in Int /\ IsFiniteSet(N \ {x}) /\ Numbers(f, N \ {x})
  BY FS_Subset DEF Numbers
<1>2. Solves(op, f[x], f, N \ {x}, Fold(op, f[x], f, N \ {x}))
  BY <1>1, FoldSolves
<1>3. Fold(op, f[x], f, N \ {x})[N \ {x}] \in Int
  BY <1>2 DEF Solves
<1> QED BY <1>3, AllreduceFrom

\* One more member is combined with the result of the others.
LEMMA AllreduceJoins ==
  ASSUME NEW op \in Merging, NEW N, IsFiniteSet(N), N # {}, NEW w, w \notin N,
         NEW f, Numbers(f, N \cup {w})
  PROVE  Allreduce(op, N \cup {w}, f) = Combine(op, f[w], Allreduce(op, N, f))
<1>1. PICK x \in N : TRUE
  OBVIOUS
<1> DEFINE M == N \cup {w}
           S == M \ {x}
           T == N \ {x}
           c == f[x]
<1>2. /\ IsFiniteSet(M) /\ Numbers(f, M) /\ x \in M /\ Numbers(f, N)
      /\ IsFiniteSet(S) /\ Numbers(f, S) /\ IsFiniteSet(T) /\ SameOn(f, f, T)
  BY FS_AddElement, FS_Subset DEF Numbers, SameOn
<1>3. w \in S /\ S \ {w} = T /\ T \subseteq S
  BY <1>1
<1>4. PICK G : Solves(op, c, f, S, G) /\ Allreduce(op, M, f) = G[S]
  <2> HIDE DEF M
  <2> QED BY <1>2, AllreduceSolves
<1>5. PICK H : Solves(op, c, f, T, H) /\ Allreduce(op, N, f) = H[T]
  BY <1>1, <1>2, AllreduceSolves
<1> HIDE DEF S, T, c
<1>6. G[S] = Combine(op, f[w], G[T])
  BY <1>2, <1>3, <1>4, FoldAny
<1>7. G[T] = H[T]
  BY <1>2, <1>3, <1>4, <1>5, FoldAgree
<1> QED BY <1>4, <1>5, <1>6, <1>7

\* It depends on nothing but the members' values.
LEMMA AllreduceSame ==
  ASSUME NEW op \in Merging, NEW N, IsFiniteSet(N), NEW x \in N,
         NEW f, Numbers(f, N), NEW g, SameOn(f, g, N)
  PROVE  Allreduce(op, N, f) = Allreduce(op, N, g)
<1> DEFINE T == N \ {x}
           c == f[x]
<1>1. /\ g[x] = c /\ Numbers(g, N)
      /\ IsFiniteSet(T) /\ SameOn(f, g, T)
  BY FS_Subset DEF Numbers, SameOn
<1>2. PICK F : Solves(op, f[x], f, T, F) /\ Allreduce(op, N, f) = F[T]
  BY AllreduceSolves
<1>3. PICK G : Solves(op, g[x], g, T, G) /\ Allreduce(op, N, g) = G[T]
  BY <1>1, AllreduceSolves
<1>4. Solves(op, c, f, T, F) /\ Solves(op, c, g, T, G)
  BY <1>1, <1>2, <1>3
<1> HIDE DEF T, c
<1>5. F[T] = G[T]
  BY <1>1, <1>4, FoldAgree
<1> QED BY <1>2, <1>3, <1>5

\* Merging x into one member's value merges it into the whole.
LEMMA AllreduceGrows ==
  ASSUME NEW op \in Merging, NEW N, IsFiniteSet(N), NEW w \in N, NEW x \in Int,
         NEW f, Numbers(f, N), NEW g, g[w] = Combine(op, f[w], x),
         \A u \in N \ {w} : g[u] = f[u]
  PROVE  Allreduce(op, N, g) = Combine(op, Allreduce(op, N, f), x)
<1>1. f[w] \in Int /\ g[w] \in Int /\ Numbers(g, N)
  BY CombineFacts DEF Numbers
<1> DEFINE M == N \ {w}
<1>2. CASE M = {}
  <2>1. N = {w}
    BY <1>2
  <2>2. Allreduce(op, N, f) = f[w] /\ Allreduce(op, N, g) = g[w]
    BY <2>1, AllreduceOfOne
  <2> QED BY <2>2
<1>3. CASE M # {}
  <2>1. IsFiniteSet(M) /\ w \notin M /\ N = M \cup {w} /\ Numbers(f, M) /\ Numbers(g, M)
    BY <1>1, FS_Subset DEF Numbers
  <2> DEFINE a == Allreduce(op, M, f)
  <2>y. PICK y \in M : TRUE
    BY <1>3
  <2>s. SameOn(f, g, M)
    BY DEF SameOn
  <2>2. a \in Int /\ Allreduce(op, M, g) = a
    <3> HIDE DEF M
    <3> QED BY <2>y, <2>s, <2>1, AllreduceFacts, AllreduceSame
  <2>3. Allreduce(op, N, f) = Combine(op, f[w], a) /\ Allreduce(op, N, g) = Combine(op, g[w], a)
    BY <1>1, <1>3, <2>1, <2>2, AllreduceJoins
  <2> HIDE DEF a
  <2>4. Combine(op, Combine(op, f[w], x), a) = Combine(op, Combine(op, f[w], a), x)
    BY <1>1, <2>2 DEF Combine, Merging
  <2> QED BY <2>3, <2>4
<1> QED BY <1>2, <1>3

\* The largest and the smallest of equal values is that value.
LEMMA AllreduceOfEquals ==
  ASSUME NEW op \in {"MAX", "MIN"}, NEW N, IsFiniteSet(N), N # {}, NEW c \in Int,
         NEW f, \A w \in N : f[w] = c
  PROVE  Allreduce(op, N, f) = c
<1>1. PICK x \in N : TRUE
  OBVIOUS
<1> DEFINE S == N \ {x}
           G == Fold(op, c, f, S)
<1>2. op \in Merging /\ IsFiniteSet(S) /\ Numbers(f, S) /\ Numbers(f, N) /\ f[x] = c
  BY FS_Subset DEF Numbers, Merging
<1>3. Solves(op, c, f, S, G)
  BY <1>2, FoldSolves
<1>4. Allreduce(op, N, f) = G[S]
  BY <1>2, AllreduceFrom
<1> HIDE DEF G
<1> DEFINE Bad == {s \in SUBSET S : G[s] # c}
<1>5. Bad = {}
  <2> SUFFICES ASSUME Bad # {} PROVE FALSE
    OBVIOUS
  <2>1. PICK s \in Bad : \A t \in Bad : ~ (t \subseteq s /\ t # s)
    <3>1. Bad \in SUBSET SUBSET S
      OBVIOUS
    <3> HIDE DEF Bad
    <3> QED BY <1>2, <3>1, SmallestSet
  <2>2. s \in SUBSET S /\ G[s] = Body(op, c, f, G, s) /\ s # {}
    BY <1>3, <2>1 DEF Solves, Body
  <2>3. OneOf(s) \in s /\ f[OneOf(s)] = c
    BY <2>2, OneOfIsIn
  <2>4. G[s \ {OneOf(s)}] = c
    BY <2>1, <2>3
  <2>5. Combine(op, c, c) = c
    BY DEF Combine
  <2> QED BY <2>1, <2>2, <2>3, <2>4, <2>5 DEF Body
<1> QED BY <1>4, <1>5

-----------------------------------------------------------------------------
(* The tables keep their types.                                            *)

Typed == [value : Int, valueadded : BOOLEAN, exported : BOOLEAN]

\* There are finitely many worlds.
LEMMA WorldsFinite == IsFiniteSet(Worlds)
  BY FS_Interval, WorldsAssumption DEF Worlds

\* New, reset and cleared reducers, and those of a new round, are typed.
LEMMA BlankTypes ==
  ASSUME NEW r \in Typed
  PROVE  /\ NewReducer \in Typed
         /\ Reset(r) \in Typed /\ Clear(r) \in Typed /\ NewRound(r) \in Typed
<1>1. NewReducer \in Typed
  BY DEF Typed, NewReducer
<1>2. Clear(r) \in Typed
  BY DEF Typed, Clear
<1>3. NewRound(r) \in Typed
  BY DEF Typed, NewRound
<1>4. Reset(r) \in Typed
  <2>1. Reset(r) = [Clear(r) EXCEPT !.value = 0]
    BY DEF Reset, Clear, Typed
  <2> QED BY <1>2, <2>1 DEF Typed
<1> QED BY <1>1, <1>2, <1>3, <1>4

\* So are reducers that received, merged or took a local value.
LEMMA ReducerTypes ==
  ASSUME NEW r \in Typed, NEW x \in Int, NEW op \in Ops
  PROVE  /\ Receive(op, r, x) \in Typed /\ ReduceRemoteValues(op, r, x) \in Typed
         /\ ReduceLocalValue(op, r, x) \in Typed
<1>1. Reset(r) \in Typed
  BY BlankTypes
<1>2. Receive(op, r, x) \in Typed /\ ReduceRemoteValues(op, r, x) \in Typed
  BY DEF Typed, Receive, ReduceRemoteValues
<1>3. op \in Merging \/ op = "SET" \/ op = "LOCAL"
  BY DEF Ops, Merging
<1>4. op \in Merging => Combine(op, r.value, x) \in Int
  BY CombineFacts DEF Typed
<1>5. ReduceLocalValue(op, r, x) \in Typed
  BY <1>1, <1>3, <1>4 DEF ReduceLocalValue, CanClash, Typed
<1> QED BY <1>1, <1>2, <1>5

\* What is shipped for a variable the loop gets past is a number.
LEMMA MergedTypes ==
  ASSUME NEW st, NEW rm \in [Worlds -> [Vars -> Typed]], NEW v \in Vars, v \in Passed(st),
         New(st, v) # {}, Op[v] # "LOCAL"
  PROVE  Merged(st, rm, v) \in Int
<1> DEFINE N == New(st, v)
           f == [w \in Worlds |-> rm[w][v].value]
<1>1. v \in declared /\ v \notin Failing(st) /\ Op[v] \in Ops
  BY VarsAssumption DEF Passed
<1>2. N \subseteq Worlds /\ IsFiniteSet(N)
  BY WorldsFinite, FS_Subset DEF New, In
<1>3. CASE Several(N)
  <2>1. ~ CanClash(Op[v])
    BY <1>1, <1>3 DEF Failing, SetClash
  <2>2. Op[v] \in Merging
    BY <1>1, <2>1 DEF CanClash, Ops, Merging
  <2>3. Numbers(f, N)
    BY <1>2 DEF Numbers, Typed
  <2>4. PICK x \in N : TRUE
    OBVIOUS
  <2> HIDE DEF N, f
  <2>5. Allreduce(Op[v], N, f) \in Int
    BY <1>2, <2>2, <2>3, <2>4, AllreduceFacts
  <2> QED BY <2>5 DEF Merged, N, f
<1>4. CASE ~ Several(N)
  <2>1. PICK u \in Worlds : N = {u}
    BY <1>2, <1>4 DEF Several
  <2>2. Merged(st, rm, v) = rm[u][v].value
    BY <2>1, MergedOne
  <2> QED BY <2>2 DEF Typed
<1> QED BY <1>3, <1>4

\* An exchange leaves typed tables.
LEMMA SynchTypes ==
  ASSUME NEW st \in [Worlds -> [Vars -> States]], NEW rm \in [Worlds -> [Vars -> Typed]],
         Synch(st, rm)
  PROVE  /\ varstate' \in [Worlds -> [Vars -> States]]
         /\ reducemap' \in [Worlds -> [Vars -> Typed]]
<1> DEFINE si == SynchVariableInfo(st)
<1>1. si \in [Worlds -> [Vars -> States]]
  BY DEF SynchVariableInfo, Interested, States
<1>2. /\ varstate' = [w \in Worlds |-> [v \in Vars |-> SynchedState(si, w, v)]]
      /\ reducemap' = [w \in Worlds |-> [v \in Vars |-> SynchedReducer(si, rm, w, v)]]
  BY DEF Synch
<1> HIDE DEF si
<1>3. ASSUME NEW w \in Worlds, NEW v \in Vars PROVE SynchedState(si, w, v) \in States
  <2>1. si[w][v] \in States
    BY <1>1
  <2>2. SharedState(si, w, v) \in States
    BY <2>1 DEF SharedState, States
  <2> QED BY <2>1, <2>2 DEF SynchedState, States
<1>4. ASSUME NEW w \in Worlds, NEW v \in Vars PROVE SynchedReducer(si, rm, w, v) \in Typed
  <2>1. rm[w][v] \in Typed /\ Op[v] \in Ops
    BY VarsAssumption
  <2>2. Reset(rm[w][v]) \in Typed
    BY <2>1, BlankTypes
  <2>3. ASSUME v \in Passed(si) PROVE SharedReducer(si, rm, w, v) \in Typed
    <3>1. CASE Op[v] = "LOCAL"
      BY <2>1, <3>1 DEF SharedReducer, ReduceRemoteValues, Receive
    <3>2. CASE Op[v] # "LOCAL" /\ Ships(si, v)
      <4>1. New(si, v) # {}
        BY <3>2 DEF Ships, Several
      <4>2. Merged(si, rm, v) \in Int
        BY <2>3, <3>2, <4>1, MergedTypes
      <4>3. /\ Receive(Op[v], rm[w][v], Merged(si, rm, v)) \in Typed
            /\ ReduceRemoteValues(Op[v], rm[w][v], Merged(si, rm, v)) \in Typed
        BY <2>1, <4>2, ReducerTypes
      <4>4. New(si, v) = {} <=> FALSE
        BY <4>1
      <4> QED BY <2>1, <3>2, <4>3, <4>4 DEF SharedReducer, ShipsOld
    <3>3. CASE ~ Ships(si, v) /\ ShipsOld(si, v)
      <4>1. FirstHolder(si, v) \in Holders(si, v)
        <5>1. Holders(si, v) \subseteq Worlds /\ Holders(si, v) # {}
          BY <3>3 DEF ShipsOld, Holders, In
        <5> QED BY <5>1, FirstInSet DEF FirstHolder, FirstOf
      <4>2. FirstHolder(si, v) \in Worlds
        BY <4>1 DEF Holders, In
      <4>3. rm[FirstHolder(si, v)][v].value \in Int
        BY <4>2 DEF Typed
      <4>4. Receive(Op[v], rm[w][v], rm[FirstHolder(si, v)][v].value) \in Typed
        BY <2>1, <4>3, ReducerTypes
      <4> QED BY <2>1, <3>3, <4>4 DEF SharedReducer
    <3>4. CASE ~ Ships(si, v) /\ ~ ShipsOld(si, v)
      BY <2>1, <3>4 DEF SharedReducer
    <3> QED BY <3>1, <3>2, <3>3, <3>4
  <2>4. ASSUME v \in Passed(si) PROVE Clear(SharedReducer(si, rm, w, v)) \in Typed
    BY <2>3, <2>4 DEF Clear, Typed
  <2> QED BY <2>1, <2>2, <2>3, <2>4 DEF SynchedReducer
<1> QED BY <1>2, <1>3, <1>4

\* A new SplitWorld is typed.
LEMMA TypeInit == Init => TypeOK
<1> SUFFICES ASSUME Init PROVE TypeOK
  OBVIOUS
<1>1. declared \subseteq Vars /\ varstate \in [Worlds -> [Vars -> States]]
  BY DEF Init, States
<1>2. reducemap \in [Worlds -> [Vars -> Typed]]
  BY DEF Init, NewReducer, Typed
<1>3. imported \in [Worlds -> [Vars -> Contents]]
  BY DEF Init, NotDelivered, None, Contents
<1>4. pc \in [Worlds -> {"script", "jobs", "transport", "joining"}] /\ mres \in [Worlds -> 0 .. 4]
  BY DEF Init
<1>5. exports \in [Worlds -> 0 .. MaxExports] /\ batches \in 0 .. MaxBatches /\ ops \in 0 .. MaxOps
  BY BoundsAssumption DEF Init
<1> QED BY <1>1, <1>2, <1>3, <1>4, <1>5 DEF TypeOK, Typed

\* A table with one entry replaced is typed.
LEMMA TableType ==
  ASSUME NEW T, NEW t \in [Worlds -> [Vars -> T]], NEW w \in Worlds, NEW v \in Vars, NEW e \in T
  PROVE  [t EXCEPT ![w][v] = e] \in [Worlds -> [Vars -> T]]
  OBVIOUS

\* Every step leaves a typed state.
LEMMA TypeStep ==
  ASSUME TypeOK, [Next]_vars
  PROVE  TypeOK'
<1>t. /\ declared \subseteq Vars
      /\ varstate \in [Worlds -> [Vars -> States]]
      /\ reducemap \in [Worlds -> [Vars -> Typed]]
      /\ imported \in [Worlds -> [Vars -> Contents]]
      /\ pc \in [Worlds -> {"script", "jobs", "transport", "joining"}]
      /\ mres \in [Worlds -> 0 .. 4]
      /\ exports \in [Worlds -> 0 .. MaxExports]
      /\ batches \in 0 .. MaxBatches
      /\ ops \in 0 .. MaxOps
  BY DEF TypeOK, Typed
<1>b. MaxBatches \in Nat /\ MaxOps \in Nat /\ MaxExports \in Nat
  BY BoundsAssumption
<1>o. ASSUME ScriptOp PROVE ops' \in 0 .. MaxOps
  BY <1>t, <1>b, <1>o DEF ScriptOp
<1>n. ASSUME NEW u \in Vars, UNCHANGED <<imported, pc, mres, exports, batches>>,
             declared' \subseteq Vars, ops' \in 0 .. MaxOps,
             varstate' = [w \in Worlds |-> [varstate[w] EXCEPT ![u] = "NONE"]],
             reducemap' = [w \in Worlds |-> [reducemap[w] EXCEPT ![u] = NewReducer]]
      PROVE  TypeOK'
  <2>1. varstate' \in [Worlds -> [Vars -> States]]
    BY <1>n, <1>t DEF States
  <2>2. NewReducer \in Typed
    BY DEF NewReducer, Typed
  <2>3. reducemap' \in [Worlds -> [Vars -> Typed]]
    BY <1>n, <1>t, <2>2
  <2> QED BY <1>n, <1>t, <2>1, <2>3 DEF TypeOK, Typed
<1>1. ASSUME NEW u \in Vars, AddVariable(u) PROVE TypeOK'
  BY <1>1, <1>n, <1>t DEF AddVariable
<1>2. ASSUME NEW u \in Vars, RemoveVariable(u) PROVE TypeOK'
  BY <1>2, <1>n, <1>o, <1>t DEF RemoveVariable
<1>3. ASSUME NEW u \in Vars, ClearVariable(u) PROVE TypeOK'
  <2>1. /\ varstate' = [w \in Worlds |-> [varstate[w] EXCEPT ![u] = "NONE"]]
        /\ reducemap' = [w \in Worlds |-> [reducemap[w] EXCEPT ![u] = Reset(reducemap[w][u])]]
        /\ ops' \in 0 .. MaxOps
        /\ UNCHANGED <<declared, imported, pc, mres, exports, batches>>
    BY <1>3, <1>o, <1>t DEF ClearVariable
  <2>2. varstate' \in [Worlds -> [Vars -> States]]
    BY <2>1, <1>t DEF States
  <2>3. \A w \in Worlds : Reset(reducemap[w][u]) \in Typed
    BY <1>t, BlankTypes
  <2>4. reducemap' \in [Worlds -> [Vars -> Typed]]
    BY <1>t, <2>1, <2>3
  <2> QED BY <1>t, <2>1, <2>2, <2>4 DEF TypeOK, Typed
<1>4. ASSUME NEW c \in Copied, CopyVariable(c[1], c[2]) PROVE TypeOK'
  <2> DEFINE src == c[1]
             dest == c[2]
  <2>1. src \in Vars /\ dest \in Vars
    BY ScriptAssumption
  <2>2. /\ reducemap' = [w \in Worlds |->
              [reducemap[w] EXCEPT ![dest] = CopyValueFrom(reducemap[w][dest], reducemap[w][src])]]
        /\ ops' \in 0 .. MaxOps
        /\ UNCHANGED <<declared, varstate, imported, pc, mres, exports, batches>>
    BY <1>4, <1>o, <1>t DEF CopyVariable
  <2> HIDE DEF src, dest
  <2>3. ASSUME NEW w \in Worlds PROVE CopyValueFrom(reducemap[w][dest], reducemap[w][src]) \in Typed
    <3> DEFINE r == reducemap[w][dest]
               s == reducemap[w][src]
    <3>1. r \in Typed /\ s \in Typed
      BY <1>t, <2>1
    <3>2. Receive("SUM", r, s.value) = CopyValueFrom(r, s)
      BY DEF Receive, CopyValueFrom
    <3>3. s.value \in Int /\ "SUM" \in Ops
      BY <3>1 DEF Typed, Ops
    <3> HIDE DEF r, s
    <3>4. Receive("SUM", r, s.value) \in Typed
      BY <3>1, <3>3, ReducerTypes
    <3> QED BY <3>2, <3>4 DEF r, s
  <2>4. reducemap' \in [Worlds -> [Vars -> Typed]]
    BY <1>t, <2>1, <2>2, <2>3
  <2> QED BY <1>t, <2>2, <2>4 DEF TypeOK, Typed
<1>5. ASSUME NEW u \in Vars, GetVariable(u) PROVE TypeOK'
  <2> DEFINE st == [w \in Worlds |-> [varstate[w] EXCEPT ![u] = Interested(varstate[w][u])]]
  <2>1. Synch(st, reducemap) /\ ops' \in 0 .. MaxOps
        /\ UNCHANGED <<declared, imported, pc, mres, exports, batches>>
    BY <1>5, <1>o DEF GetVariable
  <2>2. \A w \in Worlds : Interested(varstate[w][u]) \in States
    BY <1>t DEF Interested, States
  <2>3. st \in [Worlds -> [Vars -> States]]
    BY <1>t, <2>2
  <2> HIDE DEF st
  <2>4. varstate' \in [Worlds -> [Vars -> States]] /\ reducemap' \in [Worlds -> [Vars -> Typed]]
    BY <1>t, <2>1, <2>3, SynchTypes
  <2> QED BY <1>t, <2>1, <2>4 DEF TypeOK, Typed
<1>r. /\ ResetInterest(varstate) \in [Worlds -> [Vars -> States]]
      /\ NewRounds \in [Worlds -> [Vars -> Typed]]
  <2>1. \A w \in Worlds, v \in Vars : NotInterested(varstate[w][v]) \in States
    BY <1>t DEF NotInterested, States
  <2>2. \A w \in Worlds, v \in Vars : NewRound(reducemap[w][v]) \in Typed
    BY <1>t, BlankTypes
  <2> QED BY <2>1, <2>2 DEF ResetInterest, NewRounds
<1>6. ASSUME StartBatch PROVE TypeOK'
  <2>1. /\ Synch(ResetInterest(varstate), NewRounds)
        /\ UNCHANGED <<declared, imported, ops>>
    BY <1>6 DEF StartBatch
  <2>2. varstate' \in [Worlds -> [Vars -> States]] /\ reducemap' \in [Worlds -> [Vars -> Typed]]
    BY <1>r, <2>1, SynchTypes
  <2>3. batches' \in 0 .. MaxBatches /\ exports' \in [Worlds -> 0 .. MaxExports]
    BY <1>6, <1>t, <1>b DEF StartBatch
  <2>4. pc' \in [Worlds -> {"script", "jobs", "transport", "joining"}] /\ mres' \in [Worlds -> 0 .. 4]
    BY <1>6 DEF StartBatch
  <2> QED BY <1>t, <2>1, <2>2, <2>3, <2>4 DEF TypeOK, Typed
<1>7. ASSUME StartBatchFails PROVE TypeOK'
  <2>1. /\ varstate' \in [Worlds -> [Vars -> States]]
        /\ reducemap' \in [Worlds -> [Vars -> Typed]]
        /\ UNCHANGED <<declared, imported, pc, mres, exports, ops>>
    BY <1>7, <1>r DEF StartBatchFails
  <2>2. batches' \in 0 .. MaxBatches
    BY <1>7, <1>t, <1>b DEF StartBatchFails
  <2> QED BY <1>t, <2>1, <2>2 DEF TypeOK, Typed
<1>8. ASSUME NEW w \in Worlds, NEW r \in 0 .. 3, RunJobs(w, r) PROVE TypeOK'
  <2>1. \A v \in Vars : Import(w, v) \in Contents
    BY <1>t DEF Import, None, Contents, Typed
  <2>2. imported' \in [Worlds -> [Vars -> Contents]]
    BY <1>8, <1>t, <2>1 DEF RunJobs
  <2>3. pc' \in [Worlds -> {"script", "jobs", "transport", "joining"}] /\ mres' \in [Worlds -> 0 .. 4]
    BY <1>8, <1>t DEF RunJobs
  <2>4. UNCHANGED <<declared, varstate, reducemap, exports, batches, ops>>
    BY <1>8 DEF RunJobs
  <2> QED BY <1>t, <2>2, <2>3, <2>4 DEF TypeOK, Typed
<1>p. ASSUME NEW w \in Worlds
      PROVE  /\ [pc EXCEPT ![w] = "joining"] \in [Worlds -> {"script", "jobs", "transport", "joining"}]
             /\ [mres EXCEPT ![w] = 4] \in [Worlds -> 0 .. 4]
  <2>1. [pc EXCEPT ![w] = "joining"] \in [Worlds -> {"script", "jobs", "transport", "joining"}]
    BY <1>t
  <2>2. [mres EXCEPT ![w] = 4] \in [Worlds -> 0 .. 4]
    BY <1>t
  <2> QED BY <2>1, <2>2
<1>9. ASSUME NEW w \in Worlds, NEW v \in Vars, NEW x \in ExportValues, Transport(w, v, x)
      PROVE  TypeOK'
  <2> DEFINE e == ReduceLocalValue(Op[v], reducemap[w][v], x)
  <2>1. /\ reducemap' = [reducemap EXCEPT ![w][v] = e]
        /\ UNCHANGED <<declared, imported, batches, ops>>
        /\ exports[w] < MaxExports /\ exports' = [exports EXCEPT ![w] = @ + 1]
    BY <1>9 DEF Transport
  <2>2. e \in Typed
    BY <1>t, ReducerTypes, ValuesAssumption, VarsAssumption
  <2> HIDE DEF e
  <2>3. reducemap' \in [Worlds -> [Vars -> Typed]]
    BY <1>t, <2>1, <2>2
  <2>4. exports' \in [Worlds -> 0 .. MaxExports]
    BY <1>t, <1>b, <2>1
  <2>5. \/ /\ mres' = [mres EXCEPT ![w] = 4]
           /\ pc' = [pc EXCEPT ![w] = "joining"]
           /\ varstate' = varstate
        \/ varstate' = [varstate EXCEPT ![w][v] = "NEW"] /\ mres' = mres /\ pc' = pc
    BY <1>9 DEF Transport
  <2>6. varstate' \in [Worlds -> [Vars -> States]]
    <3>1. "NEW" \in States
      BY DEF States
    <3>2. [varstate EXCEPT ![w][v] = "NEW"] \in [Worlds -> [Vars -> States]]
      BY <1>t, <3>1, TableType
    <3> QED BY <1>t, <2>5, <3>2
  <2>7. pc' \in [Worlds -> {"script", "jobs", "transport", "joining"}] /\ mres' \in [Worlds -> 0 .. 4]
    BY <1>p, <1>t, <2>5
  <2> QED BY <1>t, <2>1, <2>3, <2>4, <2>6, <2>7 DEF TypeOK, Typed
<1>10. ASSUME NEW w \in Worlds, RefuseExport(w) \/ EndTransport(w) PROVE TypeOK'
  <2>1. /\ UNCHANGED <<declared, varstate, reducemap, imported, exports, batches, ops>>
        /\ pc' = [pc EXCEPT ![w] = "joining"]
        /\ mres' = mres \/ mres' = [mres EXCEPT ![w] = 4]
    BY <1>10 DEF RefuseExport, EndTransport
  <2>2. pc' \in [Worlds -> {"script", "jobs", "transport", "joining"}] /\ mres' \in [Worlds -> 0 .. 4]
    BY <1>p, <1>t, <2>1
  <2> QED BY <1>t, <2>1, <2>2 DEF TypeOK, Typed
<1>11. ASSUME Join PROVE TypeOK'
  <2>1. imported' \in [Worlds -> [Vars -> Contents]]
    BY <1>11 DEF Join, NotDelivered, None, Contents
  <2>2. /\ pc' \in [Worlds -> {"script", "jobs", "transport", "joining"}]
        /\ mres' \in [Worlds -> 0 .. 4]
        /\ exports' \in [Worlds -> 0 .. MaxExports]
        /\ UNCHANGED <<declared, varstate, reducemap, batches, ops>>
    BY <1>11, <1>b DEF Join
  <2> QED BY <1>t, <2>1, <2>2 DEF TypeOK, Typed
<1>12. ASSUME UNCHANGED vars PROVE TypeOK'
  BY <1>12 DEF vars, TypeOK
<1>13. ASSUME Script PROVE TypeOK'
  BY <1>13, <1>1, <1>2, <1>3, <1>4, <1>5, <1>6, <1>7, ScriptAssumption DEF Script
<1>14. ASSUME NEW w \in Worlds, Local(w) PROVE TypeOK'
  BY <1>14, <1>8, <1>9, <1>10 DEF Local
<1> QED BY <1>11, <1>12, <1>13, <1>14 DEF Next, Finished

\* Whatever the script and the jobs do, every table keeps its shape, and what is
\* reduced and shipped are numbers, as those exported are.
THEOREM TypeOKHolds == Spec => []TypeOK
<1> QED BY TypeInit, TypeStep, PTL DEF Spec

-----------------------------------------------------------------------------
(* Synchronising the worlds changes no value.                              *)

\* No synchronisation can stop at a variable after a SUM variable.  If it could, a world
\* would reduce the sum with what the first attempt had already summed up.
SumsLast ==
  \A u, v \in Vars : Op[v] = "SUM" /\ (u \in Queried \/ Op[u] = "SET") => u <= v

Value(x) == [holds |-> "value", value |-> x]
NoValue == [holds |-> "nothing", value |-> 0]

Having(rm, v) == {w \in Worlds : rm[w][v].valueadded}

\* SharedValue of any tables
ValueOf(st, rm, v) ==
  IF New(st, v) # {}
  THEN IF (Several(New(st, v)) /\ CanClash(Op[v])) \/ ~ New(st, v) \subseteq Having(rm, v)
       THEN [holds |-> "conflict", value |-> 0]
       ELSE Value(Merged(st, rm, v))
  ELSE IF Having(rm, v) = {}
  THEN NoValue
  ELSE Value(rm[CHOOSE w \in Having(rm, v) : TRUE][v].value)

\* The value of a shared variable, written over the tables that hold it.
LEMMA SharedValueIs ==
  ASSUME NEW v
  PROVE  /\ SharedValue(v) = ValueOf(varstate, reducemap, v)
         /\ SharedValue(v)' = ValueOf(varstate', reducemap', v)
  BY DEF SharedValue, ValueOf, Value, NoValue, Having

\* Only the updates and the reducers' values matter.
LEMMA SameValue ==
  ASSUME NEW st, NEW rm, NEW s2, NEW r2, NEW v,
         \A w \in Worlds : /\ s2[w][v] = "NEW" <=> st[w][v] = "NEW"
                           /\ r2[w][v].valueadded = rm[w][v].valueadded
                           /\ r2[w][v].value = rm[w][v].value
  PROVE  ValueOf(s2, r2, v) = ValueOf(st, rm, v)
<1>1. New(s2, v) = New(st, v)
  BY DEF New, In
<1>2. Having(r2, v) = Having(rm, v)
  BY DEF Having
<1>3. [w \in Worlds |-> r2[w][v].value] = [w \in Worlds |-> rm[w][v].value]
  OBVIOUS
<1>4. Merged(s2, r2, v) = Merged(st, rm, v)
  BY <1>1, <1>3 DEF Merged
<1>5. ASSUME Having(rm, v) # {}
      PROVE  LET w == CHOOSE w \in Having(rm, v) : TRUE
             IN  r2[w][v].value = rm[w][v].value
  <2> DEFINE h == CHOOSE w \in Having(rm, v) : TRUE
  <2>1. h \in Having(rm, v)
    BY <1>5
  <2>2. h \in Worlds
    BY <2>1 DEF Having
  <2> HIDE DEF h
  <2>3. r2[h][v].value = rm[h][v].value
    BY <2>2
  <2> QED BY <2>3 DEF h
<1> QED BY <1>1, <1>2, <1>4, <1>5 DEF ValueOf

\* When every world has got the same value, that is the value.
LEMMA EverywhereSame ==
  ASSUME NEW st, NEW rm, NEW v \in Vars, NEW m \in Int,
         \A w \in Worlds : rm[w][v].valueadded /\ rm[w][v].value = m,
         Several(New(st, v)) => Op[v] \in {"MAX", "MIN"}
  PROVE  ValueOf(st, rm, v) = Value(m)
<1>1. Having(rm, v) = Worlds /\ New(st, v) \subseteq Worlds
  BY DEF Having, New, In
<1>2. Worlds # {}
  BY WorldsAssumption DEF Worlds
<1>3. CASE New(st, v) = {}
  <2>1. (CHOOSE w \in Having(rm, v) : TRUE) \in Worlds
    BY <1>1, <1>2
  <2> QED BY <1>1, <1>2, <1>3, <2>1 DEF ValueOf
<1>4. CASE New(st, v) # {}
  <2>1. ~ (Several(New(st, v)) /\ CanClash(Op[v]))
    BY DEF CanClash
  <2>2. Merged(st, rm, v) = m
    <3>1. CASE Several(New(st, v))
      <4> DEFINE f == [w \in Worlds |-> rm[w][v].value]
                 N == New(st, v)
      <4>1. IsFiniteSet(N) /\ \A w \in N : f[w] = m
        BY <1>1, WorldsFinite, FS_Subset
      <4>2. Op[v] \in {"MAX", "MIN"} /\ N # {}
        BY <1>4, <3>1
      <4> HIDE DEF f, N
      <4>3. Allreduce(Op[v], N, f) = m
        BY <4>1, <4>2, AllreduceOfEquals
      <4> QED BY <4>3 DEF Merged, f, N
    <3>2. CASE ~ Several(New(st, v))
      <4>1. PICK u \in Worlds : New(st, v) = {u}
        BY <1>1, <1>4, <3>2 DEF Several
      <4> QED BY <4>1, MergedOne
    <3> QED BY <3>1, <3>2
  <2> QED BY <1>1, <1>4, <2>1, <2>2 DEF ValueOf
<1> QED BY <1>3, <1>4

\* A value reduced from one world is that world's.
Only(S, u) == S = {u}

\* MPI_Allreduce over one member gives its value.
LEMMA AllreduceOnly ==
  ASSUME NEW op, NEW f, NEW S, NEW u, Only(S, u)
  PROVE  Allreduce(op, S, f) = f[u]
<1>1. S = {u}
  BY DEF Only
<1>2. Allreduce(op, {u}, f) = f[u]
  BY AllreduceOfOne
<1> QED BY <1>1, <1>2

\* A value only one world has is merged to itself, however that world is named.
LEMMA MergedOnly ==
  ASSUME NEW st, NEW rm, NEW v, NEW u \in Worlds, Only(New(st, v), u)
  PROVE  Merged(st, rm, v) = rm[u][v].value
<1> DEFINE f == [w \in Worlds |-> rm[w][v].value]
<1>1. f[u] = rm[u][v].value
  OBVIOUS
<1>2. Merged(st, rm, v) = Allreduce(Op[v], New(st, v), f)
  BY DEF Merged
<1> HIDE DEF f
<1> QED BY <1>1, <1>2, AllreduceOnly

\* The only variables at which a synchronisation stops
FailsOnlyAt(st) ==
  \A u \in Failing(st) : u \in Vars /\ (u \in Queried \/ Op[u] = "SET")

\* After an update was dealt with every world has it.
LEMMA PassedEnds ==
  ASSUME SumsLast, NEW st, NEW rm \in [Worlds -> [Vars -> Typed]], Shape(st, rm),
         NEW v \in Shared, VarInv(st, rm, v), AllWant(st, v), FailsOnlyAt(st),
         v \in Passed(st), NEW x \in New(st, v),
         NEW s2, NEW r2,
         \A w \in Worlds : /\ s2[w][v] = SynchedState(st, w, v)
                           /\ r2[w][v] = SynchedReducer(st, rm, w, v)
  PROVE  /\ Merged(st, rm, v) \in Int
         /\ \A w \in Worlds : r2[w][v].valueadded /\ r2[w][v].value = Merged(st, rm, v)
         /\ Several(New(s2, v)) => Op[v] \in {"MAX", "MIN"}
<1> DEFINE N == New(st, v)
           M == Merged(st, rm, v)
<1>s. \A w \in Worlds : st[w][v] \in States /\ IsReducer(rm[w][v])
  BY DEF Shape, Shared
<1>v. v \in Vars /\ Op[v] # "LOCAL" /\ v \in Nat /\ Op[v] \in Ops
  BY VarsAssumption DEF Shared
<1>1. v \in declared /\ v \notin Failing(st) /\ \A u \in Failing(st) : v < u
  BY <1>v DEF Passed
<1>2. \A w \in Worlds : st[w][v] \in {"INTERESTED", "OLDINTERESTED", "NEW"}
  BY DEF AllWant
<1>3. ~ Loses(st, v) /\ ~ ShipsOld(st, v)
  BY <1>1 DEF Loses, StopsAt, ShipsOld
<1>4. \A w \in Worlds : w \in N <=> st[w][v] = "NEW"
  BY DEF New, In
<1>5. \A w \in Worlds : w \in Wanting(st, v) <=> st[w][v] \in {"INTERESTED", "OLDINTERESTED"}
  BY DEF Wanting, In
<1>6. M \in Int
  <2>1. New(st, v) # {}
    OBVIOUS
  <2> QED BY <1>v, <2>1, MergedTypes
<1>7. \A w \in Worlds : SharedState(st, w, v) # "OLD"
  BY <1>2 DEF SharedState
<1>8. \A w \in Worlds : r2[w][v] = SharedReducer(st, rm, w, v)
  BY <1>3, <1>7 DEF SynchedReducer
<1>9. \A w \in Worlds : r2[w][v].valueadded /\ r2[w][v].value = M
  <2>1. CASE ~ Ships(st, v)
    <3>1. \A w \in Worlds : st[w][v] = "NEW"
      BY <1>2, <1>5, <2>1 DEF Ships, Wanting, In
    <3>2. \A a, b \in Worlds : a = b
      BY <1>4, <2>1, <3>1 DEF Ships, Several
    <3>3. \A w \in Worlds : SharedReducer(st, rm, w, v) = rm[w][v]
      BY <1>3, <2>1 DEF SharedReducer
    <3>4. \A w \in Worlds : rm[w][v].valueadded
      BY <3>1 DEF VarInv
    <3>5. ASSUME NEW w \in Worlds PROVE rm[w][v].value = M
      <4>1. Only(New(st, v), w)
        BY <3>1, <3>2, <3>5 DEF New, In, Only
      <4> QED BY <4>1, MergedOnly
    <3> QED BY <1>8, <3>3, <3>4, <3>5
  <2>2. CASE Ships(st, v) /\ N = Worlds
    <3>1. \A w \in Worlds : rm[w][v].valueadded
      BY <1>4, <2>2 DEF VarInv
    <3>2. \A w \in Worlds : r2[w][v] = ReduceRemoteValues(Op[v], rm[w][v], M)
      BY <1>8, <2>2 DEF SharedReducer
    <3> HIDE DEF M
    <3> QED BY <1>s, <1>v, <3>1, <3>2, RemoteOps
  <2>3. CASE Ships(st, v) /\ N # Worlds
    <3>1. \A w \in Worlds : w \in N \cup Wanting(st, v)
      BY <1>2, <1>4, <1>5
    <3>2. \A w \in Worlds : r2[w][v] = Receive(Op[v], rm[w][v], M)
      BY <1>8, <2>3, <3>1 DEF SharedReducer
    <3> HIDE DEF M
    <3> QED BY <1>s, <1>v, <3>2, ReceiveOps
  <2> QED BY <2>1, <2>2, <2>3
<1>10. ASSUME Several(New(s2, v)) PROVE Op[v] \in {"MAX", "MIN"}
  <2>1. PICK a, b \in New(s2, v) : a # b
    BY <1>10 DEF Several
  <2>2. a \in Worlds /\ b \in Worlds /\ s2[a][v] = "NEW" /\ s2[b][v] = "NEW"
    BY <2>1 DEF New, In
  <2>3. ~ Ages(st, v) /\ SharedState(st, a, v) = "NEW" /\ SharedState(st, b, v) = "NEW"
    BY <1>3, <2>2 DEF SynchedState
  <2>4. st[a][v] = "NEW" /\ st[b][v] = "NEW"
    BY <1>2, <2>2, <2>3 DEF SharedState
  <2>5. Several(N)
    BY <1>4, <2>1, <2>2, <2>4 DEF Several
  <2>6. Failing(st) # {}
    BY <2>3 DEF Ages
  <2>7. PICK u \in Failing(st) : v < u
    BY <1>1, <2>6
  <2>8. u \in Nat /\ u \in Vars /\ (u \in Queried \/ Op[u] = "SET")
    BY VarsAssumption, <2>7 DEF FailsOnlyAt
  <2>9. Op[v] # "SUM"
    BY <1>v, <2>7, <2>8 DEF SumsLast
  <2>10. ~ CanClash(Op[v])
    BY <1>v, <2>5, PassedMerges
  <2> QED BY <1>v, <2>9, <2>10 DEF CanClash, Ops
<1> QED BY <1>6, <1>9, <1>10

\* What synchVariableInfo does to the states of a variable
LEMMA InfoStates ==
  ASSUME NEW st \in [Worlds -> [Vars -> States]], NEW v \in Vars
  PROVE  LET si == SynchVariableInfo(st)
         IN  /\ New(si, v) = New(st, v)
             /\ Holders(si, v) = Holders(st, v)
             /\ \A w \in Worlds : si[w][v] = "NEW" <=> st[w][v] = "NEW"
             /\ \A w \in Worlds : v \notin declared => si[w][v] = st[w][v]
             /\ Holders(st, v) \cup New(st, v) = {} => \A w \in Worlds : si[w][v] = st[w][v]
<1> DEFINE si == SynchVariableInfo(st)
<1>1. \A w \in Worlds : si[w][v] =
        IF v \in declared /\ Holders(st, v) \cup New(st, v) # {}
        THEN Interested(st[w][v]) ELSE st[w][v]
  BY DEF SynchVariableInfo
<1> HIDE DEF si
<1>2. \A w \in Worlds : /\ si[w][v] = "NEW" <=> st[w][v] = "NEW"
                        /\ si[w][v] \in {"OLD", "OLDINTERESTED"} <=> st[w][v] \in {"OLD", "OLDINTERESTED"}
  BY <1>1 DEF Interested, States
<1>3. New(si, v) = New(st, v) /\ Holders(si, v) = Holders(st, v)
  BY <1>2 DEF New, Holders, In
<1> QED BY <1>1, <1>2, <1>3 DEF si

\* If only what the script reads is wanted without a source, a synchronisation fails
\* only there and where SET updates clash.
LEMMA InfoFails ==
  ASSUME NEW st \in [Worlds -> [Vars -> States]], \A v \in Vars : Sourced(st, v),
         declared \subseteq Vars
  PROVE  FailsOnlyAt(SynchVariableInfo(st))
<1> DEFINE si == SynchVariableInfo(st)
<1> SUFFICES ASSUME NEW u \in Failing(si), u \notin Queried PROVE u \in Vars /\ Op[u] = "SET"
  BY DEF FailsOnlyAt, Failing
<1>1. u \in Vars
  BY DEF Failing
<1>2. /\ New(si, u) = New(st, u)
      /\ Holders(si, u) = Holders(st, u)
      /\ Holders(st, u) \cup New(st, u) = {} => \A w \in Worlds : si[w][u] = st[w][u]
  BY <1>1, InfoStates
<1> HIDE DEF si
<1>3. ~ NoSource(si, u)
  <2> SUFFICES ASSUME NoSource(si, u) PROVE FALSE
    OBVIOUS
  <2>1. Wanting(si, u) # {} /\ Holders(st, u) \cup New(st, u) = {}
    BY <1>2 DEF NoSource
  <2>2. PICK w \in Worlds : si[w][u] \in {"INTERESTED", "OLDINTERESTED"}
    BY <2>1 DEF Wanting, In
  <2>3. si[w][u] = st[w][u]
    BY <1>2, <2>1, <2>2
  <2>4. st[w][u] # "OLDINTERESTED"
    BY <2>1, <2>2 DEF Holders, In
  <2>5. w \in In(st, u, {"INTERESTED"})
    BY <2>2, <2>3, <2>4 DEF In
  <2> QED BY <1>1, <2>1, <2>5 DEF Sourced
<1>4. SetClash(si, u)
  BY <1>3 DEF Failing
<1> QED BY <1>1, <1>4 DEF SetClash, CanClash

ConflictValue == [holds |-> "conflict", value |-> 0]

\* synchVariableValues takes the value where updates clash, and no other.
LEMMA ValueStays ==
  ASSUME SumsLast, NEW st, NEW rm \in [Worlds -> [Vars -> Typed]], Shape(st, rm),
         NEW v \in Shared, VarInv(st, rm, v), v \in declared => AllWant(st, v), FailsOnlyAt(st),
         NEW s2, NEW r2,
         \A w \in Worlds : /\ s2[w][v] = SynchedState(st, w, v)
                           /\ r2[w][v] = SynchedReducer(st, rm, w, v)
  PROVE  IF Loses(st, v)
         THEN ValueOf(st, rm, v) = ConflictValue /\ ValueOf(s2, r2, v) = NoValue
         ELSE ValueOf(s2, r2, v) = ValueOf(st, rm, v)
<1>v. v \in Vars
  BY DEF Shared
<1>s. \A w \in Worlds : IsReducer(rm[w][v])
  BY <1>v DEF Shape
<1>1. CASE Loses(st, v)
  <2>1. CanClash(Op[v]) /\ Several(New(st, v))
    BY <1>1 DEF Loses, SetClash
  <2>2. New(st, v) # {}
    BY <2>1 DEF Several
  <2>3. ValueOf(st, rm, v) = ConflictValue
    BY <2>1, <2>2 DEF ValueOf, ConflictValue
  <2>4. \A w \in Worlds : s2[w][v] = "NONE" /\ r2[w][v] = Reset(rm[w][v])
    BY <1>1 DEF SynchedState, SynchedReducer
  <2>5. \A w \in Worlds : ~ r2[w][v].valueadded
    BY <1>s, <2>4, ResetOps
  <2>6. New(s2, v) = {} /\ Having(r2, v) = {}
    BY <2>4, <2>5 DEF New, In, Having
  <2>7. ValueOf(s2, r2, v) = NoValue
    BY <2>6 DEF ValueOf
  <2> QED BY <1>1, <2>3, <2>7
<1>2. CASE ~ Loses(st, v) /\ v \notin Passed(st)
  <2>1. \A w \in Worlds : s2[w][v] = st[w][v] /\ r2[w][v] = rm[w][v]
    BY <1>2 DEF SynchedState, SynchedReducer
  <2>2. ValueOf(s2, r2, v) = ValueOf(st, rm, v)
    BY <2>1, SameValue
  <2> QED BY <1>2, <2>2
<1>3. CASE v \in Passed(st) /\ New(st, v) = {}
  <2>1. ~ Ships(st, v) /\ ~ Ages(st, v) /\ ~ Several(New(st, v)) /\ ~ Loses(st, v)
    BY <1>3 DEF Ships, Several, Ages, Loses, SetClash
  <2>2. ~ ShipsOld(st, v)
    BY DEF VarInv, ShipsOld, In
  <2>3. \A w \in Worlds : s2[w][v] = st[w][v] /\ r2[w][v] = rm[w][v]
    BY <1>3, <2>1, <2>2 DEF SynchedState, SynchedReducer, SharedState, SharedReducer
  <2>4. ValueOf(s2, r2, v) = ValueOf(st, rm, v)
    BY <2>3, SameValue
  <2> QED BY <2>1, <2>4
<1>4. CASE v \in Passed(st) /\ New(st, v) # {}
  <2>1. v \in declared /\ v \notin Failing(st)
    BY <1>v, <1>4, VarsAssumption DEF Passed
  <2>2. ~ Loses(st, v)
    BY <2>1 DEF Loses, StopsAt
  <2>3. PICK x \in New(st, v) : TRUE
    BY <1>4
  <2>4. /\ Merged(st, rm, v) \in Int
        /\ \A w \in Worlds : r2[w][v].valueadded /\ r2[w][v].value = Merged(st, rm, v)
        /\ Several(New(s2, v)) => Op[v] \in {"MAX", "MIN"}
    BY <1>4, <2>1, <2>3, PassedEnds
  <2> DEFINE M == Merged(st, rm, v)
  <2>5. ValueOf(s2, r2, v) = Value(M)
    <3> HIDE DEF M
    <3> QED BY <1>v, <2>4, EverywhereSame DEF M
  <2>6. New(st, v) \subseteq Having(rm, v)
    BY DEF VarInv, New, In, Having
  <2>7. ~ (Several(New(st, v)) /\ CanClash(Op[v]))
    BY <1>v, <1>4, PassedMerges
  <2>8. ValueOf(st, rm, v) = Value(M)
    BY <1>4, <2>6, <2>7 DEF ValueOf
  <2> QED BY <2>2, <2>5, <2>8
<1> QED BY <1>1, <1>2, <1>3, <1>4

\* Nor does it change whether a reducer had an export this round.
LEMMA ExportedStays ==
  ASSUME NEW st, NEW rm \in [Worlds -> [Vars -> Typed]], NEW w \in Worlds, NEW v \in Vars
  PROVE  SynchedReducer(st, rm, w, v).exported = rm[w][v].exported
<1> DEFINE r == rm[w][v]
<1>1. r \in Typed
  OBVIOUS
<1> HIDE DEF r
<1>2. Reset(r).exported = r.exported
  BY <1>1 DEF Reset, Typed
<1>3. \A x : /\ Receive(Op[v], r, x).exported = r.exported
             /\ ReduceRemoteValues(Op[v], r, x).exported = r.exported
  BY <1>1 DEF Receive, ReduceRemoteValues, Typed
<1>4. SharedReducer(st, rm, w, v).exported = r.exported
  BY <1>3 DEF SharedReducer, r
<1>5. Clear(SharedReducer(st, rm, w, v)).exported = r.exported
  <2>1. \A q \in {r} \cup {Receive(Op[v], r, x) : x \in {Merged(st, rm, v), rm[FirstHolder(st, v)][v].value}}
              \cup {ReduceRemoteValues(Op[v], r, Merged(st, rm, v))} : Clear(q).exported = q.exported
    BY <1>1 DEF Clear, Receive, ReduceRemoteValues, Typed
  <2> QED BY <1>4, <2>1 DEF SharedReducer, r
<1> QED BY <1>2, <1>4, <1>5 DEF SynchedReducer, r

\* After a synchronisation that didn't fail nobody has an update, and what was there
\* to be had stays to be had.
LEMMA StatesAfter ==
  ASSUME NEW st \in [Worlds -> [Vars -> States]], NEW v \in Vars, Sourced(st, v),
         v \in declared => AllWant(st, v),
         NEW s2, \A w \in Worlds : s2[w][v] = SynchedState(st, w, v)
  PROVE  /\ Sourced(s2, v)
         /\ v \in declared /\ Failing(st) = {} => New(s2, v) = {}
<1>s. \A w \in Worlds : st[w][v] \in States
  OBVIOUS
<1>1. CASE Loses(st, v)
  <2>1. \A w \in Worlds : s2[w][v] = "NONE"
    BY <1>1 DEF SynchedState
  <2>2. Failing(st) # {}
    BY <1>1 DEF Loses, StopsAt
  <2> QED BY <2>1, <2>2 DEF Sourced, In
<1>2. CASE ~ Loses(st, v) /\ v \notin Passed(st)
  <2>1. \A w \in Worlds : s2[w][v] = st[w][v]
    BY <1>2 DEF SynchedState
  <2>2. v \notin declared \/ Failing(st) # {}
    BY <1>2 DEF Passed
  <2> QED BY <2>1, <2>2 DEF Sourced, In, Holders, New
<1>3. CASE v \in Passed(st) /\ ~ Loses(st, v)
  <2>1. v \in declared /\ AllWant(st, v)
    BY <1>3 DEF Passed
  <2>2. CASE Holders(st, v) \cup New(st, v) = {}
    <3>1. \A w \in Worlds : st[w][v] \in {"NONE", "INTERESTED"}
      BY <1>s, <2>2 DEF Holders, New, In, States
    <3>2. New(st, v) = {} /\ ~ Several(New(st, v)) /\ ~ Ships(st, v) /\ ~ Ages(st, v)
      BY <2>2 DEF Several, Ships, Ages
    <3>3. \A w \in Worlds : s2[w][v] = st[w][v]
      BY <1>3, <3>2 DEF SynchedState, SharedState
    <3> QED BY <3>1, <3>3 DEF Sourced, In, Holders, New
  <2>3. CASE Holders(st, v) \cup New(st, v) # {}
    <3>1. \A w \in Worlds : st[w][v] \in {"INTERESTED", "OLDINTERESTED", "NEW"}
      BY <2>1, <2>3 DEF AllWant
    <3>2. PICK a \in Worlds : st[a][v] \in {"OLDINTERESTED", "NEW"}
      BY <2>3, <3>1 DEF Holders, New, In
    <3>3. SharedState(st, a, v) \in {"OLDINTERESTED", "NEW"}
      BY <3>2 DEF SharedState
    <3>4. s2[a][v] \in {"OLD", "OLDINTERESTED", "NEW"}
      BY <1>3, <3>3 DEF SynchedState
    <3>5. a \in Holders(s2, v) \cup New(s2, v)
      BY <3>4 DEF Holders, New, In
    <3>6. ASSUME Failing(st) = {} PROVE New(s2, v) = {}
      <4> SUFFICES ASSUME NEW w \in Worlds, s2[w][v] = "NEW" PROVE FALSE
        BY DEF New, In
      <4>1. ~ Ages(st, v) /\ SharedState(st, w, v) = "NEW"
        BY <1>3 DEF SynchedState
      <4>2. st[w][v] = "NEW"
        BY <3>1, <4>1 DEF SharedState
      <4>3. w \in New(st, v)
        BY <4>2 DEF New, In
      <4> QED BY <3>6, <4>1, <4>3 DEF Ages
    <3> QED BY <3>5, <3>6 DEF Sourced
  <2> QED BY <2>2, <2>3
<1> QED BY <1>1, <1>2, <1>3

\* Synchronising takes the values of clashing variables, changes no other one, and
\* leaves the tables in the order the next synchronisation expects.
LEMMA SynchValues ==
  ASSUME SumsLast, NEW st \in [Worlds -> [Vars -> States]], NEW rm \in [Worlds -> [Vars -> Typed]],
         Shape(st, rm), \A v \in Vars : VarInv(st, rm, v) /\ Sourced(st, v),
         declared \subseteq Vars, Synch(st, rm)
  PROVE  /\ \A v \in Shared :
              IF Loses(SynchVariableInfo(st), v)
              THEN ValueOf(st, rm, v) = ConflictValue /\ ValueOf(varstate', reducemap', v) = NoValue
              ELSE ValueOf(varstate', reducemap', v) = ValueOf(st, rm, v)
         /\ \A v \in Vars, w \in Worlds : reducemap'[w][v].exported = rm[w][v].exported
         /\ \A v \in Vars : Sourced(varstate', v)
         /\ SynchSucceeds(st) => \A v \in declared : New(varstate', v) = {}
         /\ \A v \in Vars \ declared, w \in Worlds : varstate'[w][v] = st[w][v]
<1> DEFINE si == SynchVariableInfo(st)
<1>1. si \in [Worlds -> [Vars -> States]]
  BY DEF SynchVariableInfo, Interested, States
<1>2. Shape(si, rm)
  BY <1>1 DEF Shape
<1>3. \A v \in Vars : VarInv(si, rm, v) /\ (v \in declared => AllWant(si, v))
  BY InfoKeeps
<1>4. FailsOnlyAt(si)
  BY InfoFails
<1>5. /\ varstate' = [w \in Worlds |-> [v \in Vars |-> SynchedState(si, w, v)]]
      /\ reducemap' = [w \in Worlds |-> [v \in Vars |-> SynchedReducer(si, rm, w, v)]]
  BY DEF Synch
<1>6. SynchSucceeds(st) <=> Failing(si) = {}
  BY DEF SynchSucceeds
<1>7. \A v \in Vars :
        /\ New(si, v) = New(st, v)
        /\ Holders(si, v) = Holders(st, v)
        /\ \A w \in Worlds : si[w][v] = "NEW" <=> st[w][v] = "NEW"
        /\ \A w \in Worlds : v \notin declared => si[w][v] = st[w][v]
        /\ Holders(st, v) \cup New(st, v) = {} => \A w \in Worlds : si[w][v] = st[w][v]
  BY InfoStates
<1> HIDE DEF si
<1>8. \A v \in Vars, w \in Worlds : /\ varstate'[w][v] = SynchedState(si, w, v)
                                   /\ reducemap'[w][v] = SynchedReducer(si, rm, w, v)
  BY <1>5
<1>9. ASSUME NEW v \in Shared
      PROVE  IF Loses(si, v)
             THEN ValueOf(st, rm, v) = ConflictValue /\ ValueOf(varstate', reducemap', v) = NoValue
             ELSE ValueOf(varstate', reducemap', v) = ValueOf(st, rm, v)
  <2>1. v \in Vars
    BY DEF Shared
  <2>2. ValueOf(si, rm, v) = ValueOf(st, rm, v)
    BY <1>7, <2>1, SameValue
  <2>3. IF Loses(si, v)
        THEN ValueOf(si, rm, v) = ConflictValue /\ ValueOf(varstate', reducemap', v) = NoValue
        ELSE ValueOf(varstate', reducemap', v) = ValueOf(si, rm, v)
    BY <1>2, <1>3, <1>4, <1>8, <2>1, ValueStays
  <2> QED BY <2>2, <2>3
<1>10. \A v \in Vars, w \in Worlds : reducemap'[w][v].exported = rm[w][v].exported
  BY <1>8, ExportedStays
<1>11. ASSUME NEW v \in Vars
       PROVE  Sourced(varstate', v) /\ (v \in declared /\ Failing(si) = {} => New(varstate', v) = {})
  <2>1. Sourced(si, v)
    <3>1. Holders(st, v) \cup New(st, v) = {} => In(si, v, {"INTERESTED"}) = In(st, v, {"INTERESTED"})
      BY <1>7 DEF In
    <3> QED BY <1>7, <3>1 DEF Sourced
  <2> QED BY <1>1, <1>3, <1>8, <2>1, StatesAfter
<1>12. ASSUME NEW v \in Vars \ declared, NEW w \in Worlds PROVE varstate'[w][v] = st[w][v]
  <2>1. v \notin Passed(si) /\ ~ Loses(si, v)
    BY DEF Passed, Loses, StopsAt, Failing
  <2> QED BY <1>7, <1>8, <2>1 DEF SynchedState
<1> QED BY <1>6, <1>9, <1>10, <1>11, <1>12 DEF si

-----------------------------------------------------------------------------
(* The invariant                                                           *)

\* The invariant of the refinement holds in a new SplitWorld.
LEMMA RInit == Init => RInv
<1> SUFFICES ASSUME Init PROVE RInv
  OBVIOUS
<1>1. \A w \in Worlds, v \in Vars : varstate[w][v] = "NONE" /\ ~ reducemap[w][v].exported
  BY DEF Init, NewReducer
<1>2. \A v \in Vars : Sourced(varstate, v)
  BY <1>1 DEF Sourced, In
<1>3. RoundInv
  BY DEF Init, RoundInv
<1> QED BY <1>1, <1>2, <1>3, InitInv DEF RInv, BlankInv

\* What an operation of the script has to leave, with no world in a job
LEMMA ScriptLeaves ==
  ASSUME IInv', \A w \in Worlds : pc'[w] \notin {"jobs", "transport"},
         \A v \in Vars \ declared', w \in Worlds :
           varstate'[w][v] = "NONE" /\ ~ reducemap'[w][v].exported,
         \A v \in Vars : Sourced(varstate', v)
  PROVE  RInv'
  BY DEF RInv, BlankInv, RoundInv, Sourced, In, Holders, New

\* The tables of the other variables are those from before.
LEMMA SourcedStays ==
  ASSUME NEW st, NEW s2, NEW v, Sourced(st, v), \A w \in Worlds : s2[w][v] = st[w][v]
  PROVE  Sourced(s2, v)
<1>1. \A S : In(s2, v, S) = In(st, v, S)
  BY DEF In
<1> QED BY <1>1 DEF Sourced, Holders, New

\* A variable no world is interested in has no source to miss.
LEMMA SourcedNone ==
  ASSUME NEW st, NEW v, \A w \in Worlds : st[w][v] # "INTERESTED"
  PROVE  Sourced(st, v)
  BY DEF Sourced, In

\* The tables of a typed state.
LEMMA Tables ==
  ASSUME TypeOK
  PROVE  /\ varstate \in [Worlds -> [Vars -> States]]
         /\ reducemap \in [Worlds -> [Vars -> Typed]]
         /\ declared \subseteq Vars
  BY DEF TypeOK, Typed

\* The tables a batch of jobs begins with: nobody is interested, no reducer has
\* been exported to, values stay.
LEMMA BatchTables ==
  ASSUME TypeOK, IInv
  PROVE  /\ ResetInterest(varstate) \in [Worlds -> [Vars -> States]]
         /\ NewRounds \in [Worlds -> [Vars -> Typed]]
         /\ Shape(ResetInterest(varstate), NewRounds)
         /\ \A v \in Vars : VarInv(ResetInterest(varstate), NewRounds, v)
         /\ \A v \in Vars : Sourced(ResetInterest(varstate), v)
         /\ \A v \in Vars, w \in Worlds :
              /\ ~ NewRounds[w][v].exported
              /\ NewRounds[w][v].valueadded = reducemap[w][v].valueadded
              /\ NewRounds[w][v].value = reducemap[w][v].value
              /\ ResetInterest(varstate)[w][v] = "NEW" <=> varstate[w][v] = "NEW"
              /\ varstate[w][v] = "NONE" => ResetInterest(varstate)[w][v] = "NONE"
<1> DEFINE st == ResetInterest(varstate)
           rm == NewRounds
<1>1. \A v \in Vars, w \in Worlds : /\ st[w][v] = NotInterested(varstate[w][v])
                                    /\ rm[w][v] = NewRound(reducemap[w][v])
  BY DEF ResetInterest, NewRounds
<1>2. \A v \in Vars, w \in Worlds : varstate[w][v] \in States /\ reducemap[w][v] \in Typed
  BY Tables
<1>3. \A v \in Vars, w \in Worlds : NotInterested(varstate[w][v]) \in States
  BY <1>2 DEF NotInterested, States
<1>4. st \in [Worlds -> [Vars -> States]]
  BY <1>3 DEF ResetInterest
<1>5. \A v \in Vars, w \in Worlds : NewRound(reducemap[w][v]) \in Typed
  BY <1>2, BlankTypes
<1>6. rm \in [Worlds -> [Vars -> Typed]]
  BY <1>5 DEF NewRounds
<1>7. Shape(st, rm) /\ \A v \in Vars : VarInv(st, rm, v)
  BY ResetKeeps DEF IInv
<1> HIDE DEF st, rm
<1>8. ASSUME NEW v \in Vars, NEW w \in Worlds
      PROVE  /\ st[w][v] # "INTERESTED"
             /\ st[w][v] = "NEW" <=> varstate[w][v] = "NEW"
             /\ varstate[w][v] = "NONE" => st[w][v] = "NONE"
  BY <1>1, <1>2 DEF NotInterested, States
<1>9. ASSUME NEW v \in Vars, NEW w \in Worlds
      PROVE  /\ ~ rm[w][v].exported
             /\ rm[w][v].valueadded = reducemap[w][v].valueadded
             /\ rm[w][v].value = reducemap[w][v].value
  <2>1. reducemap[w][v] \in Typed
    BY <1>2
  <2>2. rm[w][v] = [reducemap[w][v] EXCEPT !.exported = FALSE]
    BY <1>1 DEF NewRound
  <2> QED BY <2>1, <2>2 DEF Typed
<1>10. \A v \in Vars : Sourced(st, v)
  BY <1>8, SourcedNone
<1> QED BY <1>4, <1>6, <1>7, <1>8, <1>9, <1>10 DEF st, rm

\* The tables a query begins with: only the interest in the variable asked for
\* may differ.
LEMMA QueryTables ==
  ASSUME TypeOK, RInv, NEW u \in Queried, u \in declared
  PROVE  LET st == [w \in Worlds |-> [varstate[w] EXCEPT ![u] = Interested(@)]]
         IN  /\ st \in [Worlds -> [Vars -> States]]
             /\ Shape(st, reducemap)
             /\ \A v \in Vars : VarInv(st, reducemap, v) /\ Sourced(st, v)
             /\ \A v \in Vars, w \in Worlds :
                  /\ st[w][v] = "NEW" <=> varstate[w][v] = "NEW"
                  /\ v \notin declared => st[w][v] = varstate[w][v]
<1> DEFINE st == [w \in Worlds |-> [varstate[w] EXCEPT ![u] = Interested(varstate[w][u])]]
<1>1. u \in Vars
  BY ScriptAssumption
<1>2. varstate \in [Worlds -> [Vars -> States]]
  BY Tables
<1>3. \A w \in Worlds : Interested(varstate[w][u]) \in States
  BY <1>1, <1>2 DEF Interested, States
<1>4. st \in [Worlds -> [Vars -> States]]
  BY <1>2, <1>3
<1>5. \A v \in Vars, w \in Worlds :
        st[w][v] = IF v = u THEN Interested(varstate[w][u]) ELSE varstate[w][v]
  BY <1>2
<1>6. Shape(st, reducemap) /\ \A v \in Vars : VarInv(st, reducemap, v)
  BY <1>1, InterestKeeps DEF RInv, IInv
<1> HIDE DEF st
<1>7. \A v \in Vars, w \in Worlds : st[w][v] = "NEW" <=> varstate[w][v] = "NEW"
  BY <1>2, <1>5 DEF Interested, States
<1>8. ASSUME NEW v \in Vars PROVE Sourced(st, v)
  <2>1. CASE v = u
    BY <2>1 DEF Sourced
  <2>2. CASE v # u
    <3>1. \A w \in Worlds : st[w][v] = varstate[w][v]
      BY <1>5, <2>2
    <3>2. Sourced(varstate, v)
      BY DEF RInv
    <3> QED BY <3>1, <3>2, SourcedStays
  <2> QED BY <2>1, <2>2
<1> QED BY <1>4, <1>5, <1>6, <1>7, <1>8 DEF st

\* Every step keeps the invariant of the refinement.
LEMMA RStep ==
  ASSUME PlainScript, SumsLast, TypeOK, RInv, [Next]_vars
  PROVE  RInv'
<1>i. IInv /\ BlankInv /\ (\A v \in Vars : Sourced(varstate, v)) /\ RoundInv
  BY DEF RInv
<1>t. /\ varstate \in [Worlds -> [Vars -> States]]
      /\ reducemap \in [Worlds -> [Vars -> Typed]]
      /\ declared \subseteq Vars
  BY Tables
<1>p. pc \in [Worlds -> {"script", "jobs", "transport", "joining"}]
  BY DEF TypeOK
<1>j. IInv'
  <2>1. ASSUME UNCHANGED vars PROVE IInv'
    BY <1>i, <2>1 DEF vars, IInv, BatchInv, InScript, Delivered, Import
  <2>2. ASSUME Next PROVE IInv'
    BY <1>i, <2>2, StepInv
  <2> QED BY <2>1, <2>2
<1>n. ASSUME NEW u \in Vars, InScript, UNCHANGED pc, declared \ {u} \subseteq declared',
             varstate' = [w \in Worlds |-> [varstate[w] EXCEPT ![u] = "NONE"]],
             \A v \in Vars, w \in Worlds : v # u => reducemap'[w][v] = reducemap[w][v],
             u \notin declared' => \A w \in Worlds : ~ reducemap'[w][u].exported
      PROVE  RInv'
  <2>1. \A v \in Vars, w \in Worlds : varstate'[w][v] = IF v = u THEN "NONE" ELSE varstate[w][v]
    BY <1>n, <1>t
  <2>2. ASSUME NEW v \in Vars PROVE Sourced(varstate', v)
    <3>1. CASE v = u
      BY <2>1, <3>1, SourcedNone
    <3>2. CASE v # u
      BY <1>i, <2>1, <3>2, SourcedStays
    <3> QED BY <3>1, <3>2
  <2>3. ASSUME NEW v \in Vars \ declared', NEW w \in Worlds
        PROVE  varstate'[w][v] = "NONE" /\ ~ reducemap'[w][v].exported
    <3>1. CASE v = u
      BY <1>n, <2>1, <3>1
    <3>2. CASE v # u
      <4>1. v \in Vars \ declared
        BY <1>n, <3>2
      <4> QED BY <1>i, <1>n, <2>1, <3>2, <4>1 DEF BlankInv
    <3> QED BY <3>1, <3>2
  <2>4. \A w \in Worlds : pc'[w] = "script"
    BY <1>n DEF InScript
  <2> QED BY <1>j, <2>2, <2>3, <2>4, ScriptLeaves
<1>1. ASSUME NEW u \in Vars, AddVariable(u) \/ RemoveVariable(u) PROVE RInv'
  <2>1. /\ InScript /\ UNCHANGED pc /\ declared \ {u} \subseteq declared'
        /\ varstate' = [w \in Worlds |-> [varstate[w] EXCEPT ![u] = "NONE"]]
        /\ reducemap' = [w \in Worlds |-> [reducemap[w] EXCEPT ![u] = NewReducer]]
    BY <1>1 DEF AddVariable, RemoveVariable, ScriptOp
  <2>2. \A v \in Vars, w \in Worlds : reducemap'[w][v] = IF v = u THEN NewReducer ELSE reducemap[w][v]
    BY <1>t, <2>1
  <2>3. \A v \in Vars, w \in Worlds : v # u => reducemap'[w][v] = reducemap[w][v]
    BY <2>2
  <2>4. \A w \in Worlds : ~ reducemap'[w][u].exported
    BY <2>2 DEF NewReducer
  <2> QED BY <1>n, <2>1, <2>3, <2>4
<1>2. ASSUME NEW u \in Vars, ClearVariable(u) PROVE RInv'
  <2>1. /\ InScript /\ UNCHANGED pc /\ declared' = declared /\ u \in declared
        /\ varstate' = [w \in Worlds |-> [varstate[w] EXCEPT ![u] = "NONE"]]
        /\ reducemap' = [w \in Worlds |-> [reducemap[w] EXCEPT ![u] = Reset(@)]]
    BY <1>2 DEF ClearVariable, ScriptOp
  <2>2. \A v \in Vars, w \in Worlds : v # u => reducemap'[w][v] = reducemap[w][v]
    BY <1>t, <2>1
  <2> QED BY <1>n, <2>1, <2>2
<1>3. ASSUME NEW u \in Queried, GetVariable(u) PROVE RInv'
  <2> DEFINE st == [w \in Worlds |-> [varstate[w] EXCEPT ![u] = Interested(@)]]
  <2>1. InScript /\ u \in declared /\ UNCHANGED <<declared, pc>> /\ Synch(st, reducemap)
    BY <1>3 DEF GetVariable, ScriptOp
  <2>2. /\ st \in [Worlds -> [Vars -> States]]
        /\ Shape(st, reducemap)
        /\ \A v \in Vars : VarInv(st, reducemap, v) /\ Sourced(st, v)
        /\ \A v \in Vars, w \in Worlds : v \notin declared => st[w][v] = varstate[w][v]
    BY <2>1, QueryTables
  <2> HIDE DEF st
  <2>3. /\ \A v \in Vars, w \in Worlds : reducemap'[w][v].exported = reducemap[w][v].exported
        /\ \A v \in Vars : Sourced(varstate', v)
        /\ \A v \in Vars \ declared, w \in Worlds : varstate'[w][v] = st[w][v]
    BY <1>t, <2>1, <2>2, SynchValues
  <2>4. \A v \in Vars \ declared', w \in Worlds :
          varstate'[w][v] = "NONE" /\ ~ reducemap'[w][v].exported
    BY <1>i, <2>1, <2>2, <2>3 DEF BlankInv
  <2>5. \A w \in Worlds : pc'[w] = "script"
    BY <2>1 DEF InScript
  <2> QED BY <1>j, <2>3, <2>4, <2>5, ScriptLeaves
<1>4. ASSUME StartBatch PROVE RInv'
  <2> DEFINE st == ResetInterest(varstate)
             rm == NewRounds
  <2>1. /\ Synch(st, rm) /\ declared' = declared
        /\ SynchSucceeds(st) \/ pc' = [w \in Worlds |-> "joining"]
    BY <1>4 DEF StartBatch
  <2>2. /\ st \in [Worlds -> [Vars -> States]]
        /\ rm \in [Worlds -> [Vars -> Typed]]
        /\ Shape(st, rm)
        /\ \A v \in Vars : VarInv(st, rm, v)
        /\ \A v \in Vars : Sourced(st, v)
        /\ \A v \in Vars, w \in Worlds : ~ rm[w][v].exported
        /\ \A v \in Vars, w \in Worlds : varstate[w][v] = "NONE" => st[w][v] = "NONE"
    BY <1>i, BatchTables
  <2> HIDE DEF st, rm
  <2>3. /\ \A v \in Vars, w \in Worlds : reducemap'[w][v].exported = rm[w][v].exported
        /\ \A v \in Vars : Sourced(varstate', v)
        /\ SynchSucceeds(st) => \A v \in declared : New(varstate', v) = {}
        /\ \A v \in Vars \ declared, w \in Worlds : varstate'[w][v] = st[w][v]
    BY <1>t, <2>1, <2>2, SynchValues
  <2>4. \A v \in Vars \ declared, w \in Worlds : varstate'[w][v] = "NONE"
    BY <1>i, <2>2, <2>3 DEF BlankInv
  <2>5. \A v \in Vars, w \in Worlds : ~ reducemap'[w][v].exported
    BY <2>2, <2>3
  <2>6. BlankInv'
    BY <2>1, <2>4, <2>5 DEF BlankInv
  <2>7. RoundInv'
    <3>1. CASE SynchSucceeds(st)
      <4>1. \A v \in Shared, w \in Worlds : varstate'[w][v] # "NEW"
        BY <2>3, <2>4, <3>1 DEF New, In, Shared
      <4>2. \A v \in Shared, w \in Worlds : ~ reducemap'[w][v].exported
        BY <2>5 DEF Shared
      <4> QED BY <4>1, <4>2 DEF RoundInv
    <3>2. CASE pc' = [w \in Worlds |-> "joining"]
      BY <3>2 DEF RoundInv
    <3> QED BY <2>1, <3>1, <3>2
  <2>8. (\A v \in Vars : Sourced(varstate, v))'
    BY <2>3 DEF Sourced, In, Holders, New
  <2> QED BY <1>j, <2>6, <2>7, <2>8 DEF RInv
<1>5. ASSUME StartBatchFails PROVE RInv'
  <2>1. /\ InScript /\ UNCHANGED <<declared, pc>>
        /\ varstate' = ResetInterest(varstate) /\ reducemap' = NewRounds
    BY <1>5 DEF StartBatchFails
  <2>2. /\ \A v \in Vars : Sourced(ResetInterest(varstate), v)
        /\ \A v \in Vars, w \in Worlds :
             /\ ~ NewRounds[w][v].exported
             /\ varstate[w][v] = "NONE" => ResetInterest(varstate)[w][v] = "NONE"
    BY <1>i, BatchTables
  <2>3. \A v \in Vars \ declared', w \in Worlds :
          varstate'[w][v] = "NONE" /\ ~ reducemap'[w][v].exported
    BY <1>i, <2>1, <2>2 DEF BlankInv
  <2>4. \A w \in Worlds : pc'[w] = "script"
    BY <2>1 DEF InScript
  <2>5. \A v \in Vars : Sourced(varstate', v)
    BY <2>1, <2>2
  <2> QED BY <1>j, <2>3, <2>4, <2>5, ScriptLeaves
<1>6. ASSUME NEW w \in Worlds, NEW v \in Vars, NEW x \in ExportValues, Transport(w, v, x)
      PROVE  RInv'
  <2>1. /\ pc[w] = "transport" /\ v \in declared /\ declared' = declared
        /\ ~ LocalClash(Op[v], reducemap[w][v])
    BY <1>6 DEF Transport, PlainScript
  <2>2. /\ reducemap' = [reducemap EXCEPT ![w][v] = ReduceLocalValue(Op[v], reducemap[w][v], x)]
        /\ varstate' = [varstate EXCEPT ![w][v] = "NEW"]
        /\ pc' = pc
    BY <1>6, <2>1 DEF Transport
  <2>3. \A a \in Worlds, u \in Vars :
          /\ varstate'[a][u] = IF a = w /\ u = v THEN "NEW" ELSE varstate[a][u]
          /\ reducemap'[a][u] = IF a = w /\ u = v THEN ReduceLocalValue(Op[v], reducemap[w][v], x)
                                ELSE reducemap[a][u]
    BY <1>t, <2>2
  <2>4. BlankInv'
    BY <1>i, <2>1, <2>3 DEF BlankInv
  <2>5. ASSUME NEW u \in Vars PROVE Sourced(varstate', u)
    <3>1. CASE u = v
      <4>1. w \in New(varstate', u)
        BY <2>3, <3>1 DEF New, In
      <4> QED BY <4>1 DEF Sourced
    <3>2. CASE u # v
      BY <1>i, <2>3, <3>2, SourcedStays
    <3> QED BY <3>1, <3>2
  <2>6. v \in Shared => ReduceLocalValue(Op[v], reducemap[w][v], x).exported
    <3> SUFFICES ASSUME v \in Shared PROVE ReduceLocalValue(Op[v], reducemap[w][v], x).exported
      OBVIOUS
    <3>1. reducemap[w][v] \in Typed /\ Op[v] # "LOCAL"
      BY <1>t DEF Shared
    <3> QED BY <2>1, <3>1 DEF ReduceLocalValue, LocalClash, Typed
  <2>7. RoundInv'
    <3>1. \A u \in Shared, a \in Worlds : varstate[a][u] = "NEW" <=> reducemap[a][u].exported
      BY <1>i, <2>1 DEF RoundInv
    <3>2. \A u \in Shared, a \in Worlds : varstate'[a][u] = "NEW" <=> reducemap'[a][u].exported
      BY <2>3, <2>6, <3>1 DEF Shared
    <3> QED BY <3>2 DEF RoundInv
  <2>8. (\A u \in Vars : Sourced(varstate, u))'
    BY <2>5 DEF Sourced, In, Holders, New
  <2> QED BY <1>j, <2>4, <2>7, <2>8 DEF RInv
<1>7. ASSUME UNCHANGED <<declared, varstate, reducemap>>,
             \A a \in Worlds : pc'[a] \in {"jobs", "transport"} => pc[a] \in {"jobs", "transport"}
      PROVE  RInv'
  BY <1>i, <1>j, <1>7 DEF RInv, BlankInv, RoundInv, Sourced, In, Holders, New
<1>8. ASSUME NEW w \in Worlds, NEW r \in 0 .. 3, RunJobs(w, r) PROVE RInv'
  <2>1. UNCHANGED <<declared, varstate, reducemap>> /\ pc[w] = "jobs"
        /\ \A a \in Worlds \ {w} : pc'[a] = pc[a]
    BY <1>8, <1>p DEF RunJobs
  <2> QED BY <1>7, <2>1
<1>9. ASSUME NEW w \in Worlds, RefuseExport(w) \/ EndTransport(w) PROVE RInv'
  <2>1. UNCHANGED <<declared, varstate, reducemap>> /\ pc[w] = "transport"
        /\ \A a \in Worlds \ {w} : pc'[a] = pc[a]
    BY <1>9, <1>p DEF RefuseExport, EndTransport
  <2> QED BY <1>7, <2>1
<1>10. ASSUME Join PROVE RInv'
  <2>1. UNCHANGED <<declared, varstate, reducemap>> /\ \A a \in Worlds : pc'[a] = "script"
    BY <1>10 DEF Join
  <2> QED BY <1>7, <2>1
<1>11. ASSUME UNCHANGED vars PROVE RInv'
  BY <1>7, <1>11 DEF vars
<1>12. ASSUME Script PROVE RInv'
  BY <1>1, <1>2, <1>3, <1>4, <1>5, <1>12 DEF Script, PlainScript
<1>13. ASSUME NEW w \in Worlds, Local(w) PROVE RInv'
  BY <1>6, <1>8, <1>9, <1>13 DEF Local
<1> QED BY <1>10, <1>11, <1>12, <1>13 DEF Next, Finished

-----------------------------------------------------------------------------
(* Every step of the worlds is a step of the one value, or none.           *)

AbsDeclared == declared \cap Shared
AbsValues == [v \in Shared |-> SharedValue(v)]
AbsFresh == {v \in Shared : \E w \in Worlds : reducemap[w][v].exported}

\* What the abstract specification sees of the values.
LEMMA AbsValuesAre ==
  /\ AbsValues = [v \in Shared |-> ValueOf(varstate, reducemap, v)]
  /\ AbsValues' = [v \in Shared |-> ValueOf(varstate', reducemap', v)]
<1>1. AbsValues = [v \in Shared |-> ValueOf(varstate, reducemap, v)]
  BY SharedValueIs DEF AbsValues
<1>2. AbsValues' = [v \in Shared |-> SharedValue(v)']
  BY DEF AbsValues, Shared
<1> QED BY <1>1, <1>2, SharedValueIs

\* The states of the abstract specification in these terms
LEMMA AbsStutters ==
  ASSUME AbsDeclared' = AbsDeclared, AbsValues' = AbsValues, AbsFresh' = AbsFresh
  PROVE  UNCHANGED Abstract!vars
  BY DEF Abstract!vars, AbsDeclared, AbsValues, AbsFresh

\* Declaring a shared variable is a step of the abstract specification,
LEMMA AbsDeclares ==
  ASSUME NEW u \in Shared, u \notin AbsDeclared, AbsDeclared' = AbsDeclared \cup {u},
         AbsValues' = AbsValues, AbsFresh' = AbsFresh
  PROVE  Abstract!Next
  BY DEF Abstract!Next, Abstract!DeclareVariable, AbsDeclared, AbsValues, AbsFresh

\* removing one is another,
LEMMA AbsRemoves ==
  ASSUME NEW u \in Shared, u \in AbsDeclared, AbsDeclared' = AbsDeclared \ {u},
         AbsValues' = [AbsValues EXCEPT ![u] = NoValue], AbsFresh' = AbsFresh \ {u}
  PROVE  Abstract!Next
  BY DEF Abstract!Next, Abstract!RemoveVariable, Abstract!Nothing, NoValue,
         AbsDeclared, AbsValues, AbsFresh

\* clearing one is another,
LEMMA AbsClears ==
  ASSUME NEW u \in Shared, u \in AbsDeclared, AbsDeclared' = AbsDeclared,
         AbsValues' = [AbsValues EXCEPT ![u] = NoValue], AbsFresh' = AbsFresh
  PROVE  Abstract!Next
  BY DEF Abstract!Next, Abstract!ClearVariable, Abstract!Nothing, NoValue,
         AbsDeclared, AbsValues, AbsFresh

\* reporting conflicts, with or without the end of a round, is another,
LEMMA AbsReports ==
  ASSUME AbsDeclared' = AbsDeclared, NEW C \in SUBSET Shared,
         \A v \in C : AbsValues[v] = ConflictValue,
         AbsValues' = [v \in Shared |-> IF v \in C THEN NoValue ELSE AbsValues[v]],
         AbsFresh' = AbsFresh \/ AbsFresh' = {}
  PROVE  Abstract!Next
<1>1. C \in SUBSET Abstract!Conflicts
  BY DEF Abstract!Conflicts, Abstract!Conflict, ConflictValue, AbsValues
<1>2. Abstract!Report(C)
  BY DEF Abstract!Report, Abstract!Nothing, NoValue, AbsValues
<1>3. CASE AbsFresh' = AbsFresh
  <2>1. Abstract!Read
    BY <1>1, <1>2, <1>3 DEF Abstract!Read, AbsDeclared, AbsFresh
  <2> QED BY <2>1 DEF Abstract!Next
<1>4. CASE AbsFresh' = {}
  <2>1. Abstract!StartRound
    BY <1>1, <1>2, <1>4 DEF Abstract!StartRound, AbsDeclared, AbsFresh
  <2> QED BY <2>1 DEF Abstract!Next
<1> QED BY <1>3, <1>4

\* and so is an export: a value of its own in a new round, combined with what
\* the round has brought, or a conflict.
LEMMA AbsExports ==
  ASSUME NEW u \in Shared, NEW x \in ExportValues, u \in AbsDeclared, AbsDeclared' = AbsDeclared,
         AbsValues' = [AbsValues EXCEPT ![u] =
           IF u \notin AbsFresh THEN Value(x)
           ELSE IF CanClash(Op[u]) THEN ConflictValue
           ELSE Value(Combine(Op[u], AbsValues[u].value, x))],
         AbsFresh' = AbsFresh \cup {u}
  PROVE  Abstract!Next
<1>1. Abstract!Export(u, x)
  BY DEF Abstract!Export, Abstract!Holding, Abstract!Conflict, Value, ConflictValue,
         Abstract!CanClash, Abstract!Combine, CanClash, Combine,
         AbsDeclared, AbsValues, AbsFresh
<1> QED BY <1>1 DEF Abstract!Next

\* A new SplitWorld is an initial state of the abstract specification.
LEMMA AbsInit == Init => Abstract!Init
<1> SUFFICES ASSUME Init PROVE Abstract!Init
  OBVIOUS
<1>1. \A v \in Vars, w \in Worlds :
        varstate[w][v] = "NONE" /\ ~ reducemap[w][v].exported /\ ~ reducemap[w][v].valueadded
  BY DEF Init, NewReducer
<1>2. ASSUME NEW v \in Shared PROVE ValueOf(varstate, reducemap, v) = NoValue
  <2>1. New(varstate, v) = {} /\ Having(reducemap, v) = {}
    BY <1>1 DEF New, In, Having, Shared
  <2> QED BY <2>1 DEF ValueOf
<1>3. AbsValues = [v \in Shared |-> NoValue]
  BY <1>2, AbsValuesAre
<1>4. AbsDeclared = {}
  BY DEF Init, AbsDeclared
<1>5. AbsFresh = {}
  BY <1>1 DEF AbsFresh, Shared
<1> QED BY <1>3, <1>4, <1>5
       DEF Abstract!Init, Abstract!Nothing, NoValue, AbsDeclared, AbsValues, AbsFresh

\* Only one variable's tables change.
LEMMA OthersSame ==
  ASSUME NEW u,
         \A v \in Vars \ {u}, w \in Worlds :
           varstate'[w][v] = varstate[w][v] /\ reducemap'[w][v] = reducemap[w][v]
  PROVE  AbsValues' = [v \in Shared |-> IF v = u THEN ValueOf(varstate', reducemap', u)
                                        ELSE AbsValues[v]]
<1>1. ASSUME NEW v \in Shared, v # u
      PROVE  ValueOf(varstate', reducemap', v) = ValueOf(varstate, reducemap, v)
  <2>1. \A w \in Worlds : varstate'[w][v] = varstate[w][v] /\ reducemap'[w][v] = reducemap[w][v]
    BY <1>1 DEF Shared
  <2> QED BY <2>1, SameValue
<1>2. \A v \in Shared : ValueOf(varstate', reducemap', v) =
        IF v = u THEN ValueOf(varstate', reducemap', u) ELSE ValueOf(varstate, reducemap, v)
  BY <1>1
<1> QED BY <1>2, AbsValuesAre

\* A variable no world has a value of is seen without one.
LEMMA BlankValue ==
  ASSUME NEW st, NEW rm, NEW v, \A w \in Worlds : st[w][v] # "NEW" /\ ~ rm[w][v].valueadded
  PROVE  ValueOf(st, rm, v) = NoValue
<1>1. New(st, v) = {} /\ Having(rm, v) = {}
  BY DEF New, In, Having
<1> QED BY <1>1 DEF ValueOf

\* An export joins the updates of its round, or begins the round.
LEMMA ExportedValue ==
  ASSUME TypeOK, RInv, NEW w \in Worlds, NEW v \in Shared, NEW x \in Int,
         pc[w] = "transport", ~ LocalClash(Op[v], reducemap[w][v]),
         \A a \in Worlds :
           /\ varstate'[a][v] = IF a = w THEN "NEW" ELSE varstate[a][v]
           /\ reducemap'[a][v] = IF a = w THEN ReduceLocalValue(Op[v], reducemap[w][v], x)
                                 ELSE reducemap[a][v]
  PROVE  /\ ValueOf(varstate', reducemap', v) =
              IF v \notin AbsFresh THEN Value(x)
              ELSE IF CanClash(Op[v]) THEN ConflictValue
              ELSE Value(Combine(Op[v], ValueOf(varstate, reducemap, v).value, x))
         /\ reducemap'[w][v].exported
<1> DEFINE N == New(varstate, v)
           N2 == New(varstate', v)
           r == reducemap[w][v]
           r2 == reducemap'[w][v]
           f == [a \in Worlds |-> reducemap[a][v].value]
           g == [a \in Worlds |-> reducemap'[a][v].value]
<1>v. v \in Vars /\ Op[v] # "LOCAL" /\ Op[v] \in Ops
  BY VarsAssumption DEF Shared
<1>r. \A a \in Worlds : reducemap[a][v] \in Typed
  BY <1>v, Tables
<1>1. \A a \in Worlds : varstate[a][v] = "NEW" <=> reducemap[a][v].exported
  BY DEF RInv, RoundInv
<1>2. \A a \in Worlds : varstate[a][v] = "NEW" => reducemap[a][v].valueadded
  BY <1>v DEF RInv, IInv, VarInv
<1>3. N \subseteq Worlds /\ N2 = N \cup {w} /\ \A a \in Worlds : a \in N <=> reducemap[a][v].exported
  BY <1>1 DEF New, In
<1>4. v \notin AbsFresh <=> N = {}
  BY <1>3 DEF AbsFresh
<1>5. w \in N => ~ CanClash(Op[v])
  BY <1>2, <1>3 DEF LocalClash, New, In
<1>6. /\ r2.valueadded /\ r2.exported
      /\ w \notin N => r2.value = x
      /\ w \in N => r2.value = Combine(Op[v], r.value, x)
  <2>1. r2 = ReduceLocalValue(Op[v], r, x) /\ r \in Typed
    BY <1>r
  <2>2. CASE w \notin N
    <3>1. ~ r.exported
      BY <1>3, <2>2
    <3>2. r2 = [value |-> x, valueadded |-> TRUE, exported |-> TRUE]
      BY <1>v, <2>1, <3>1 DEF ReduceLocalValue
    <3> HIDE DEF r2, N
    <3> QED BY <2>2, <3>2
  <2>3. CASE w \in N
    <3>1. r.exported /\ r.valueadded /\ ~ CanClash(Op[v])
      BY <1>2, <1>3, <1>5, <2>3 DEF New, In
    <3>2. r2 = [r EXCEPT !.value = Combine(Op[v], r.value, x)]
      BY <1>v, <2>1, <3>1 DEF ReduceLocalValue
    <3> HIDE DEF r2, r, N
    <3> QED BY <2>1, <2>3, <3>1, <3>2 DEF Typed
  <2> QED BY <2>2, <2>3
<1>7. N \subseteq Having(reducemap, v) /\ N2 \subseteq Having(reducemap', v)
  BY <1>2, <1>3, <1>6 DEF New, In, Having
<1>8. N2 # {}
  BY <1>3
<1>9. ASSUME N = {} PROVE ValueOf(varstate', reducemap', v) = Value(x)
  <2>1. Only(N2, w)
    BY <1>3, <1>9 DEF Only
  <2>2. ~ Several(N2)
    BY <2>1 DEF Only, Several
  <2>3. Merged(varstate', reducemap', v) = x
    BY <1>6, <1>9, <2>1, MergedOnly
  <2> QED BY <1>7, <1>8, <2>2, <2>3 DEF ValueOf
<1>10. ASSUME N # {}, CanClash(Op[v]) PROVE ValueOf(varstate', reducemap', v) = ConflictValue
  <2>1. Several(N2)
    BY <1>3, <1>5, <1>10 DEF Several
  <2> QED BY <1>8, <1>10, <2>1 DEF ValueOf, ConflictValue
<1>11. ASSUME N # {}, ~ CanClash(Op[v])
       PROVE  ValueOf(varstate', reducemap', v) =
                Value(Combine(Op[v], ValueOf(varstate, reducemap, v).value, x))
  <2>1. Op[v] \in Merging
    BY <1>v, <1>11 DEF CanClash, Ops, Merging
  <2>2. IsFiniteSet(N) /\ Numbers(f, N) /\ (\A a \in Worlds : f[a] \in Int)
    BY <1>3, <1>r, WorldsFinite, FS_Subset DEF Numbers, Typed
  <2>3. /\ Merged(varstate, reducemap, v) = Allreduce(Op[v], N, f)
        /\ Merged(varstate', reducemap', v) = Allreduce(Op[v], N2, g)
    BY DEF Merged
  <2>4. g[w] = r2.value /\ f[w] = r.value /\ \A a \in Worlds \ {w} : g[a] = f[a]
    OBVIOUS
  <2>5. PICK y \in N : TRUE
    BY <1>11
  <2> HIDE DEF f, g, N, N2, r, r2
  <2>6. Allreduce(Op[v], N, f) \in Int
    BY <2>1, <2>2, <2>5, AllreduceFacts
  <2>7. Allreduce(Op[v], N2, g) = Combine(Op[v], Allreduce(Op[v], N, f), x)
    <3>1. CASE w \in N
      <4>1. N2 = N
        BY <1>3, <3>1
      <4>2. g[w] = Combine(Op[v], f[w], x) /\ \A a \in N \ {w} : g[a] = f[a]
        BY <1>3, <1>6, <2>4, <3>1
      <4>3. Allreduce(Op[v], N, g) = Combine(Op[v], Allreduce(Op[v], N, f), x)
        BY <2>1, <2>2, <3>1, <4>2, AllreduceGrows
      <4> QED BY <4>1, <4>3
    <3>2. CASE w \notin N
      <4>1. SameOn(f, g, N)
        BY <1>3, <2>4, <3>2 DEF SameOn
      <4>2. Allreduce(Op[v], N, g) = Allreduce(Op[v], N, f)
        BY <2>1, <2>2, <2>5, <4>1, AllreduceSame
      <4>3. g[w] = x
        BY <1>6, <2>4, <3>2
      <4>4. Numbers(g, N \cup {w})
        BY <1>3, <2>2, <2>4, <4>3 DEF Numbers
      <4>5. N # {}
        BY <2>5
      <4>6. Allreduce(Op[v], N \cup {w}, g) = Combine(Op[v], g[w], Allreduce(Op[v], N, g))
        BY <2>1, <2>2, <3>2, <4>4, <4>5, AllreduceJoins
      <4>7. Combine(Op[v], x, Allreduce(Op[v], N, f)) = Combine(Op[v], Allreduce(Op[v], N, f), x)
        BY <2>1, <2>6, CombineFacts
      <4> QED BY <1>3, <4>2, <4>3, <4>6, <4>7
    <3> QED BY <3>1, <3>2
  <2>8. ValueOf(varstate', reducemap', v) = Value(Merged(varstate', reducemap', v))
    BY <1>7, <1>8, <1>11 DEF ValueOf, N2
  <2>9. ValueOf(varstate, reducemap, v) = Value(Merged(varstate, reducemap, v))
    BY <1>7, <1>11 DEF ValueOf, N
  <2>10. ValueOf(varstate, reducemap, v).value = Merged(varstate, reducemap, v)
    BY <2>9 DEF Value
  <2> QED BY <2>3, <2>7, <2>8, <2>10
<1> QED BY <1>4, <1>6, <1>9, <1>10, <1>11

\* Every step of the worlds is a step of the abstract specification or leaves
\* it alone.
LEMMA AbsStep ==
  ASSUME PlainScript, SumsLast, TypeOK, RInv, Next
  PROVE  [Abstract!Next]_Abstract!vars
<1>t. /\ varstate \in [Worlds -> [Vars -> States]]
      /\ reducemap \in [Worlds -> [Vars -> Typed]]
      /\ declared \subseteq Vars
  BY Tables
<1>i. IInv /\ BlankInv /\ \A v \in Vars : Sourced(varstate, v) /\ VarInv(varstate, reducemap, v)
  BY DEF RInv, IInv
<1>s. Shared \subseteq Vars
  BY DEF Shared
<1>0. ASSUME UNCHANGED <<declared, varstate, reducemap>> PROVE UNCHANGED Abstract!vars
  <2>1. AbsValues' = AbsValues
    BY <1>0, AbsValuesAre
  <2> QED BY <1>0, <2>1, AbsStutters DEF AbsDeclared, AbsFresh
\* addVariable, removeVariable and clearVariable
<1>n. ASSUME NEW u \in Vars,
             varstate' = [w \in Worlds |-> [varstate[w] EXCEPT ![u] = "NONE"]],
             \A v \in Vars, w \in Worlds : v # u => reducemap'[w][v] = reducemap[w][v],
             \A w \in Worlds : ~ reducemap'[w][u].valueadded
      PROVE  /\ u \in Shared => AbsValues' = [AbsValues EXCEPT ![u] = NoValue]
             /\ u \notin Shared => AbsValues' = AbsValues
  <2>1. \A v \in Vars, w \in Worlds : varstate'[w][v] = IF v = u THEN "NONE" ELSE varstate[w][v]
    BY <1>n, <1>t
  <2>a. \A w \in Worlds : varstate'[w][u] # "NEW" /\ ~ reducemap'[w][u].valueadded
    BY <1>n, <2>1
  <2>2. ValueOf(varstate', reducemap', u) = NoValue
    <3> HIDE DEF ValueOf
    <3> DEFINE s == varstate'
    <3> DEFINE r == reducemap'
    <3>1. \A w \in Worlds : s[w][u] # "NEW" /\ ~ r[w][u].valueadded
      BY <2>a
    <3> HIDE DEF s, r
    <3>2. ValueOf(s, r, u) = NoValue
      BY <3>1, BlankValue
    <3> QED BY <3>2 DEF s, r
  <2>3. AbsValues' = [v \in Shared |-> IF v = u THEN NoValue ELSE AbsValues[v]]
    BY <1>n, <2>1, <2>2, OthersSame
  <2> QED BY <2>3 DEF AbsValues
<1>1. ASSUME NEW u \in Vars, AddVariable(u) PROVE [Abstract!Next]_Abstract!vars
  <2>1. /\ u \notin declared /\ declared' = declared \cup {u}
        /\ varstate' = [w \in Worlds |-> [varstate[w] EXCEPT ![u] = "NONE"]]
        /\ reducemap' = [w \in Worlds |-> [reducemap[w] EXCEPT ![u] = NewReducer]]
    BY <1>1 DEF AddVariable
  <2>2. \A v \in Vars, w \in Worlds : reducemap'[w][v] = IF v = u THEN NewReducer ELSE reducemap[w][v]
    BY <1>t, <2>1
  <2>3. ~ NewReducer.exported /\ ~ NewReducer.valueadded
    BY DEF NewReducer
  <2>4. \A w \in Worlds : varstate[w][u] = "NONE" /\ ~ reducemap[w][u].exported
                          /\ ~ reducemap[w][u].valueadded
    BY <1>i, <2>1 DEF BlankInv, VarInv
  <2>5. /\ u \in Shared => AbsValues' = [AbsValues EXCEPT ![u] = NoValue]
        /\ u \notin Shared => AbsValues' = AbsValues
    <3>1. \A v \in Vars, w \in Worlds : v # u => reducemap'[w][v] = reducemap[w][v]
      BY <2>2
    <3>2. \A w \in Worlds : ~ reducemap'[w][u].valueadded
      BY <2>2, <2>3
    <3> QED BY <1>n, <2>1, <3>1, <3>2
  <2>6. AbsFresh' = AbsFresh
    <3>1. \A v \in Shared, w \in Worlds : reducemap'[w][v].exported <=> reducemap[w][v].exported
      BY <1>s, <2>2, <2>3, <2>4
    <3> QED BY <3>1 DEF AbsFresh, Shared
  <2>7. CASE u \in Shared
    <3>1. ValueOf(varstate, reducemap, u) = NoValue
      BY <2>4, BlankValue
    <3>2. AbsValues' = AbsValues
      BY <2>5, <2>7, <3>1, AbsValuesAre
    <3>3. u \notin AbsDeclared /\ AbsDeclared' = AbsDeclared \cup {u}
      BY <2>1, <2>7 DEF AbsDeclared
    <3> QED BY <2>6, <2>7, <3>2, <3>3, AbsDeclares
  <2>8. CASE u \notin Shared
    <3>1. AbsDeclared' = AbsDeclared
      BY <2>1, <2>8 DEF AbsDeclared
    <3> QED BY <2>5, <2>6, <2>8, <3>1, AbsStutters
  <2> QED BY <2>7, <2>8
<1>2. ASSUME NEW u \in Vars, RemoveVariable(u) PROVE [Abstract!Next]_Abstract!vars
  <2>1. /\ u \in declared /\ declared' = declared \ {u}
        /\ varstate' = [w \in Worlds |-> [varstate[w] EXCEPT ![u] = "NONE"]]
        /\ reducemap' = [w \in Worlds |-> [reducemap[w] EXCEPT ![u] = NewReducer]]
    BY <1>2 DEF RemoveVariable
  <2>2. \A v \in Vars, w \in Worlds : reducemap'[w][v] = IF v = u THEN NewReducer ELSE reducemap[w][v]
    BY <1>t, <2>1
  <2>3. ~ NewReducer.exported /\ ~ NewReducer.valueadded
    BY DEF NewReducer
  <2>4. /\ u \in Shared => AbsValues' = [AbsValues EXCEPT ![u] = NoValue]
        /\ u \notin Shared => AbsValues' = AbsValues
    <3>1. \A v \in Vars, w \in Worlds : v # u => reducemap'[w][v] = reducemap[w][v]
      BY <2>2
    <3>2. \A w \in Worlds : ~ reducemap'[w][u].valueadded
      BY <2>2, <2>3
    <3> QED BY <1>n, <2>1, <3>1, <3>2
  <2>5. Worlds # {}
    BY WorldsAssumption DEF Worlds
  <2>6. AbsFresh' = AbsFresh \ {u}
    <3>1. \A v \in Shared, w \in Worlds :
            reducemap'[w][v].exported <=> v # u /\ reducemap[w][v].exported
      BY <1>s, <2>2, <2>3
    <3> QED BY <3>1 DEF AbsFresh, Shared
  <2>7. AbsDeclared' = AbsDeclared \ {u}
    BY <2>1 DEF AbsDeclared
  <2>8. CASE u \in Shared
    <3>1. u \in AbsDeclared
      BY <2>1, <2>8 DEF AbsDeclared
    <3> QED BY <2>4, <2>6, <2>7, <2>8, <3>1, AbsRemoves
  <2>9. CASE u \notin Shared
    <3>1. AbsDeclared' = AbsDeclared /\ AbsFresh' = AbsFresh
      BY <2>6, <2>7, <2>9 DEF AbsDeclared, AbsFresh
    <3> QED BY <2>4, <2>9, <3>1, AbsStutters
  <2> QED BY <2>8, <2>9
<1>3. ASSUME NEW u \in Vars, ClearVariable(u) PROVE [Abstract!Next]_Abstract!vars
  <2>1. /\ u \in declared /\ declared' = declared
        /\ varstate' = [w \in Worlds |-> [varstate[w] EXCEPT ![u] = "NONE"]]
        /\ reducemap' = [w \in Worlds |-> [reducemap[w] EXCEPT ![u] = Reset(@)]]
    BY <1>3 DEF ClearVariable
  <2>2. \A v \in Vars, w \in Worlds :
          reducemap'[w][v] = IF v = u THEN Reset(reducemap[w][u]) ELSE reducemap[w][v]
    BY <1>t, <2>1
  <2>3. \A w \in Worlds : ~ Reset(reducemap[w][u]).valueadded
                          /\ Reset(reducemap[w][u]).exported = reducemap[w][u].exported
    BY <1>t DEF Reset, Typed
  <2>4. /\ u \in Shared => AbsValues' = [AbsValues EXCEPT ![u] = NoValue]
        /\ u \notin Shared => AbsValues' = AbsValues
    <3>1. \A v \in Vars, w \in Worlds : v # u => reducemap'[w][v] = reducemap[w][v]
      BY <2>2
    <3>2. \A w \in Worlds : ~ reducemap'[w][u].valueadded
      BY <2>2, <2>3
    <3> QED BY <1>n, <2>1, <3>1, <3>2
  <2>5. AbsFresh' = AbsFresh
    <3>1. \A v \in Shared, w \in Worlds : reducemap'[w][v].exported = reducemap[w][v].exported
      BY <1>s, <2>2, <2>3
    <3> QED BY <3>1 DEF AbsFresh, Shared
  <2>6. AbsDeclared' = AbsDeclared
    BY <2>1 DEF AbsDeclared
  <2>7. CASE u \in Shared
    <3>1. u \in AbsDeclared
      BY <2>1, <2>7 DEF AbsDeclared
    <3> QED BY <2>4, <2>5, <2>6, <2>7, <3>1, AbsClears
  <2>8. CASE u \notin Shared
    BY <2>4, <2>5, <2>6, <2>8, AbsStutters
  <2> QED BY <2>7, <2>8
\* A collective operation reports the conflicts it met.
<1>c. ASSUME declared' = declared, NEW C \in SUBSET Shared,
             \A v \in Shared : IF v \in C
               THEN /\ ValueOf(varstate, reducemap, v) = ConflictValue
                    /\ ValueOf(varstate', reducemap', v) = NoValue
               ELSE ValueOf(varstate', reducemap', v) = ValueOf(varstate, reducemap, v),
             \/ \A v \in Vars, w \in Worlds : reducemap'[w][v].exported = reducemap[w][v].exported
             \/ \A v \in Vars, w \in Worlds : ~ reducemap'[w][v].exported
      PROVE  Abstract!Next
  <2>1. AbsDeclared' = AbsDeclared
    BY <1>c DEF AbsDeclared
  <2>2. \A v \in C : AbsValues[v] = ConflictValue
    BY <1>c, AbsValuesAre
  <2>3. AbsValues' = [v \in Shared |-> IF v \in C THEN NoValue ELSE AbsValues[v]]
    BY <1>c, AbsValuesAre
  <2>4. AbsFresh' = AbsFresh \/ AbsFresh' = {}
    BY <1>c, <1>s DEF AbsFresh
  <2> QED BY <2>1, <2>2, <2>3, <2>4, AbsReports
<1>4. ASSUME NEW u \in Queried, GetVariable(u) PROVE Abstract!Next
  <2> DEFINE st == [w \in Worlds |-> [varstate[w] EXCEPT ![u] = Interested(@)]]
             C == {v \in Shared : Loses(SynchVariableInfo(st), v)}
  <2>1. u \in declared /\ declared' = declared /\ Synch(st, reducemap)
    BY <1>4 DEF GetVariable
  <2>2. /\ st \in [Worlds -> [Vars -> States]]
        /\ Shape(st, reducemap)
        /\ \A v \in Vars : VarInv(st, reducemap, v) /\ Sourced(st, v)
        /\ \A v \in Vars, w \in Worlds : st[w][v] = "NEW" <=> varstate[w][v] = "NEW"
    BY <2>1, QueryTables
  <2> HIDE DEF st
  <2>3. /\ \A v \in Shared :
             IF Loses(SynchVariableInfo(st), v)
             THEN /\ ValueOf(st, reducemap, v) = ConflictValue
                  /\ ValueOf(varstate', reducemap', v) = NoValue
             ELSE ValueOf(varstate', reducemap', v) = ValueOf(st, reducemap, v)
        /\ \A v \in Vars, w \in Worlds : reducemap'[w][v].exported = reducemap[w][v].exported
    BY <1>t, <2>1, <2>2, SynchValues
  <2>4. \A v \in Shared : ValueOf(st, reducemap, v) = ValueOf(varstate, reducemap, v)
    BY <1>s, <2>2, SameValue
  <2>5. C \in SUBSET Shared /\ \A v \in Shared : v \in C <=> Loses(SynchVariableInfo(st), v)
    OBVIOUS
  <2> HIDE DEF C
  <2> QED BY <1>c, <2>1, <2>3, <2>4, <2>5
<1>5. ASSUME StartBatch \/ StartBatchFails PROVE Abstract!Next
  <2> DEFINE st == ResetInterest(varstate)
             rm == NewRounds
             C == {v \in Shared : Loses(SynchVariableInfo(st), v)}
  <2>1. /\ st \in [Worlds -> [Vars -> States]]
        /\ rm \in [Worlds -> [Vars -> Typed]]
        /\ Shape(st, rm)
        /\ \A v \in Vars : VarInv(st, rm, v)
        /\ \A v \in Vars : Sourced(st, v)
        /\ \A v \in Vars, w \in Worlds :
             /\ ~ rm[w][v].exported
             /\ rm[w][v].valueadded = reducemap[w][v].valueadded
             /\ rm[w][v].value = reducemap[w][v].value
             /\ st[w][v] = "NEW" <=> varstate[w][v] = "NEW"
    BY <1>i, BatchTables
  <2>2. declared' = declared /\ (Synch(st, rm) \/ (varstate' = st /\ reducemap' = rm))
    BY <1>5 DEF StartBatch, StartBatchFails
  <2> HIDE DEF st, rm
  <2>3. \A v \in Shared : ValueOf(st, rm, v) = ValueOf(varstate, reducemap, v)
    BY <1>s, <2>1, SameValue
  <2>4. CASE Synch(st, rm)
    <3>1. /\ \A v \in Shared :
               IF Loses(SynchVariableInfo(st), v)
               THEN ValueOf(st, rm, v) = ConflictValue /\ ValueOf(varstate', reducemap', v) = NoValue
               ELSE ValueOf(varstate', reducemap', v) = ValueOf(st, rm, v)
          /\ \A v \in Vars, w \in Worlds : reducemap'[w][v].exported = rm[w][v].exported
      BY <1>t, <2>1, <2>4, SynchValues
    <3>2. C \in SUBSET Shared /\ \A v \in Shared : v \in C <=> Loses(SynchVariableInfo(st), v)
      OBVIOUS
    <3>3. \A v \in Vars, w \in Worlds : ~ reducemap'[w][v].exported
      BY <2>1, <3>1
    <3> HIDE DEF C
    <3> QED BY <1>c, <2>2, <2>3, <3>1, <3>2, <3>3
  <2>5. CASE varstate' = st /\ reducemap' = rm
    <3>1. \A v \in Shared : ValueOf(varstate', reducemap', v) = ValueOf(varstate, reducemap, v)
      BY <2>3, <2>5
    <3>2. \A v \in Vars, w \in Worlds : ~ reducemap'[w][v].exported
      BY <2>1, <2>5
    <3>3. {} \in SUBSET Shared
      OBVIOUS
    <3> QED BY <1>c, <2>2, <3>1, <3>2, <3>3
  <2> QED BY <2>2, <2>4, <2>5
<1>6. ASSUME NEW w \in Worlds, NEW u \in Vars, NEW x \in ExportValues, Transport(w, u, x)
      PROVE  [Abstract!Next]_Abstract!vars
  <2>1. /\ pc[w] = "transport" /\ u \in declared /\ declared' = declared
        /\ ~ LocalClash(Op[u], reducemap[w][u]) /\ x \in Int
    BY <1>6, ValuesAssumption DEF Transport, PlainScript
  <2>2. /\ reducemap' = [reducemap EXCEPT ![w][u] = ReduceLocalValue(Op[u], reducemap[w][u], x)]
        /\ varstate' = [varstate EXCEPT ![w][u] = "NEW"]
    BY <1>6, <2>1 DEF Transport
  <2>3. \A a \in Worlds, v \in Vars :
          /\ varstate'[a][v] = IF a = w /\ v = u THEN "NEW" ELSE varstate[a][v]
          /\ reducemap'[a][v] = IF a = w /\ v = u THEN ReduceLocalValue(Op[u], reducemap[w][u], x)
                                ELSE reducemap[a][v]
    BY <1>t, <2>2
  <2>4. AbsValues' = [v \in Shared |-> IF v = u THEN ValueOf(varstate', reducemap', u)
                                       ELSE AbsValues[v]]
    BY <2>3, OthersSame
  <2>5. AbsDeclared' = AbsDeclared
    BY <2>1 DEF AbsDeclared
  <2>6. \A v \in Shared \ {u}, a \in Worlds : reducemap'[a][v].exported = reducemap[a][v].exported
    BY <1>s, <2>3
  <2>7. CASE u \in Shared
    <3>1. /\ ValueOf(varstate', reducemap', u) =
               IF u \notin AbsFresh THEN Value(x)
               ELSE IF CanClash(Op[u]) THEN ConflictValue
               ELSE Value(Combine(Op[u], ValueOf(varstate, reducemap, u).value, x))
          /\ reducemap'[w][u].exported
      BY <2>1, <2>3, <2>7, ExportedValue
    <3>2. AbsFresh' = AbsFresh \cup {u}
      BY <2>6, <2>7, <3>1 DEF AbsFresh, Shared
    <3>3. AbsValues[u] = ValueOf(varstate, reducemap, u)
      BY <2>7, AbsValuesAre
    <3>4. AbsValues' = [AbsValues EXCEPT ![u] =
            IF u \notin AbsFresh THEN Value(x)
            ELSE IF CanClash(Op[u]) THEN ConflictValue
            ELSE Value(Combine(Op[u], AbsValues[u].value, x))]
      BY <2>4, <3>1, <3>3 DEF AbsValues
    <3>5. u \in AbsDeclared
      BY <2>1, <2>7 DEF AbsDeclared
    <3> QED BY <2>5, <2>7, <3>2, <3>4, <3>5, AbsExports
  <2>8. CASE u \notin Shared
    <3>1. AbsValues' = AbsValues
      BY <2>4, <2>8 DEF AbsValues
    <3>2. AbsFresh' = AbsFresh
      BY <2>6, <2>8 DEF AbsFresh, Shared
    <3> QED BY <2>5, <3>1, <3>2, AbsStutters
  <2> QED BY <2>7, <2>8
<1>7. ASSUME NEW w \in Worlds, Local(w) PROVE [Abstract!Next]_Abstract!vars
  <2>1. CASE (\E r \in 0 .. 3 : RunJobs(w, r)) \/ RefuseExport(w) \/ EndTransport(w)
    BY <1>0, <2>1 DEF RunJobs, RefuseExport, EndTransport
  <2> QED BY <1>6, <1>7, <2>1 DEF Local
<1>8. ASSUME Join \/ Finished PROVE [Abstract!Next]_Abstract!vars
  BY <1>0, <1>8 DEF Join, Finished, vars
<1>9. ASSUME Script PROVE [Abstract!Next]_Abstract!vars
  BY <1>1, <1>2, <1>3, <1>4, <1>5, <1>9 DEF Script, PlainScript
<1> QED BY <1>7, <1>8, <1>9 DEF Next

-----------------------------------------------------------------------------
(* The theorems                                                            *)

\* Whatever the number of worlds and variables: declared or not, wanted or not, the
\* tables keep the relations on which the one value rests.
THEOREM RInvHolds ==
  ASSUME PlainScript, SumsLast
  PROVE  Spec => []RInv
<1>1. TypeOK /\ RInv /\ [Next]_vars => RInv'
  BY RStep
<1> QED BY <1>1, RInit, TypeOKHolds, PTL DEF Spec

\* However many worlds there are, together they keep one value per shared variable:
\* every export of a round is reduced into it once, the first one replaces what was
\* there, and neither synchVariableInfo nor synchVariableValues changes it, except
\* that it is lost where SET updates clash.
THEOREM OneValueHolds ==
  ASSUME PlainScript, SumsLast
  PROVE  Spec => OneValue
<1>1. TypeOK /\ RInv /\ [Next]_vars => [Abstract!Next]_Abstract!vars
  <2>1. ASSUME UNCHANGED vars PROVE UNCHANGED Abstract!vars
    <3>1. AbsValues' = AbsValues
      BY <2>1, AbsValuesAre DEF vars
    <3> QED BY <2>1, <3>1, AbsStutters DEF vars, AbsDeclared, AbsFresh
  <2> QED BY <2>1, AbsStep
<1>2. Spec => [][Abstract!Next]_Abstract!vars
  BY <1>1, RInvHolds, TypeOKHolds, PTL DEF Spec
<1>3. Spec => Abstract!Init
  BY AbsInit DEF Spec
<1> QED BY <1>2, <1>3 DEF OneValue, Abstract!Spec
=============================================================================
