--------------------------- MODULE VariableGroups ---------------------------
(***************************************************************************)
(* SubWorld's collective steps as the calls single processes make.  In     *)
(* synchVariableValues one process of every world sits in corrmpi; each    *)
(* decides by itself, from the state of its own world and from what all    *)
(* worlds have said (globalvarinfo), which communicators to create and     *)
(* what to call on them.  MPI asks that the members of a group name the    *)
(* same group in the same call, and that they all call.                    *)
(***************************************************************************)
EXTENDS SubWorld, Sequences

FirstOf(S) == CHOOSE w \in S : \A u \in S : w <= u
LastOf(S) == CHOOSE w \in S : \A u \in S : u <= w

\* The members of a communicator and which of them is process 0 in it.
Group(members, root) == [members |-> members, root |-> root]
EmptyGroup == Group({}, -1)

\* The only update goes to whoever wants it.
OneUpdate(st, v) == New(st, v) # {} /\ ~Several(New(st, v)) /\ Wanting(st, v) # {}
\* Everybody has an update: they are reduced on corrmpi itself.
AllUpdated(st, v) == Several(New(st, v)) /\ New(st, v) = Worlds
\* Updates are reduced among those that have one, and then go to the others.
SomeUpdated(st, v) == Several(New(st, v)) /\ New(st, v) # Worlds

\* Fault: a world with an old copy stays out of the group that others put it in.
TakesPartWithoutCopy(s) == s \in {"NEW", "INTERESTED"}
\* Which worlds make up groups of their own; the others name the empty group.
TakesPart(s) == s \in {"NEW", "INTERESTED", "OLDINTERESTED"}

\* Fault: the worlds with updates are appended like the others.
AppendedGroup(st, v) ==
  Group(New(st, v) \cup Wanting(st, v), FirstOf(New(st, v) \cup Wanting(st, v)))
\* The worlds that have or want an update; every update is inserted at the front.
CopyGroup(st, v) == Group(New(st, v) \cup Wanting(st, v), LastOf(New(st, v)))

MakeGroupComm1(st, v, w) ==
  IF TakesPart(st[w][v]) THEN <<CopyGroup(st, v)>> ELSE <<EmptyGroup>>

MakeGroupReduceGroups(st, v, w) ==
  IF TakesPart(st[w][v])
  THEN <<Group(New(st, v), FirstOf(New(st, v))), CopyGroup(st, v)>>
  ELSE <<EmptyGroup, EmptyGroup>>

MakeGroupComm2(st, v, w) ==
  IF st[w][v] \in {"OLD", "INTERESTED", "OLDINTERESTED"}
  THEN <<Group(In(st, v, {"INTERESTED"}) \cup {FirstHolder(st, v)}, FirstHolder(st, v))>>
  ELSE <<EmptyGroup>>

\* The groups that the process of world w names in its calls of MPI_Comm_create for v.
Created(st, v, w) ==
  CASE OneUpdate(st, v)   -> MakeGroupComm1(st, v, w)
    [] SomeUpdated(st, v) -> MakeGroupReduceGroups(st, v, w)
    [] ShipsOld(st, v)    -> MakeGroupComm2(st, v, w)
    [] OTHER              -> <<>>

\* reduceRemoteValues and groupSend of a reducer.  Only who has an update sends.
ReduceOn(group) == [call |-> "reduce", group |-> group, imsending |-> TRUE]
SendOn(group, mystate) == [call |-> "send", group |-> group, imsending |-> mystate = "NEW"]

\* What the process of world w then calls on the communicators it is in.  If
\* updates of v may clash, reduceRemoteValues fails instead of calling MPI, and
\* an MPI_Allreduce on corrmpi tells everybody.
Called(st, v, w, clash) ==
  LET made == Created(st, v, w)
      s    == st[w][v]
  IN  CASE OneUpdate(st, v) ->
             IF s \in {"NONE", "OLD"} THEN <<>> ELSE <<SendOn(made[1], s)>>
        [] AllUpdated(st, v) ->
             IF clash THEN <<>> ELSE <<ReduceOn(Group(Worlds, 0))>>
        [] SomeUpdated(st, v) ->
             IF clash THEN <<>>
             ELSE (IF s = "NEW" THEN <<ReduceOn(made[1])>> ELSE <<>>)
                    \o (IF w \in made[2].members THEN <<SendOn(made[2], s)>> ELSE <<>>)
        [] ShipsOld(st, v) ->
             IF w \in made[1].members THEN <<SendOn(made[1], s)>> ELSE <<>>
        [] OTHER -> <<>>

-----------------------------------------------------------------------------
(* What these calls do to the value on world w, if they match.             *)

\* After the reduction
Reduced(st, rm, v, w) ==
  IF Several(New(st, v)) /\ st[w][v] = "NEW" THEN Merged(st, rm, v) ELSE rm[w][v].value

AfterCalls(st, rm, v, w) ==
  LET calls == Called(st, v, w, CanClash(Op[v]))
      last  == calls[Len(calls)]
  IN  IF calls = <<>> THEN rm[w][v]
      ELSE IF last.call = "send"
      THEN Receive(Op[v], rm[w][v], Reduced(st, rm, v, last.group.root))
      ELSE ReduceRemoteValues(Op[v], rm[w][v], Reduced(st, rm, v, w))

\* The states with which synchVariableValues may start: runJobs gives up all
\* interest before, getScalarVariable shows some.
Asked ==
  {SynchVariableInfo(ResetInterest(varstate))} \cup
  {SynchVariableInfo([w \in Worlds |-> [varstate[w] EXCEPT ![v] = Interested(@)]]) : v \in Queried}

\* What a world a asks of a world b: to create as many communicators, the same
\* ones if b is to be a member, to answer its calls, and to have what it sends.
CallsMeet(st, v, clash, a, b) ==
  /\ Len(Created(st, v, a)) = Len(Created(st, v, b))
  /\ \A i \in DOMAIN Created(st, v, a) :
       b \in Created(st, v, a)[i].members => Created(st, v, b)[i] = Created(st, v, a)[i]
  /\ \A i \in DOMAIN Called(st, v, a, clash) :
       LET c == Called(st, v, a, clash)[i] IN
       /\ b \in c.group.members =>
            \E j \in DOMAIN Called(st, v, b, clash) :
              LET d == Called(st, v, b, clash)[j] IN d.call = c.call /\ d.group = c.group
       /\ b = c.group.root => st[b][v] = "NEW"

-----------------------------------------------------------------------------
(* Properties. *)

\* The processes create the same number of communicators, a group names only
\* worlds that name the same group, and who calls on a communicator finds all
\* its members calling the same in the same order, the first of them to send.
\* So no process waits for another in synchVariableValues, and a Data value
\* always comes from a world that has one (SubWorld.cpp:438-608).
GroupsMatch ==
  InScript => \A st \in Asked : \A v \in Passed(st), clash \in BOOLEAN : \A a, b \in Worlds :
    CallsMeet(st, v, clash, a, b)

\* Done by each process on its own, the calls leave on every world what SubWorld's
\* joint step says: the updates reduced, or the only one, and nothing where
\* nobody asked (SubWorld.cpp:612-794).
JointStep ==
  InScript => \A st \in Asked : \A v \in Passed(st), w \in Worlds :
    AfterCalls(st, reducemap, v, w) = SharedReducer(st, reducemap, w, v)
=============================================================================
