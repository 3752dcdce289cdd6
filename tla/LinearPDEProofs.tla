--------------------------- MODULE LinearPDEProofs ---------------------------
(***************************************************************************)
(* The bookkeeping of a LinearPDE, with or without lumping, for every      *)
(* domain, every set of coefficient values and any number of calls: the    *)
(* solution, the matrix and the right hand side it hands out without       *)
(* rebuilding them are those of the present coefficients, domain and order.*)
(***************************************************************************)
EXTENDS LinearPDE, TLAPS

(***************************************************************************)
(* What a program has to stick to.  It sets a coefficient after it emptied *)
(* the right hand side.  If it never lumps, it keeps r empty, or else asks *)
(* for one type of matrix and stops after setValue raised.  If it does, it *)
(* lumps in one way, fixes q and r before the first system is built, and   *)
(* keeps r empty, or else never asks for another matrix.                   *)
(***************************************************************************)
Lumps(u) == u.methods \cap Lumping # {}
MatrixUse(u) ==
  ~Lumps(u) /\ (u.r = {0} \/ (~u.raises /\ \A m, n \in u.methods : m = n))
LumpingUse(u) ==
  /\ Lumps(u) /\ ~u.late
  /\ \A m, n \in u.methods \cap Lumping : m = n
  /\ u.r = {0} \/ u.methods \subseteq Lumping
SoundUse(u) ==
  DataType \notin u.methods /\ ~u.bareReset /\ (MatrixUse(u) \/ LumpingUse(u))

-----------------------------------------------------------------------------
(* The inductive invariant. *)

IsSystem(s) ==
  s \in [op : {s.op}, rhs : {s.rhs}, type : {s.type}, opValid : BOOLEAN, rhsValid : BOOLEAN,
         solValid : BOOLEAN, status : 0 .. status, rtol : {s.rtol}]

\* What the constraint takes off the right hand side: a lumped matrix needs
\* nothing, and a program that lumps has no other matrix that does.
Lifts == IF Lumps(use) THEN <<>> ELSE LiftTerms(coef.A, coef.D, coef)

\* A right hand side that belongs to a matrix.
RightVector(v) ==
  /\ v \in [type : {v.type}, y : {v.y}, status : {v.status}, order : {v.order},
            lifts : {v.lifts}, at : {v.at}]
  /\ v # Empty
  /\ v.y = coef.y /\ v.status = status /\ v.order = order
  /\ v.at = [n \in coef.q |-> coef.r]
  /\ v.lifts = Lifts

\* The types of matrix a use asks for, and a matrix of one of them.
TypesOf(u) == (u.methods \ Lumping) \cup IF Lumps(u) THEN {DataType} ELSE {}

RightMatrix(m) ==
  /\ m \in [type : {m.type}, lumped : {m.lumped}, A : {m.A}, D : {m.D}, status : {m.status},
            order : {m.order}, fixed : {m.fixed}]
  /\ RightOperator(m)
  /\ m.type \in TypesOf(use)
  /\ m.type = DataType => m.lumped \in use.methods \cap Lumping

(***************************************************************************)
(* A flag that is set vouches for what it is about.  With an inhomogeneous *)
(* constraint the right hand side holds matrix * r unless the matrix is    *)
(* lumped, so that neither is rebuilt without the other: their flags agree.*)
(***************************************************************************)
SystemInv(s) ==
  /\ IsSystem(s)
  /\ s.solValid => s.opValid /\ s.rhsValid
  /\ s.opValid \/ s.rhsValid => s.op # Empty
  /\ s.opValid /\ ~Stale(s) => RightMatrix(s.op) /\ s.op.type = s.type
  /\ s.rhsValid /\ ~Stale(s) => RightVector(s.rhs)
  /\ ~Stale(s) /\ ~Lumps(use) /\ Inhomogeneous(coef) => s.opValid = s.rhsValid

SolutionInv ==
  sys.solValid /\ ~Stale(sys) => RightMatrix(sol.op) /\ RightVector(sol.rhs)

CoefInv == DOMAIN coef = Names /\ (use.r = {0} => coef.r = 0)

UseInv == use \in Uses /\ method \in use.methods /\ status \in Nat

Inv == UseInv /\ CoefInv /\ SystemInv(sys) /\ SolutionInv

\* What the lemmas assume of the state.
Context == UseInv /\ CoefInv /\ SoundUse(use)

\* What getSystem requires of the matrix, and what a constraint takes off the
\* right hand side of a matrix of that type.
LEMMA Required ==
  ASSUME Context
  PROVE  /\ RequiredType \in TypesOf(use)
         /\ IsUsingLumping => Lumps(use) /\ RequiredType = DataType /\ method \in use.methods \cap Lumping
         /\ ~IsUsingLumping => RequiredType # DataType
         /\ Lifts = IF IsUsingLumping THEN <<>> ELSE LiftTerms(coef.A, coef.D, coef)
         /\ ~IsUsingLumping /\ Lumps(use) => ~Inhomogeneous(coef)
<1>1. method \in use.methods /\ DataType \notin use.methods /\ (use.r = {0} => coef.r = 0)
  BY DEF Context, UseInv, CoefInv, SoundUse
<1>2. CASE IsUsingLumping
  BY <1>1, <1>2 DEF IsUsingLumping, Lumps, RequiredType, TypesOf, Lifts
<1>3. CASE ~IsUsingLumping
  <2>1. RequiredType = method /\ method \notin Lumping
    BY <1>3 DEF RequiredType, IsUsingLumping
  <2>2. Lumps(use) => ~Inhomogeneous(coef)
    BY <1>1, <2>1 DEF Context, SoundUse, MatrixUse, LumpingUse, Inhomogeneous
  <2>3. Lumps(use) => LiftTerms(coef.A, coef.D, coef) = <<>>
    BY <2>2 DEF LiftTerms
  <2> QED BY <1>1, <1>3, <2>1, <2>2, <2>3 DEF TypesOf, Lifts
<1> QED BY <1>2, <1>3

-----------------------------------------------------------------------------
(* The flags. *)

SameContent(t, s) ==
  t.op = s.op /\ t.rhs = s.rhs /\ t.type = s.type /\ t.status = s.status /\ t.rtol = s.rtol

\* invalidateOperator clears the flags of operator and solution and keeps what
\* is stored.
LEMMA InvalidatedOperator ==
  ASSUME NEW s, IsSystem(s)
  PROVE  LET t == InvalidateOperator(s)
         IN IsSystem(t) /\ SameContent(t, s) /\ ~t.opValid /\ ~t.solValid /\ t.rhsValid = s.rhsValid
BY DEF InvalidateOperator, IsSystem, SameContent

\* invalidateRightHandSide does the same for the right hand side.
LEMMA InvalidatedRightHandSide ==
  ASSUME NEW s, IsSystem(s)
  PROVE  LET t == InvalidateRightHandSide(s)
         IN IsSystem(t) /\ SameContent(t, s) /\ ~t.rhsValid /\ ~t.solValid /\ t.opValid = s.opValid
BY DEF InvalidateRightHandSide, IsSystem, SameContent

\* With an inhomogeneous constraint and no lumping there is one matrix type.
LEMMA TypeOfValid ==
  ASSUME Context, NEW s, SystemInv(s), s.opValid, ~Stale(s), ~Lumps(use), Inhomogeneous(coef)
  PROVE  s.type = RequiredType
<1>1. s.type \in TypesOf(use) /\ RequiredType \in TypesOf(use)
  BY Required DEF SystemInv, RightMatrix
<1>2. \A m, n \in use.methods : m = n
  BY DEF Context, CoefInv, SoundUse, MatrixUse, LumpingUse, Inhomogeneous
<1> QED BY <1>1, <1>2 DEF TypesOf

\* isOperatorValid keeps the invariant and clears the flags of operator and
\* solution exactly where it answers no.
LEMMA OperatorAsked ==
  ASSUME Context, NEW s, SystemInv(s)
  PROVE  LET t == AskOperator(s)
         IN SystemInv(t) /\ SameContent(t, s) /\ (t.solValid => s.solValid)
              /\ (IsOperatorValid(s) => t = s)
              /\ (~IsOperatorValid(s) => ~t.opValid /\ ~t.solValid /\ t.rhsValid = s.rhsValid)
<1>1. CASE IsOperatorValid(s)
  BY <1>1 DEF AskOperator, SameContent
<1>2. CASE ~IsOperatorValid(s)
  <2>1. AskOperator(s) = InvalidateOperator(s)
    BY <1>2 DEF AskOperator
  <2>2. ~Stale(s) /\ ~Lumps(use) /\ Inhomogeneous(coef) => ~s.rhsValid
    BY <1>2, TypeOfValid DEF SystemInv, IsSystem, IsOperatorValid
  <2> DEFINE t == AskOperator(s)
  <2>3. /\ IsSystem(t) /\ SameContent(t, s)
        /\ ~t.opValid /\ ~t.solValid /\ t.rhsValid = s.rhsValid
    BY <2>1, InvalidatedOperator DEF SystemInv
  <2>4. ~Stale(t) /\ ~Lumps(use) /\ Inhomogeneous(coef) => t.opValid = t.rhsValid
    BY <2>2, <2>3 DEF SameContent, Stale, IsSystem, SystemInv
  <2> QED
    BY <1>2, <2>3, <2>4 DEF SystemInv, SameContent, Stale
<1> QED
  BY <1>1, <1>2

\* isRightHandSideValid keeps the invariant and never makes a solution valid.
LEMMA RightHandSideAsked ==
  ASSUME Context, NEW s, SystemInv(s)
  PROVE  LET t == AskRightHandSide(s)
         IN SystemInv(t) /\ SameContent(t, s) /\ (t.solValid => s.solValid) /\ (~Stale(s) => t = s)
BY InvalidatedRightHandSide DEF AskRightHandSide, SystemInv, SameContent, Stale

\* isSolutionValid keeps the invariant and never makes a solution valid.
LEMMA SolutionAsked ==
  ASSUME Context, NEW s, SystemInv(s)
  PROVE  LET t == AskSolution(s)
         IN SystemInv(t) /\ SameContent(t, s) /\ (t.solValid => s.solValid)
<1>1. CASE IsSolutionValid(s)
  BY <1>1 DEF AskSolution, SameContent
<1>2. CASE ~IsSolutionValid(s)
  <2>1. AskSolution(s) = [s EXCEPT !.solValid = FALSE]
    BY <1>2 DEF AskSolution
  <2> QED
    BY <2>1 DEF SystemInv, IsSystem, SameContent, Stale
<1> QED
  BY <1>1, <1>2

-----------------------------------------------------------------------------
(* Assembly. *)

\* A matrix just assembled, with the constraint put in, is that of the present
\* coefficients.
LEMMA NewMatrix ==
  ASSUME Context
  PROVE  /\ RightMatrix(FixOperator(AssembledOperator))
         /\ FixOperator(AssembledOperator).type = RequiredType
         /\ coef.q = {} => RightMatrix(AssembledOperator) /\ AssembledOperator.type = RequiredType
<1>1. PICK type, lumped :
        /\ type = RequiredType /\ lumped = IF IsUsingLumping THEN method ELSE NoName
        /\ type \in TypesOf(use) /\ (type = DataType => lumped \in use.methods \cap Lumping)
  BY Required
<1>2. AssembledOperator = [type |-> type, lumped |-> lumped, A |-> coef.A, D |-> coef.D,
                           status |-> status, order |-> order, fixed |-> {}]
  BY <1>1 DEF AssembledOperator
<1>3. FixOperator(AssembledOperator) =
        [type |-> type, lumped |-> lumped, A |-> coef.A, D |-> coef.D,
         status |-> status, order |-> order, fixed |-> coef.q]
  BY <1>2 DEF FixOperator
<1> QED BY <1>1, <1>2, <1>3 DEF RightMatrix, RightOperator, Empty

\* Putting the constraint into a matrix that has it changes nothing.
LEMMA FixedTwice ==
  ASSUME NEW m, RightMatrix(m)
  PROVE  FixOperator(m) = m
BY DEF RightMatrix, RightOperator, FixOperator

\* Appending one entry, or none, to an empty list.
LEMMA Concatenated == \A x : <<>> \o <<x>> = <<x>> /\ <<>> \o <<>> = <<>>
OBVIOUS

\* A right hand side just assembled holds the constraint's term once, after
\* matrix * r is taken off.
LEMMA LiftedOnce ==
  ASSUME Context
  PROVE  LET v == Lift(AssembledRightHandSide, AssembledOperator)
         IN v = [AssembledRightHandSide EXCEPT !.lifts = LiftTerms(coef.A, coef.D, coef)]
<1>1. AssembledRightHandSide.lifts = <<>> /\ Len(<<>>) < MaxLift
  BY BoundsAssumption DEF AssembledRightHandSide
<1>2. <<>> \o LiftTerms(coef.A, coef.D, coef) = LiftTerms(coef.A, coef.D, coef)
  BY Concatenated DEF LiftTerms
<1> QED
  BY <1>1, <1>2 DEF Lift, AssembledOperator

\* Without an inhomogeneous constraint there is no such term.
LEMMA NoLift == \A A, D : ~Inhomogeneous(coef) => LiftTerms(A, D, coef) = <<>>
BY DEF LiftTerms

\* A right hand side just assembled is that of the present coefficients.
LEMMA NewVector ==
  ASSUME Context
  PROVE  /\ ~IsUsingLumping =>
              RightVector(FixRightHandSide(Lift(AssembledRightHandSide, AssembledOperator)))
         /\ IsUsingLumping \/ ~Inhomogeneous(coef) =>
              RightVector(FixRightHandSide(AssembledRightHandSide))
         /\ coef.q = {} => RightVector(AssembledRightHandSide)
<1>1. ASSUME NEW v, v = [AssembledRightHandSide EXCEPT !.lifts = Lifts]
      PROVE  RightVector(FixRightHandSide(v))
  BY <1>1 DEF RightVector, FixRightHandSide, AssembledRightHandSide, Empty
<1>2. coef.q = {} => ~Inhomogeneous(coef)
  BY DEF Inhomogeneous
<1>3. IsUsingLumping \/ ~Inhomogeneous(coef) => Lifts = <<>>
  BY NoLift, Required
<1>4. IsUsingLumping \/ ~Inhomogeneous(coef) =>
        AssembledRightHandSide = [AssembledRightHandSide EXCEPT !.lifts = Lifts]
  BY <1>3 DEF AssembledRightHandSide
<1>5. coef.q = {} => RightVector(AssembledRightHandSide)
  BY <1>2, <1>3 DEF RightVector, AssembledRightHandSide, Empty
<1>6. ~IsUsingLumping => Lift(AssembledRightHandSide, AssembledOperator)
                           = [AssembledRightHandSide EXCEPT !.lifts = Lifts]
  BY LiftedOnce, Required
<1> QED
  BY <1>1, <1>4, <1>5, <1>6

\* Putting the constraint into a right hand side that has it changes nothing
\* but the values it gives.
LEMMA FixedVector ==
  ASSUME NEW v, RightVector(v)
  PROVE  RightVector(FixRightHandSide(v))
<1>1. FixRightHandSide(v) = [v EXCEPT !.at = [n \in coef.q |-> coef.r]]
  BY DEF FixRightHandSide, RightVector
<1> QED
  BY <1>1 DEF RightVector

\* A new matrix leaves the right hand side of a homogeneous constraint alone.
LEMMA KeptVector ==
  ASSUME Context, NEW v, RightVector(v), ~IsUsingLumping, ~Inhomogeneous(coef)
  PROVE  RightVector(FixRightHandSide(Lift(v, AssembledOperator)))
<1>1. v.lifts = <<>> /\ <<>> \o LiftTerms(AssembledOperator.A, AssembledOperator.D, coef) = <<>>
  BY NoLift, Concatenated, Required DEF RightVector
<1>2. Lift(v, AssembledOperator) = v
  BY <1>1 DEF Lift, RightVector
<1> QED
  BY <1>2, FixedVector
-----------------------------------------------------------------------------
(* getSystem *)

\* What a call of getSystem leaves: both parts valid and right.
Complete(b) ==
  /\ SystemInv(b) /\ b.opValid /\ b.rhsValid /\ ~Stale(b)
  /\ RightMatrix(b.op) /\ RightVector(b.rhs)

\* The parts of a system that is put together from checked pieces.
LEMMA Completed ==
  ASSUME Context, NEW b, NEW s, IsSystem(s), NEW op, NEW rhs, NEW type,
         b = [s EXCEPT !.op = op, !.rhs = rhs, !.type = type, !.opValid = TRUE,
                       !.rhsValid = TRUE, !.status = status],
         RightMatrix(op), op.type = type, RightVector(rhs)
  PROVE  Complete(b) /\ b.solValid = s.solValid
<1>1. /\ b.op = op /\ b.rhs = rhs /\ b.type = type
      /\ b.opValid = TRUE /\ b.rhsValid = TRUE /\ b.status = status /\ b.solValid = s.solValid
  BY DEF IsSystem
<1>2. IsSystem(b)
  <2>1. b = [op |-> op, rhs |-> rhs, type |-> type, opValid |-> TRUE, rhsValid |-> TRUE,
             solValid |-> s.solValid, status |-> status, rtol |-> s.rtol]
    BY DEF IsSystem
  <2>2. s.solValid \in BOOLEAN /\ status \in 0 .. status
    BY DEF IsSystem, Context, UseInv
  <2> QED
    BY <2>1, <2>2 DEF IsSystem
<1> QED
  BY <1>1, <1>2 DEF Complete, SystemInv, Stale, RightMatrix, RightOperator

\* getSystem leaves operator and right hand side valid and of the present
\* coefficients, and never makes a solution valid that was not.
LEMMA BuiltComplete ==
  ASSUME Context, NEW s, SystemInv(s)
  PROVE  LET b == Built(s) IN Complete(b) /\ (b.solValid => s.solValid /\ ~Stale(s))
<1> DEFINE t == AskOperator(s)
           b == Built(s)
<1>s. IsSystem(s) /\ (s.solValid => s.opValid /\ s.rhsValid)
  BY DEF SystemInv
<1>1. CASE IsOperatorValid(s) /\ IsRightHandSideValid(s)
  <2>1. t = s /\ AskRightHandSide(s) = s /\ ~Stale(s)
    BY <1>1, OperatorAsked DEF AskRightHandSide, IsOperatorValid
  <2>2. b = [s EXCEPT !.status = status]
    BY <1>1, <2>1 DEF Built
  <2>3. b = [s EXCEPT !.op = s.op, !.rhs = s.rhs, !.type = s.type, !.opValid = TRUE,
                      !.rhsValid = TRUE, !.status = status]
    BY <1>1, <2>2, <1>s DEF IsOperatorValid, IsRightHandSideValid, IsSystem
  <2>4. RightMatrix(s.op) /\ s.op.type = s.type /\ RightVector(s.rhs)
    BY <1>1 DEF IsOperatorValid, IsRightHandSideValid, SystemInv
  <2>5. Complete(b) /\ b.solValid = s.solValid
    BY <2>3, <2>4, <1>s, Completed
  <2> QED
    BY <2>1, <2>5
<1>2. CASE IsOperatorValid(s) /\ ~IsRightHandSideValid(s)
  <2>1. t = s /\ AskRightHandSide(s) = s /\ ~Stale(s) /\ s.opValid /\ ~s.rhsValid
    BY <1>2, <1>s, OperatorAsked
       DEF AskRightHandSide, IsOperatorValid, IsRightHandSideValid, IsSystem
  <2>2. IsUsingLumping \/ ~Inhomogeneous(coef)
    BY <2>1, <1>s, Required DEF SystemInv, IsSystem
  <2> DEFINE v == IF coef.q = {} THEN AssembledRightHandSide ELSE FixRightHandSide(AssembledRightHandSide)
  <2>3. RightMatrix(s.op) /\ s.op.type = s.type /\ FixOperator(s.op) = s.op
    BY <2>1, FixedTwice DEF SystemInv
  <2>4. b = [s EXCEPT !.op = s.op, !.rhs = v, !.type = s.type, !.opValid = TRUE,
                      !.rhsValid = TRUE, !.status = status]
    <3>1. CASE IsUsingLumping
      <4>1. BuildLumped(s) = [InsertConstraint(RebuiltRightHandSide(s), FALSE)
                                EXCEPT !.opValid = TRUE, !.rhsValid = TRUE]
        BY <1>2 DEF BuildLumped
      <4>2. b = [BuildLumped(s) EXCEPT !.status = status]
        BY <1>2, <2>1, <3>1 DEF Built
      <4> HIDE DEF b
      <4> QED
        BY <2>1, <2>3, <3>1, <4>1, <4>2, <1>s DEF InsertConstraint, RebuiltRightHandSide, IsSystem
    <3>2. CASE ~IsUsingLumping
      <4>1. BuildMatrix(s) = [InsertConstraint(RebuiltRightHandSide(s), TRUE) EXCEPT !.rhsValid = TRUE]
        BY <1>2 DEF BuildMatrix
      <4>2. b = [BuildMatrix(s) EXCEPT !.status = status]
        BY <1>2, <2>1, <3>2 DEF Built
      <4> HIDE DEF b
      <4> QED
        BY <2>1, <4>1, <4>2, <1>s DEF InsertConstraint, RebuiltRightHandSide, IsSystem
    <3> QED BY <3>1, <3>2
  <2>6. RightVector(v)
    BY <2>2, NewVector
  <2>7. Complete(b) /\ b.solValid = s.solValid
    <3> HIDE DEF b, v
    <3> QED BY <2>3, <2>4, <2>6, <1>s, Completed
  <2> QED
    BY <2>1, <2>7, <1>s
<1>3. CASE ~IsOperatorValid(s)
  <2>1. /\ IsSystem(t) /\ SystemInv(t) /\ SameContent(t, s)
        /\ ~t.opValid /\ ~t.solValid /\ t.rhsValid = s.rhsValid
    BY <1>3, OperatorAsked DEF SystemInv
  <2>2. ~IsOperatorValid(t)
    BY <2>1 DEF IsOperatorValid
  <2>3. b = [(IF IsUsingLumping THEN BuildLumped(t) ELSE BuildMatrix(t)) EXCEPT !.status = status]
    BY <1>3 DEF Built
  <2> DEFINE m == IF coef.q = {} THEN AssembledOperator ELSE FixOperator(AssembledOperator)
  <2>4. RightMatrix(m) /\ m.type = RequiredType
    BY NewMatrix
  <2>5. CASE ~IsRightHandSideValid(t)
    <3> DEFINE v == IF coef.q = {} THEN AssembledRightHandSide
                    ELSE FixRightHandSide(IF IsUsingLumping THEN AssembledRightHandSide
                                          ELSE Lift(AssembledRightHandSide, AssembledOperator))
    <3>1. b = [t EXCEPT !.op = m, !.rhs = v, !.type = RequiredType, !.opValid = TRUE,
                        !.rhsValid = TRUE, !.status = status]
      <4>1. (IF IsUsingLumping THEN BuildLumped(t) ELSE BuildMatrix(t))
              = [InsertConstraint(RebuiltOperator(RebuiltRightHandSide(t)), FALSE)
                   EXCEPT !.opValid = TRUE, !.rhsValid = TRUE]
        <5>1. RebuiltRightHandSide(RebuiltOperator(t)) = RebuiltOperator(RebuiltRightHandSide(t))
          BY <2>1 DEF RebuiltOperator, RebuiltRightHandSide, IsSystem
        <5> QED BY <2>2, <2>5, <5>1 DEF BuildLumped, BuildMatrix
      <4> HIDE DEF b, t
      <4> QED
        BY <2>1, <2>3, <4>1 DEF InsertConstraint, RebuiltOperator, RebuiltRightHandSide, IsSystem
    <3>2. RightVector(v)
      BY NewVector
    <3>3. Complete(b) /\ b.solValid = t.solValid
      <4> HIDE DEF b, v, m, t
      <4> QED BY <3>1, <3>2, <2>4, <2>1, Completed
    <3> QED
      BY <3>3, <2>1
  <2>6. CASE IsRightHandSideValid(t)
    <3>1. ~Stale(t) /\ t.rhsValid /\ RightVector(t.rhs)
      BY <2>1, <2>6 DEF IsRightHandSideValid, SystemInv
    <3>2. IsUsingLumping \/ ~Inhomogeneous(coef)
      BY <2>1, <3>1, Required DEF SystemInv, IsSystem
    <3> DEFINE v == IF coef.q = {} THEN t.rhs
                    ELSE FixRightHandSide(IF IsUsingLumping THEN t.rhs ELSE Lift(t.rhs, AssembledOperator))
    <3>3. b = [t EXCEPT !.op = m, !.rhs = v, !.type = RequiredType, !.opValid = TRUE,
                        !.rhsValid = TRUE, !.status = status]
      <4>1. IsUsingLumping =>
              BuildLumped(t) = [InsertConstraint(RebuiltOperator(t), FALSE)
                                  EXCEPT !.opValid = TRUE, !.rhsValid = TRUE]
        BY <2>2, <2>6 DEF BuildLumped
      <4>2. ~IsUsingLumping =>
              BuildMatrix(t) = [InsertConstraint(RebuiltOperator(t), FALSE) EXCEPT !.opValid = TRUE]
        BY <2>2, <2>6 DEF BuildMatrix
      <4> HIDE DEF b, t
      <4>3. CASE IsUsingLumping
        BY <2>1, <2>3, <3>1, <4>1, <4>3 DEF InsertConstraint, RebuiltOperator, IsSystem
      <4>4. CASE ~IsUsingLumping
        BY <2>1, <2>3, <3>1, <4>2, <4>4 DEF InsertConstraint, RebuiltOperator, IsSystem
      <4> QED BY <4>3, <4>4
    <3>4. RightVector(v)
      BY <3>1, <3>2, KeptVector, FixedVector
    <3>5. Complete(b) /\ b.solValid = t.solValid
      <4> HIDE DEF b, v, m, t
      <4> QED BY <3>3, <3>4, <2>4, <2>1, Completed
    <3> QED
      BY <3>5, <2>1
  <2> QED
    BY <2>5, <2>6
<1> QED
  BY <1>1, <1>2, <1>3
-----------------------------------------------------------------------------
(* setValue *)

\* Which flags survive the announcements of a call of setValue.
LEMMA AnnouncedFlags ==
  ASSUME Context, NEW s, SystemInv(s), NEW names,
         names \cap {"q", "r"} = {} \/ ~IsUsingLumping \/ (~s.opValid /\ ~s.rhsValid)
  PROVE  LET t == Announced(s, names)
         IN /\ IsSystem(t) /\ SameContent(t, s)
            /\ t.solValid => s.solValid /\ t.opValid /\ t.rhsValid
            /\ t.opValid => s.opValid /\ names \cap OperatorNames = {}
            /\ t.rhsValid => s.rhsValid /\ names \cap RightHandSideNames = {}
<1> DEFINE heard == IF IsUsingLumping THEN names \ {"q", "r"} ELSE names
           u == IF heard \cap OperatorNames = {} THEN s ELSE InvalidateOperator(s)
           t == Announced(s, names)
<1>1. t = IF heard \cap RightHandSideNames = {} THEN u ELSE InvalidateRightHandSide(u)
  BY DEF Announced
<1>2. heard = names \/ (~s.opValid /\ ~s.rhsValid)
  OBVIOUS
<1>3. IsSystem(s) /\ (s.solValid => s.opValid /\ s.rhsValid)
  BY DEF SystemInv
<1> HIDE DEF heard
<1>4. /\ IsSystem(u) /\ SameContent(u, s) /\ u.rhsValid = s.rhsValid
      /\ u.solValid => s.solValid /\ u.opValid /\ u.rhsValid
      /\ u.opValid => s.opValid /\ names \cap OperatorNames = {}
  BY <1>2, <1>3, InvalidatedOperator DEF SameContent
<1> HIDE DEF u
<1> QED
  BY <1>1, <1>2, <1>4, InvalidatedRightHandSide DEF SameContent

\* And which survive the whole call, c being the coefficients it leaves.
LEMMA StoredFlags ==
  ASSUME Context, NEW s, SystemInv(s), NEW new, NEW bad, NEW c,
         Applied(new, bad) \cap {"q", "r"} = {} \/ ~IsUsingLumping \/ (~s.opValid /\ ~s.rhsValid)
  PROVE  LET t == Stored(s, new, bad, c)
             names == Applied(new, bad)
         IN /\ IsSystem(t) /\ SameContent(t, s)
            /\ t.solValid => s.solValid /\ t.opValid /\ t.rhsValid
            /\ t.opValid => s.opValid /\ names \cap OperatorNames = {}
            /\ t.rhsValid => s.rhsValid /\ names \cap RightHandSideNames = {}
            /\ bad = NoName /\ ~IsUsingLumping /\ Inhomogeneous(c) => ~t.opValid /\ ~t.rhsValid
<1> DEFINE t == Announced(s, Applied(new, bad))
<1>1. Stored(s, new, bad, c) =
        IF bad = NoName /\ ~IsUsingLumping /\ Inhomogeneous(c)
        THEN InvalidateOperator(InvalidateRightHandSide(t)) ELSE t
  BY DEF Stored, InvalidateSystem
<1>2. /\ IsSystem(t) /\ SameContent(t, s)
      /\ t.solValid => s.solValid /\ t.opValid /\ t.rhsValid
      /\ t.opValid => s.opValid /\ Applied(new, bad) \cap OperatorNames = {}
      /\ t.rhsValid => s.rhsValid /\ Applied(new, bad) \cap RightHandSideNames = {}
  BY AnnouncedFlags
<1>3. CASE bad = NoName /\ ~IsUsingLumping /\ Inhomogeneous(c)
  <2> DEFINE u == InvalidateRightHandSide(t)
             v == InvalidateOperator(u)
  <2>1. IsSystem(u) /\ SameContent(u, t) /\ ~u.rhsValid /\ ~u.solValid
    BY <1>2, InvalidatedRightHandSide
  <2>2. IsSystem(v) /\ SameContent(v, u) /\ ~v.opValid /\ ~v.solValid /\ v.rhsValid = u.rhsValid
    <3> HIDE DEF u
    <3> QED BY <2>1, InvalidatedOperator
  <2>3. Stored(s, new, bad, c) = v
    BY <1>1, <1>3
  <2> HIDE DEF u, v, t
  <2> QED
    BY <1>2, <2>1, <2>2, <2>3 DEF SameContent
<1>4. CASE ~(bad = NoName /\ ~IsUsingLumping /\ Inhomogeneous(c))
  BY <1>1, <1>2, <1>4
<1> QED
  BY <1>3, <1>4
\* setValue, whether it raises or not, keeps the invariant in a program that
\* keeps to SoundUse.
LEMMA StorePreserves ==
  ASSUME Context, SystemInv(sys), SolutionInv, NEW base, NEW new, NEW bad,
         base = coef \/ (base = ResetCoefficients /\ "y" \in Applied(new, bad)),
         use.r = {0} /\ "r" \in DOMAIN new => new["r"] = 0,
         bad = NoName \/ Lumps(use) \/ use.r = {0},
         MaySet(DOMAIN new),
         Store(base, sys, new, bad)
  PROVE  Inv'
<1> DEFINE names == Applied(new, bad)
           c == [n \in Names |-> IF n \in names THEN new[n] ELSE base[n]]
<1>1. coef' = c /\ sys' = Stored(sys, new, bad, c) /\ UNCHANGED <<use, order, status, method, sol>>
  BY DEF Store
<1>2. UseInv'
  BY <1>1 DEF Context, UseInv
<1>3. DOMAIN base = Names /\ (use.r = {0} => base["r"] = 0)
  BY DEF Context, CoefInv, ResetCoefficients, Names
<1>4. CoefInv'
  <2>1. "r" \in names => "r" \in DOMAIN new
    BY DEF Applied
  <2>2. c["r"] = IF "r" \in names THEN new["r"] ELSE base["r"]
    BY DEF Names
  <2> HIDE DEF names
  <2> QED
    BY <1>1, <1>3, <2>1, <2>2 DEF CoefInv
<1>5. /\ IsSystem(sys') /\ SameContent(sys', sys)
      /\ sys'.solValid => sys.solValid /\ sys'.opValid /\ sys'.rhsValid
      /\ sys'.opValid => sys.opValid /\ names \cap OperatorNames = {}
      /\ sys'.rhsValid => sys.rhsValid /\ names \cap RightHandSideNames = {}
      /\ bad = NoName /\ ~IsUsingLumping /\ Inhomogeneous(c) => ~sys'.opValid /\ ~sys'.rhsValid
  <2>1. names \subseteq DOMAIN new
    BY DEF Applied
  <2>2. IsUsingLumping => ~use.late
    BY Required DEF Context, SoundUse, MatrixUse, LumpingUse
  <2>3. names \cap {"q", "r"} = {} \/ ~IsUsingLumping \/ (~sys.opValid /\ ~sys.rhsValid)
    BY <2>1, <2>2 DEF MaySet, SystemInv
  <2> QED BY <1>1, <2>3, StoredFlags
<1>6. ~Lumps(use) /\ Inhomogeneous(coef)' => ~sys'.opValid /\ ~sys'.rhsValid
  BY <1>1, <1>4, <1>5, Required DEF CoefInv, Inhomogeneous
<1>7. names \cap OperatorNames = {} => coef'.A = coef.A /\ coef'.D = coef.D /\ coef'.q = coef.q
  BY <1>1 DEF OperatorNames, Names, ResetCoefficients, Context, CoefInv
<1>8. names \cap RightHandSideNames = {} => coef'.q = coef.q /\ coef'.r = coef.r /\ coef'.y = coef.y
  BY <1>1 DEF RightHandSideNames, Names
<1> HIDE DEF names, c
<1>9. SystemInv(sys)'
  <2>1. IsSystem(sys)'
    BY <1>1, <1>5 DEF IsSystem
  <2>2. sys'.opValid /\ ~Stale(sys)' =>
          RightMatrix(sys.op)' /\ sys'.op.type = sys'.type
    BY <1>1, <1>5, <1>7 DEF SameContent, Stale, SystemInv, RightMatrix, RightOperator
  <2>o. sys'.opValid \/ sys'.rhsValid => sys'.op # Empty
    BY <1>5 DEF SameContent, SystemInv
  <2>3. sys'.rhsValid /\ ~Stale(sys)' => RightVector(sys.rhs)'
    <3> SUFFICES ASSUME sys'.rhsValid, ~Stale(sys)' PROVE RightVector(sys.rhs)'
      OBVIOUS
    <3>1. RightVector(sys.rhs) /\ sys'.rhs = sys.rhs
      BY <1>1, <1>5 DEF SameContent, Stale, SystemInv
    <3>2. /\ Lumps(use) \/ ~Inhomogeneous(coef)'
          /\ coef'.q = coef.q /\ coef'.r = coef.r /\ coef'.y = coef.y
      BY <1>5, <1>6, <1>8
    <3>3. Lifts = <<>> /\ Lifts' = <<>>
      BY <1>1, <3>2 DEF Lifts, LiftTerms, Inhomogeneous
    <3> QED
      BY <1>1, <3>1, <3>2, <3>3 DEF RightVector
  <2>4. ~Stale(sys)' /\ ~Lumps(use)' /\ Inhomogeneous(coef)' => sys'.opValid = sys'.rhsValid
    BY <1>1, <1>6, <2>1 DEF IsSystem
  <2> QED
    BY <1>5, <2>1, <2>2, <2>o, <2>3, <2>4 DEF SystemInv
<1>10. SolutionInv'
  <2> SUFFICES ASSUME sys'.solValid, ~Stale(sys)'
               PROVE  RightMatrix(sol.op)' /\ RightVector(sol.rhs)'
    BY DEF SolutionInv
  <2>1. /\ coef'.A = coef.A /\ coef'.D = coef.D /\ coef'.q = coef.q
        /\ coef'.r = coef.r /\ coef'.y = coef.y
    BY <1>5, <1>7, <1>8
  <2>2. RightMatrix(sol.op) /\ RightVector(sol.rhs)
    BY <1>1, <1>5 DEF SolutionInv, Stale, SameContent
  <2>3. Lifts' = Lifts
    BY <1>1, <2>1 DEF Lifts, LiftTerms, Inhomogeneous
  <2> QED
    BY <1>1, <2>1, <2>2, <2>3 DEF RightMatrix, RightOperator, RightVector
<1> QED
  BY <1>2, <1>4, <1>9, <1>10 DEF Inv
-----------------------------------------------------------------------------
(* The steps. *)

\* The values of r in a call are those of the program.
LEMMA CallsGiveR == \A new \in Calls : "r" \in DOMAIN new => new["r"] \in use.r
<1> SUFFICES ASSUME NEW new \in Calls, "r" \in DOMAIN new PROVE new["r"] \in use.r
  OBVIOUS
<1>1. PICK S \in SUBSET use.sets :
        new \in {[n \in S |-> IF n = "q" THEN m ELSE f[n]] :
                  m \in Masks,
                  f \in {g \in [S \ {"q"} -> Values] : "r" \in S => g["r"] \in use.r}}
  BY DEF Calls
<1>2. PICK m \in Masks, f \in {g \in [S \ {"q"} -> Values] : "r" \in S => g["r"] \in use.r} :
        new = [n \in S |-> IF n = "q" THEN m ELSE f[n]]
  BY <1>1
<1> QED
  BY <1>2

\* A step that replaces the system by one that satisfies the invariant, and
\* marks no solution as valid that was not.
LEMMA SystemStep ==
  ASSUME Context, SolutionInv, NEW s, SystemInv(s),
         s.solValid /\ ~Stale(s) => sys.solValid /\ ~Stale(sys),
         sys' = s, UNCHANGED <<use, coef, order, status, method, sol>>
  PROVE  Inv'
<1>1. UseInv' /\ CoefInv'
  BY DEF Context, UseInv, CoefInv
<1>2. SystemInv(sys)'
  BY DEF SystemInv, IsSystem, Stale, RightMatrix, RightOperator, RightVector, Lifts, LiftTerms,
         Inhomogeneous
<1>3. SolutionInv'
  BY DEF SolutionInv, Stale, RightMatrix, RightOperator, RightVector, Lifts, LiftTerms, Inhomogeneous
<1> QED
  BY <1>1, <1>2, <1>3 DEF Inv

\* A new LinearPDE satisfies the invariant.
LEMMA InvInit ==
  ASSUME \A u \in Uses : SoundUse(u)
  PROVE  Init => Inv
<1> SUFFICES ASSUME Init PROVE Inv
  OBVIOUS
<1>1. UseInv /\ CoefInv
  BY DEF Init, UseInv, CoefInv, Names
<1>2. /\ IsSystem(sys) /\ ~sys.opValid /\ ~sys.rhsValid /\ ~sys.solValid
      /\ sys.opValid = sys.rhsValid
  BY DEF Init, NewSystem, IsSystem
<1>3. SystemInv(sys)
  BY <1>2 DEF SystemInv
<1>4. SolutionInv
  BY <1>2 DEF SolutionInv
<1> QED
  BY <1>1, <1>3, <1>4 DEF Inv

\* Every step of a program that keeps to SoundUse keeps the invariant.
LEMMA InvNext ==
  ASSUME \A u \in Uses : SoundUse(u)
  PROVE  Inv /\ [Next]_vars => Inv'
<1> SUFFICES ASSUME Inv, [Next]_vars PROVE Inv'
  OBVIOUS
<1>c. Context /\ UseInv /\ CoefInv /\ SystemInv(sys) /\ SolutionInv
  BY DEF Inv, Context, UseInv
<1>f. IsSystem(sys) /\ (sys.solValid => sys.opValid /\ sys.rhsValid)
  BY <1>c DEF SystemInv
<1>1. CASE SetValue
  <2>1. PICK new \in Calls : MaySet(DOMAIN new) /\ Store(coef, sys, new, NoName)
    BY <1>1 DEF SetValue
  <2> QED
    BY <1>c, <2>1, CallsGiveR, StorePreserves
<1>2. CASE SetValueRaises
  <2>1. PICK new \in Calls, bad \in Names : MaySet(DOMAIN new) /\ Store(coef, sys, new, bad)
    BY <1>2 DEF SetValueRaises
  <2>2. Lumps(use) \/ use.r = {0}
    BY <1>2, <1>c DEF SetValueRaises, Context, SoundUse, MatrixUse, LumpingUse
  <2> QED
    BY <1>c, <2>1, <2>2, CallsGiveR, StorePreserves
<1>3. CASE ResetRightHandSideCoefficients
  <2>1. ~sys.rhsValid /\ ~sys.solValid
    BY <1>3, <1>c, <1>f DEF ResetRightHandSideCoefficients, Context, SoundUse, IsSystem
  <2>2. /\ coef'.A = coef.A /\ coef'.D = coef.D /\ coef'.q = coef.q /\ coef'.r = 0
        /\ DOMAIN coef' = Names
    BY <1>3, <1>c DEF ResetRightHandSideCoefficients, ResetCoefficients, CoefInv, Names
  <2>3. UNCHANGED <<use, order, status, method, sys, sol>>
    BY <1>3 DEF ResetRightHandSideCoefficients
  <2>4. UseInv' /\ CoefInv' /\ SolutionInv'
    BY <1>c, <2>1, <2>2, <2>3 DEF UseInv, CoefInv, SolutionInv
  <2>5. SystemInv(sys)'
    BY <1>c, <2>1, <2>2, <2>3
       DEF SystemInv, IsSystem, Stale, RightMatrix, RightOperator, Inhomogeneous
  <2> QED
    BY <2>4, <2>5 DEF Inv
<1>4. CASE ResetAndSetValue
  <2>1. PICK v \in Values : Store(ResetCoefficients, sys, [n \in {"y"} |-> v], NoName)
    BY <1>4 DEF ResetAndSetValue
  <2>2. "y" \in Applied([n \in {"y"} |-> v], NoName) /\ "r" \notin DOMAIN [n \in {"y"} |-> v]
    BY DEF Applied
  <2>3. MaySet(DOMAIN [n \in {"y"} |-> v])
    BY DEF MaySet
  <2> QED
    BY <1>c, <2>1, <2>2, <2>3, StorePreserves
<1>5. CASE SetSolverMethod
  <2>1. method' \in use.methods /\ UNCHANGED <<use, coef, order, status, sys, sol>>
    BY <1>5 DEF SetSolverMethod
  <2>2. UseInv' /\ CoefInv' /\ SystemInv(sys)' /\ SolutionInv'
    BY <1>c, <2>1 DEF UseInv, CoefInv, SystemInv, SolutionInv, IsSystem, Stale, RightMatrix,
                      RightOperator, RightVector, Lifts, LiftTerms, Inhomogeneous
  <2> QED
    BY <2>2 DEF Inv
<1>6. CASE SetTolerance
  BY <1>6, <1>c, <1>f DEF SetTolerance, Inv, UseInv, CoefInv, SystemInv, SolutionInv, IsSystem, Stale,
     RightMatrix, RightOperator, RightVector, Lifts, LiftTerms, Inhomogeneous
<1>7. CASE ChangeDomain
  <2>1. status' = status + 1 /\ UNCHANGED <<use, coef, order, method, sys, sol>>
    BY <1>7 DEF ChangeDomain
  <2>2. Stale(sys)' /\ IsSystem(sys)'
    BY <1>c, <1>f, <2>1 DEF Stale, IsSystem, UseInv
  <2> QED
    BY <1>c, <2>1, <2>2 DEF Inv, UseInv, CoefInv, SystemInv, SolutionInv
<1>8. CASE SetReducedOrder
  <2>1. sys' = [NewSystem EXCEPT !.rtol = sys.rtol] /\ UNCHANGED <<use, coef, status, method>>
    BY <1>8 DEF SetReducedOrder
  <2>2. sys' = [op |-> Empty, rhs |-> Empty, type |-> NoType, opValid |-> FALSE, rhsValid |-> FALSE,
                solValid |-> FALSE, status |-> status, rtol |-> sys.rtol]
    BY <2>1 DEF NewSystem
  <2>3. /\ IsSystem(sys)' /\ ~sys'.opValid /\ ~sys'.rhsValid /\ ~sys'.solValid
        /\ sys'.opValid = sys'.rhsValid
    <3>1. status' \in 0 .. status' /\ status' = status
      BY <1>c, <2>1 DEF UseInv
    <3>2. IsSystem(sys)'
      BY <2>2, <3>1 DEF IsSystem
    <3> QED
      BY <2>2, <3>2
  <2> QED
    BY <1>c, <2>1, <2>3 DEF Inv, UseInv, CoefInv, SystemInv, SolutionInv
<1>9. CASE Query
  <2>1. PICK s \in {AskOperator(sys), AskRightHandSide(sys), AskSolution(sys)} : sys' = s
    BY <1>9 DEF Query
  <2>2. SystemInv(s) /\ (s.solValid => sys.solValid) /\ SameContent(s, sys)
    BY <1>c, <2>1, OperatorAsked, RightHandSideAsked, SolutionAsked
  <2>3. UNCHANGED <<use, coef, order, status, method, sol>>
    BY <1>9 DEF Query
  <2> QED
    BY <1>c, <2>1, <2>2, <2>3, SystemStep DEF SameContent, Stale
<1>10. CASE GetSystem
  <2>1. PICK s \in {AskOperator(sys), Built(sys)} :
          sys' = s /\ UNCHANGED <<use, coef, order, status, method, sol>>
    BY <1>10 DEF GetSystem
  <2>2. SystemInv(s) /\ (s.solValid /\ ~Stale(s) => sys.solValid /\ ~Stale(sys))
    BY <1>c, <2>1, BuiltComplete, OperatorAsked DEF Complete, SameContent, Stale
  <2> QED
    BY <1>c, <2>1, <2>2, SystemStep
<1>11. CASE GetSolutionKept
  <2>1. UNCHANGED <<use, coef, order, status, method, sys, sol>>
    BY <1>11 DEF GetSolutionKept, vars
  <2> QED
    BY <1>c, <2>1, SystemStep
<1>12. CASE GetSolutionRaises
  <2> DEFINE a == AskSolution(sys)
  <2>1. SystemInv(a) /\ SameContent(a, sys) /\ (a.solValid => sys.solValid)
    BY <1>c, SolutionAsked
  <2>2. PICK s \in {AskOperator(a), Built(a)} :
          sys' = s /\ UNCHANGED <<use, coef, order, status, method, sol>>
    BY <1>12 DEF GetSolutionRaises
  <2> HIDE DEF a
  <2>3. SystemInv(s) /\ (s.solValid /\ ~Stale(s) => a.solValid /\ ~Stale(a))
    BY <1>c, <2>1, <2>2, BuiltComplete, OperatorAsked DEF Complete, SameContent, Stale
  <2> QED
    BY <1>c, <2>1, <2>2, <2>3, SystemStep DEF SameContent, Stale
<1>13. CASE GetSolutionSolved
  <2> DEFINE a == AskSolution(sys)
             b == Built(a)
  <2>1. SystemInv(a)
    BY <1>c, SolutionAsked
  <2>2. Complete(b)
    <3> HIDE DEF a
    <3> QED BY <1>c, <2>1, BuiltComplete
  <2>3. /\ sol' = [op |-> b.op, rhs |-> b.rhs]
        /\ sys' = [b EXCEPT !.solValid = TRUE, !.rtol = tol]
        /\ UNCHANGED <<use, coef, order, status, method>>
    BY <1>13 DEF GetSolutionSolved
  <2> HIDE DEF b
  <2>4. /\ sys'.op = b.op /\ sys'.rhs = b.rhs /\ sys'.type = b.type /\ sys'.status = b.status
        /\ sys'.opValid = b.opValid /\ sys'.rhsValid = b.rhsValid
    BY <2>2, <2>3 DEF Complete, SystemInv, IsSystem
  <2>5. IsSystem(sys)'
    <3>1. sys' = [op |-> b.op, rhs |-> b.rhs, type |-> b.type, opValid |-> b.opValid,
                  rhsValid |-> b.rhsValid, solValid |-> TRUE, status |-> b.status, rtol |-> tol]
      BY <2>2, <2>3 DEF Complete, SystemInv, IsSystem
    <3>2. b.opValid \in BOOLEAN /\ b.rhsValid \in BOOLEAN /\ b.status \in 0 .. status'
      BY <2>2, <2>3 DEF Complete, SystemInv, IsSystem
    <3> QED
      BY <3>1, <3>2 DEF IsSystem
  <2>6. RightMatrix(sys.op)' /\ RightVector(sys.rhs)' /\ RightMatrix(sol.op)' /\ RightVector(sol.rhs)'
    BY <2>2, <2>3, <2>4 DEF Complete, RightMatrix, RightOperator, RightVector, Lifts, LiftTerms, Inhomogeneous
  <2>7. SystemInv(sys)'
    BY <2>2, <2>3, <2>4, <2>5, <2>6 DEF Complete, SystemInv, Stale, Inhomogeneous
  <2> QED
    BY <1>c, <2>3, <2>6, <2>7 DEF Inv, UseInv, CoefInv, SolutionInv
<1>14. CASE UNCHANGED vars
  <2>1. UNCHANGED <<use, coef, order, status, method, sys, sol>>
    BY <1>14 DEF vars
  <2> QED
    BY <1>c, <2>1, SystemStep
<1> QED
  BY <1>1, <1>2, <1>3, <1>4, <1>5, <1>6, <1>7, <1>8, <1>9, <1>10, <1>11, <1>12, <1>13, <1>14 DEF Next

-----------------------------------------------------------------------------
(* The theorems. *)

\* A matrix and a right hand side that belong to the coefficients belong together.
LEMMA RightPair ==
  ASSUME Context, NEW m, NEW v, RightMatrix(m), RightVector(v)
  PROVE  RightOperator(m) /\ RightRightHandSide(v, m.type)
<1>1. Lumps(use) => m.type = DataType \/ ~Inhomogeneous(coef)
  <2> SUFFICES ASSUME Lumps(use), m.type # DataType PROVE ~Inhomogeneous(coef)
    OBVIOUS
  <2>1. ~(use.methods \subseteq Lumping)
    BY DEF RightMatrix, TypesOf
  <2> QED BY <2>1 DEF Context, CoefInv, SoundUse, MatrixUse, LumpingUse, Inhomogeneous
<1>2. ~Lumps(use) => m.type # DataType
  BY DEF RightMatrix, TypesOf, Context, SoundUse
<1>3. v.lifts = IF m.type = DataType THEN <<>> ELSE LiftTerms(coef.A, coef.D, coef)
  <2>1. v.lifts = IF Lumps(use) THEN <<>> ELSE LiftTerms(coef.A, coef.D, coef)
    BY DEF RightVector, Lifts
  <2>2. m.type = DataType => Lumps(use)
    BY <1>2
  <2>3. ~Inhomogeneous(coef) => LiftTerms(coef.A, coef.D, coef) = <<>>
    BY NoLift
  <2> QED BY <1>1, <2>1, <2>2, <2>3
<1> QED
  BY <1>3 DEF RightMatrix, RightVector, RightRightHandSide

\* Every reachable state satisfies the invariant.
THEOREM Invariant ==
  ASSUME \A u \in Uses : SoundUse(u)
  PROVE  Spec => []Inv
<1>1. Init => Inv
  BY InvInit
<1>2. Inv /\ [Next]_vars => Inv'
  BY InvNext
<1> QED
  BY <1>1, <1>2, PTL DEF Spec

\* The matrix and right hand side getSystem hands out without building them
\* are right: LinearPDE.SystemCurrent for every size.
THEOREM SystemStaysCurrent ==
  ASSUME \A u \in Uses : SoundUse(u)
  PROVE  Spec => []SystemCurrent
<1>1. Inv => SystemCurrent
  <2> SUFFICES ASSUME Inv, IsOperatorValid(sys), IsRightHandSideValid(sys)
               PROVE  RightSystem(sys) /\ (IsUsingLumping => sys.op.lumped = method)
    BY DEF SystemCurrent
  <2>1. /\ RightMatrix(sys.op) /\ RightVector(sys.rhs)
        /\ sys.op.type = RequiredType
    BY DEF Inv, SystemInv, IsOperatorValid, IsRightHandSideValid
  <2>2. Context
    BY DEF Inv, UseInv, Context
  <2>3. IsUsingLumping => sys.op.lumped = method
    <3>1. IsUsingLumping => sys.op.lumped \in use.methods \cap Lumping /\ method \in use.methods \cap Lumping
      BY <2>1, <2>2, Required DEF RightMatrix
    <3>2. \A m, n \in use.methods \cap Lumping : m = n
      BY <2>2 DEF Context, SoundUse, MatrixUse, LumpingUse, Lumps
    <3> QED BY <3>1, <3>2
  <2> QED
    BY <2>1, <2>2, <2>3, RightPair DEF RightSystem
<1> QED
  BY <1>1, Invariant, PTL

\* The solution getSolution hands out without solving is one of the present
\* system: LinearPDE.SolutionCurrent for every size.
THEOREM SolutionStaysCurrent ==
  ASSUME \A u \in Uses : SoundUse(u)
  PROVE  Spec => []SolutionCurrent
<1>1. Inv => SolutionCurrent
  <2> SUFFICES ASSUME Inv, IsSolutionValid(sys) PROVE RightSystem(sol)
    BY DEF SolutionCurrent
  <2>1. RightMatrix(sol.op) /\ RightVector(sol.rhs)
    BY DEF Inv, SolutionInv, IsSolutionValid
  <2>2. Context
    BY DEF Inv, UseInv, Context
  <2> QED
    BY <2>1, <2>2, RightPair DEF RightSystem
<1> QED
  BY <1>1, Invariant, PTL
=============================================================================
