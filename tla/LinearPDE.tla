------------------------------ MODULE LinearPDE ------------------------------
(***************************************************************************)
(* escriptcore/py_src/linearPDEs.py: how a LinearPDE decides which of the  *)
(* matrix, the right hand side and the solution it keeps and which of them *)
(* it rebuilds.  Three validity flags, the domain status of the last       *)
(* build, the matrix type of the last build and the tolerance of the last  *)
(* solve take part in the decision; coefficients, solver options and the   *)
(* domain change between any two calls.                                    *)
(*                                                                         *)
(* The content of a matrix or a right hand side is the record of what it   *)
(* was assembled from: the values of the coefficients, the domain status   *)
(* and the order of the approximation, the rows replaced by constraints    *)
(* and the terms matrix * r subtracted for them.  Two equal records are    *)
(* equal vectors.  One coefficient stands for each way a coefficient is    *)
(* used: A (matrix, illegal under lumping), D (matrix), y (right hand      *)
(* side), the mask q (both) and the prescribed value r (right hand side).  *)
(* Values are small numbers, 0 is the empty coefficient.                   *)
(***************************************************************************)
EXTENDS Naturals, Sequences, FiniteSets

CONSTANTS
  Nodes,        \* degrees of freedom a mask can select
  Masks,        \* the values of q: subsets of Nodes, {} for none
  Values,       \* the values of A, D, y and r, 0 among them
  Lumping,      \* the solver methods that lump the matrix
  Uses,         \* ways to use a PDE, see below
  MaxStatus,    \* bound: the domain changes at most this often
  MaxSet,       \* bound: coefficients a call of setValue changes
  MaxLift       \* bound: subtractions told apart in one right hand side

ASSUME ValuesAssumption == Values \subseteq Nat /\ 0 \in Values
ASSUME MasksAssumption == Masks \subseteq SUBSET Nodes /\ {} \in Masks
ASSUME BoundsAssumption == MaxStatus \in Nat /\ MaxSet \in Nat /\ MaxLift \in Nat \ {0}

VARIABLES
  use,      \* what the program around the PDE does, chosen once
  coef,     \* __COEFFICIENTS
  altered,  \* __altered_coefficients
  order,    \* the sides, equation and solution, of reduced order
  status,   \* the domain's status
  method,   \* the solver options' method
  tol,      \* the solver options' tolerance
  sys,      \* matrix and right hand side, their flags, type and status
  sol       \* __solution: what it was solved from

vars == <<use, coef, altered, order, status, method, tol, sys, sol>>

Names == {"A", "D", "q", "r", "y"}
OperatorNames == {"A", "D", "q"}        \* isAlteringOperator
RightHandSideNames == {"q", "r", "y"}   \* isAlteringRightHandSide
Rank == [A |-> 1, D |-> 2, q |-> 3, r |-> 4, y |-> 5]   \* the order of sorted()

NoName == "none"
NoType == "none"
Empty == [type |-> NoType]    \* escore.Operator(), escore.Data()
NoSolution == [op |-> Empty, rhs |-> Empty]
DataType == "__ESCRIPT_DATA"
Sides == {"equation", "solution"}
Infinite == 1000    \* __solution_rtol before a first solve: looser than any tolerance
Tolerances == {1, 2}

(***************************************************************************)
(* A use: the methods the program switches between, the coefficients it    *)
(* sets, the values it gives r, the sides it may reduce, whether a call of *)
(* setValue may raise half way, whether q and r may change after the first *)
(* system was built, and whether the coefficients of the right hand side   *)
(* may be reset without a new one being set: a record with the fields      *)
(* methods, sets, r, reduce, raises, late and bareReset.                   *)
(***************************************************************************)

IsUsingLumping == method \in Lumping

\* A matrix method is named by the matrix type it asks the domain for.
RequiredType == IF IsUsingLumping THEN DataType ELSE method

\* util.Lsup(q*r) > 0
Inhomogeneous(c) == c.q # {} /\ c.r # 0

\* The term matrix * u a constraint adds to the right hand side, if it is not 0.
LiftTerms(A, D, c) ==
  IF Inhomogeneous(c) /\ (A # 0 \/ D # 0)
  THEN <<[A |-> A, D |-> D, q |-> c.q, r |-> c.r]>> ELSE <<>>

-----------------------------------------------------------------------------
(* The flags. *)

InvalidateOperator(s) == [s EXCEPT !.opValid = FALSE, !.solValid = FALSE]
InvalidateRightHandSide(s) == [s EXCEPT !.rhsValid = FALSE, !.solValid = FALSE]
InvalidateSystem(s) == InvalidateOperator(InvalidateRightHandSide(s))

Stale(s) == s.status # status

IsOperatorValid(s) == s.opValid /\ ~Stale(s) /\ s.type = RequiredType
IsRightHandSideValid(s) == s.rhsValid /\ ~Stale(s)

\* Fault: the status of the domain is not compared.
IsSolutionValidAnyStatus(s) == s.solValid /\ s.rtol <= tol

IsSolutionValid(s) == s.solValid /\ ~Stale(s) /\ s.rtol <= tol

\* A query that finds something invalid clears the flags.
AskOperator(s) == IF IsOperatorValid(s) THEN s ELSE InvalidateOperator(s)
AskRightHandSide(s) == IF Stale(s) THEN InvalidateRightHandSide(s) ELSE s
AskSolution(s) == IF IsSolutionValid(s) THEN s ELSE [s EXCEPT !.solValid = FALSE]

NewSystem == [op |-> Empty, rhs |-> Empty, type |-> NoType, opValid |-> FALSE,
              rhsValid |-> FALSE, solValid |-> FALSE, status |-> status, rtol |-> Infinite]

-----------------------------------------------------------------------------
(* Assembly. *)

\* What addPDEToSystem puts into a matrix that was set to zero.
AssembledOperator ==
  [type |-> RequiredType, lumped |-> IF IsUsingLumping THEN method ELSE NoName,
   A |-> coef.A, D |-> coef.D, status |-> status, order |-> order, fixed |-> {}]

AssembledRightHandSide ==
  [type |-> "vector", y |-> coef.y, status |-> status, order |-> order, lifts |-> <<>>,
   at |-> [n \in {} |-> 0]]

\* righthandside -= operator * u, where u is r on the mask and 0 elsewhere
Lift(rhs, op) ==
  [rhs EXCEPT !.lifts = IF Len(@) < MaxLift THEN @ \o LiftTerms(op.A, op.D, coef) ELSE @]

\* righthandside.copyWithMask(r, q)
FixRightHandSide(rhs) ==
  [rhs EXCEPT !.at = [n \in DOMAIN @ \cup coef.q |-> IF n \in coef.q THEN coef.r ELSE @[n]]]

\* nullifyRowsAndCols, or copyWithMask(1, q) of a lumped matrix
FixOperator(op) == [op EXCEPT !.fixed = @ \cup coef.q]

\* Fault: the constraint is not moved to the right hand side.
InsertConstraintNoLift(s, rhsOnly) ==
  IF coef.q = {} THEN s
  ELSE [s EXCEPT !.op = IF rhsOnly THEN @ ELSE FixOperator(@),
                 !.rhs = FixRightHandSide(@)]

InsertConstraint(s, rhsOnly) ==
  IF coef.q = {} THEN s
  ELSE [s EXCEPT !.op = IF rhsOnly THEN @ ELSE FixOperator(@),
                 !.rhs = FixRightHandSide(IF rhsOnly \/ IsUsingLumping THEN @
                                          ELSE Lift(@, s.op))]

-----------------------------------------------------------------------------
(* getSystem *)

\* A lumped matrix wants the same order on both sides and no A; the matrix of
\* another method is no Data object and has no setToZero.
LumpingRaises ==
  /\ IsUsingLumping
  /\ ~IsOperatorValid(sys)
  /\ \/ order \notin {{}, Sides}
     \/ coef.A # 0
     \/ sys.type \notin {NoType, DataType}

RebuiltOperator(s) == [s EXCEPT !.op = AssembledOperator, !.type = RequiredType]
RebuiltRightHandSide(s) == [s EXCEPT !.rhs = AssembledRightHandSide]

BuildLumped(s) ==
  LET a == IF IsOperatorValid(s) THEN s ELSE RebuiltOperator(s)
      b == IF IsRightHandSideValid(s) THEN a ELSE RebuiltRightHandSide(a)
  IN [InsertConstraint(b, FALSE) EXCEPT !.opValid = TRUE, !.rhsValid = TRUE]

BuildMatrix(s) ==
  CASE ~IsOperatorValid(s) /\ ~IsRightHandSideValid(s) ->
         [InsertConstraint(RebuiltOperator(RebuiltRightHandSide(s)), FALSE)
            EXCEPT !.opValid = TRUE, !.rhsValid = TRUE]
    [] IsOperatorValid(s) /\ ~IsRightHandSideValid(s) ->
         [InsertConstraint(RebuiltRightHandSide(s), TRUE) EXCEPT !.rhsValid = TRUE]
    [] OTHER -> [InsertConstraint(RebuiltOperator(s), FALSE) EXCEPT !.opValid = TRUE]

\* The system after a call of getSystem that does not raise.
Built(s) ==
  LET t == AskOperator(s)
      u == IF IsOperatorValid(s) THEN AskRightHandSide(t) ELSE t
      b == IF IsOperatorValid(s) /\ IsRightHandSideValid(s) THEN u
           ELSE IF IsUsingLumping THEN BuildLumped(u) ELSE BuildMatrix(u)
  IN [b EXCEPT !.status = status]

-----------------------------------------------------------------------------
Init ==
  /\ use \in Uses
  /\ coef = [n \in Names |-> IF n = "q" THEN {} ELSE 0]
  /\ altered = FALSE
  /\ order = {}
  /\ status = 0
  /\ method \in use.methods
  /\ tol = 2
  /\ sys = NewSystem
  /\ sol = NoSolution

(***************************************************************************)
(* setValue: the coefficients are stored and announced in the order of     *)
(* their names.  An illegal one, bad, raises: those before it stay, and    *)
(* what follows the loop, the check for an inhomogeneous constraint        *)
(* included, does not happen.                                              *)
(***************************************************************************)
Applied(new, bad) ==
  {n \in DOMAIN new : bad = NoName \/ (bad \in Names /\ Rank[n] < Rank[bad])}

Announced(s, names) ==
  LET heard == IF IsUsingLumping THEN names \ {"q", "r"} ELSE names
      t == IF heard \cap OperatorNames = {} THEN s ELSE InvalidateOperator(s)
  IN IF heard \cap RightHandSideNames = {} THEN t ELSE InvalidateRightHandSide(t)

Stored(s, new, bad, c) ==
  LET t == Announced(s, Applied(new, bad))
  IN IF bad = NoName /\ ~IsUsingLumping /\ Inhomogeneous(c) THEN InvalidateSystem(t) ELSE t

\* One call of setValue from coefficients base and system s.
Store(base, s, new, bad) ==
  LET c == [n \in Names |-> IF n \in Applied(new, bad) THEN new[n] ELSE base[n]]
  IN /\ coef' = c
     /\ altered' = (altered \/ bad = NoName)
     /\ sys' = Stored(s, new, bad, c)
     /\ UNCHANGED <<use, order, status, method, tol, sol>>

\* q and r of a use that is not late are set before the first build.
MaySet(names) == use.late \/ sys.op = Empty \/ names \cap {"q", "r"} = {}

\* The calls of setValue that change at most MaxSet coefficients.
Calls ==
  UNION {{[n \in S |-> IF n = "q" THEN m ELSE f[n]] :
            m \in Masks,
            f \in {g \in [S \ {"q"} -> Values] : "r" \in S => g["r"] \in use.r}} :
           S \in {T \in SUBSET use.sets : T # {} /\ Cardinality(T) <= MaxSet}}

SetValue ==
  \E new \in Calls :
    /\ MaySet(DOMAIN new)
    /\ Store(coef, sys, new, NoName)

SetValueRaises ==
  /\ use.raises
  /\ \E new \in Calls, bad \in Names \ {"q"} :
       /\ bad \notin DOMAIN new
       /\ MaySet(DOMAIN new)
       /\ Store(coef, sys, new, bad)

\* y and r are emptied.
ResetCoefficients == [coef EXCEPT !["y"] = 0, !["r"] = 0]

\* resetRightHandSideCoefficients announces nothing: the uses without
\* bareReset call it while the right hand side is to be rebuilt anyway.
ResetRightHandSideCoefficients ==
  /\ use.bareReset \/ ~sys.rhsValid
  /\ coef' = ResetCoefficients
  /\ UNCHANGED <<use, altered, order, status, method, tol, sys, sol>>

\* Or they set a coefficient of the right hand side next, as the forward
\* models of downunder do.
ResetAndSetValue ==
  /\ MaySet({"r"})
  /\ \E v \in Values : Store(ResetCoefficients, sys, [n \in {"y"} |-> v], NoName)

\* getSolverOptions().setSolverMethod
SetSolverMethod ==
  /\ method' \in use.methods \ {method}
  /\ UNCHANGED <<use, coef, altered, order, status, tol, sys, sol>>

\* getSolverOptions().setTolerance
SetTolerance ==
  /\ tol' \in Tolerances \ {tol}
  /\ UNCHANGED <<use, coef, altered, order, status, method, sys, sol>>

\* domain.setX and its like: a new status of the domain
ChangeDomain ==
  /\ status < MaxStatus
  /\ status' = status + 1
  /\ UNCHANGED <<use, coef, altered, order, method, tol, sys, sol>>

\* setReducedOrderForEquationOn/Off, setReducedOrderForSolutionOn/Off: both
\* raise once a call of setValue has succeeded.
SetReducedOrder ==
  /\ ~altered
  /\ \E side \in use.reduce :
       order' = IF side \in order THEN order \ {side} ELSE order \cup {side}
  /\ sys' = [NewSystem EXCEPT !.rtol = sys.rtol]
  /\ sol' = NoSolution
  /\ UNCHANGED <<use, coef, altered, status, method, tol>>

\* isOperatorValid, isRightHandSideValid and isSolutionValid from outside
Query ==
  /\ sys' \in {AskOperator(sys), AskRightHandSide(sys), AskSolution(sys)}
  /\ UNCHANGED <<use, coef, altered, order, status, method, tol, sol>>

\* getSystem, getOperator, getRightHandSide
GetSystem ==
  /\ sys' = IF LumpingRaises THEN AskOperator(sys) ELSE Built(sys)
  /\ UNCHANGED <<use, coef, altered, order, status, method, tol, sol>>

\* getSolution returns what it has
GetSolutionKept ==
  /\ IsSolutionValid(sys)
  /\ UNCHANGED vars

\* getSolution raises in getSystem, or because a lumped matrix has a zero entry
GetSolutionRaises ==
  /\ ~IsSolutionValid(sys)
  /\ LET asked == AskSolution(sys)
     IN \/ LumpingRaises /\ sys' = AskOperator(asked)
        \/ /\ ~LumpingRaises
           /\ IsUsingLumping
           /\ Built(asked).op.D = 0 /\ Built(asked).op.fixed # Nodes
           /\ sys' = Built(asked)
  /\ UNCHANGED <<use, coef, altered, order, status, method, tol, sol>>

\* getSolution solves and stores: setSolution
GetSolutionSolved ==
  /\ ~IsSolutionValid(sys)
  /\ ~LumpingRaises
  /\ LET b == Built(AskSolution(sys))
     IN /\ IsUsingLumping => b.op.D # 0 \/ b.op.fixed = Nodes
        /\ sol' = [op |-> b.op, rhs |-> b.rhs]
        /\ sys' = [b EXCEPT !.solValid = TRUE, !.rtol = tol]
  /\ UNCHANGED <<use, coef, altered, order, status, method, tol>>

Next ==
  \/ SetValue \/ SetValueRaises
  \/ ResetRightHandSideCoefficients \/ ResetAndSetValue
  \/ SetSolverMethod \/ SetTolerance \/ ChangeDomain \/ SetReducedOrder
  \/ Query \/ GetSystem
  \/ GetSolutionKept \/ GetSolutionRaises \/ GetSolutionSolved

Spec == Init /\ [][Next]_vars

-----------------------------------------------------------------------------
(* Properties. *)

\* The matrix that belongs to the coefficients, the domain and the order.
RightOperator(op) ==
  /\ op # Empty
  /\ op.A = coef.A /\ op.D = coef.D
  /\ op.status = status /\ op.order = order
  /\ op.fixed = coef.q

\* The right hand side that belongs to them: constrained nodes carry r, and
\* a matrix without their columns needs matrix * r subtracted, once.
RightRightHandSide(rhs, type) ==
  /\ rhs # Empty
  /\ rhs.y = coef.y /\ rhs.status = status /\ rhs.order = order
  /\ rhs.at = [n \in coef.q |-> coef.r]
  /\ rhs.lifts = IF type = DataType THEN <<>> ELSE LiftTerms(coef.A, coef.D, coef)

\* s has the fields op and rhs.
RightSystem(s) == RightOperator(s.op) /\ RightRightHandSide(s.rhs, s.op.type)

\* The solution getSolution would hand out without solving again solves the
\* system of the present coefficients, domain and order, whatever was set,
\* reset, switched, queried or raised since it was computed (linearPDEs.py:1149).
SolutionCurrent == IsSolutionValid(sys) => RightSystem(sol)

\* The matrix and right hand side getSystem would hand out as they are belong
\* to the present coefficients, domain and order, the constraint was moved to
\* the right hand side exactly once, and a lumped matrix was lumped by the
\* present method (linearPDEs.py:1838-2060).
SystemCurrent ==
  IsOperatorValid(sys) /\ IsRightHandSideValid(sys) =>
    RightSystem(sys) /\ (IsUsingLumping => sys.op.lumped = method)
=============================================================================
