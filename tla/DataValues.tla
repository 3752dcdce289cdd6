----------------------------- MODULE DataValues -----------------------------
(***************************************************************************)
(* What escriptcore's Data promises a program: every Data object is a      *)
(* variable of its own.  An operation changes the value of the object it   *)
(* is called on and of no other, evaluation may be put off without anyone  *)
(* noticing, and a protected object keeps its value, except that setToZero *)
(* and copyWithMask do not look at the protection.                         *)
(***************************************************************************)
EXTENDS Naturals

CONSTANTS
  Handles,   \* the Data objects of the program
  Samples,   \* the data points of a function space; each has its own tag
  Numbers    \* what the program sets values to

VARIABLES
  value,      \* the value of each object on each sample
  protected   \* the objects under setProtection

valueVars == <<value, protected>>

Update(h, f) == value' = [value EXCEPT ![h] = f] /\ UNCHANGED protected

Zero == [s \in Samples |-> 0]
Plus(f, g) == [s \in Samples |-> f[s] + g[s]]
Masked(f, g, m) == [s \in Samples |-> IF m[s] > 0 THEN g[s] ELSE f[s]]

\* A new object, or one assigned to, takes the value of another.
Rebind(h, g) ==
  /\ value' = [value EXCEPT ![h] = value[g]]
  /\ protected' \in {protected \ {h},
                     IF g \in protected THEN protected \cup {h} ELSE protected \ {h}}

NewSum(h, f, g) ==
  /\ value' = [value EXCEPT ![h] = Plus(value[f], value[g])]
  /\ protected' = protected \ {h}

SetProtection(h) == protected' = protected \cup {h} /\ UNCHANGED value

AddTo(h, g) == h \notin protected /\ Update(h, Plus(value[h], value[g]))
SetSample(h, s, v) == h \notin protected /\ Update(h, [value[h] EXCEPT ![s] = v])
SetAll(h, g) == h \notin protected /\ Update(h, value[g])
SetToZero(h) == Update(h, Zero)
CopyWithMask(h, g, m) == Update(h, Masked(value[h], value[g], value[m]))

Others(h) == \A g \in Handles \ {h} : value'[g] = value[g]

ValuesNext ==
  \E h \in Handles :
    /\ Others(h)
    /\ \/ SetProtection(h) \/ SetToZero(h)
       \/ \E s \in Samples, v \in Numbers : SetSample(h, s, v)
       \/ \E g \in Handles :
            \/ Rebind(h, g) \/ AddTo(h, g) \/ SetAll(h, g)
            \/ \E f \in Handles : NewSum(h, f, g) \/ CopyWithMask(h, g, f)

ValuesInit == value \in [Handles -> [Samples -> Nat]] /\ protected = {}

ValuesSpec == ValuesInit /\ [][ValuesNext]_valueVars
=============================================================================
