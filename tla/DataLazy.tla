------------------------------ MODULE DataLazy ------------------------------
(***************************************************************************)
(* escriptcore/src/Data.cpp and DataLazy.cpp: Data objects share their     *)
(* nodes by reference counts, put sums off in trees of lazy nodes, and     *)
(* write a node in place once nobody else refers to it (exclusiveWrite).   *)
(* A lazy node that is resolved becomes an identity in place, for all who  *)
(* refer to it.                                                            *)
(*                                                                         *)
(* A ready node is constant, tagged or expanded and has a value per        *)
(* sample; every sample has its own tag.  The sum stands for the binary    *)
(* operations.  Data points are scalar and real, so a slice is all of a    *)
(* data point.                                                             *)
(***************************************************************************)
EXTENDS Naturals, FiniteSets, TLC

CONSTANTS
  Handles,         \* the Data objects of the program
  Samples,         \* data points, each with its own tag
  Numbers,         \* what the program sets values to
  Starts,          \* the values and types the objects may start with
  TooManyLevels,   \* TOO_MANY_LEVELS: the height a lazy tree may have
  Cells,           \* names of nodes: more than are ever in use
  MaxCalls         \* bound: calls a program makes

ASSUME BoundsAssumption == TooManyLevels \in Nat /\ MaxCalls \in Nat /\ Cells \subseteq Nat

VARIABLES
  ptr,        \* m_data of each object
  heap,       \* the nodes
  protected,  \* the objects with m_protected
  autoLazy,   \* the AUTOLAZY parameter
  calls       \* calls made

vars == <<ptr, heap, protected, autoLazy, calls>>

Free == [kind |-> "free"]
Ready(type, val) == [kind |-> "ready", type |-> type, val |-> val]

\* A lazy node: IDENTITY over the ready node id, or a sum of two lazy nodes.
\* parts are m_left and m_right; collapse leaves them in place.
Identity(id, type, parts) ==
  [kind |-> "lazy", op |-> "IDENTITY", type |-> type, id |-> id, parts |-> parts, height |-> 0]
Sum(left, right, type, height) ==
  [kind |-> "lazy", op |-> "ADD", type |-> type, id |-> 0, parts |-> <<left, right>>,
   height |-> height]

Wider(t, u) == IF "E" \in {t, u} THEN "E" ELSE IF "T" \in {t, u} THEN "T" ELSE "C"
Larger(m, n) == IF m < n THEN n ELSE m

-----------------------------------------------------------------------------
(* Nodes and who refers to them. *)

PartsOf(n) == {n.parts[i] : i \in DOMAIN n.parts}
RefersTo(n) ==
  CASE n.kind # "lazy" -> {}
    [] n.op = "IDENTITY" -> {n.id} \cup PartsOf(n)
    [] OTHER -> PartsOf(n)

RECURSIVE Live(_, _)
Live(h, cells) ==
  LET more == cells \cup UNION {RefersTo(h[c]) : c \in cells}
  IN IF more = cells THEN cells ELSE Live(h, more)

\* Nodes nobody refers to are deleted.
Collected(h, p) ==
  LET live == Live(h, {p[x] : x \in DOMAIN p}) IN [c \in Cells |-> IF c \in live THEN h[c] ELSE Free]

State(h, p) == [heap |-> Collected(h, p), ptr |-> p]

Holders(s, c) ==
  Cardinality({x \in DOMAIN s.ptr : s.ptr[x] = c})
    + Cardinality({d \in Cells : s.heap[d].kind = "lazy" /\ s.heap[d].op = "IDENTITY"
                                   /\ s.heap[d].id = c})
    + Cardinality({<<d, i>> \in Cells \X {1, 2} :
                     s.heap[d].kind = "lazy" /\ i \in DOMAIN s.heap[d].parts
                       /\ s.heap[d].parts[i] = c})

IsShared(s, x) == Holders(s, s.ptr[x]) > 1

New(h) == CHOOSE c \in Cells : h[c] = Free /\ \A d \in Cells : h[d] = Free => c <= d

\* What the node c stands for, however much of it is still to be computed.
Value(h, c) ==
  LET val[d \in Cells] ==
        IF h[d].kind = "ready" THEN h[d].val
        ELSE IF h[d].op = "IDENTITY" THEN h[h[d].id].val
        ELSE [i \in Samples |-> val[h[d].parts[1]][i] + val[h[d].parts[2]][i]]
  IN val[c]

-----------------------------------------------------------------------------
(* Lazy nodes: what a constructor returns is the heap and the new node. *)

\* A ready operand is wrapped in an identity.
Wrapped(h, c) ==
  IF h[c].kind = "lazy" THEN [heap |-> h, at |-> c]
  ELSE [heap |-> [h EXCEPT ![New(h)] = Identity(c, h[c].type, <<>>)], at |-> New(h)]

\* makeIdentity with the value of the tree, and collapse, which keeps the parts
Evaluated(h, c, parts) ==
  IF h[c].op = "IDENTITY" THEN h
  ELSE [h EXCEPT ![New(h)] = Ready(h[c].type, Value(h, c)),
                 ![c] = Identity(New(h), h[c].type, parts)]
ResolveToIdentity(h, c) == Evaluated(h, c, <<>>)
Collapse(h, c) == IF h[c].type = "E" THEN h ELSE Evaluated(h, c, h[c].parts)

\* Fault: only the left operand's height is looked at.
HeightOfLeft(h, left, right) == h[left].height + 1
HeightOver(h, left, right) == Larger(h[left].height, h[right].height) + 1

\* DataLazy(left, right, ADD): what is not expanded is evaluated at once, and
\* so is a tree that has grown too high (SIZELIMIT).
SizeLimited(h, c) == IF h[c].height > TooManyLevels THEN ResolveToIdentity(h, c) ELSE h
SumNode(h, left, right) ==
  Sum(left, right, Wider(h[left].type, h[right].type), HeightOver(h, left, right))
SumOfLazy(h, left, right) ==
  [heap |-> SizeLimited(Collapse([h EXCEPT ![New(h)] = SumNode(h, left, right)], New(h)), New(h)),
   at |-> New(h)]
SumWith(left, right) ==
  SumOfLazy(Collapse(Collapse(right.heap, left.at), right.at), left.at, right.at)
SumFrom(left, b) == SumWith(left, Wrapped(left.heap, b))
NewSum(h, a, b) == SumFrom(Wrapped(h, a), b)

\* deepCopy: of a sum it copies the parts and builds a sum of the copies.
RECURSIVE DeepCopy(_, _)
DeepCopy(h, c) ==
  IF h[c].kind = "ready" THEN [heap |-> [h EXCEPT ![New(h)] = h[c]], at |-> New(h)]
  ELSE IF h[c].op = "IDENTITY"
  THEN LET copy == DeepCopy(h, h[c].id) IN Wrapped(copy.heap, copy.at)
  ELSE LET l == DeepCopy(h, h[c].parts[1])
           r == DeepCopy(l.heap, h[c].parts[2])
       IN NewSum(r.heap, l.at, r.at)

-----------------------------------------------------------------------------
(* What the methods of Data do to the object x. *)

IsLazy(s, x) == s.heap[s.ptr[x]].kind = "lazy"
Type(s, x) == s.heap[s.ptr[x]].type
Val(s, x) == Value(s.heap, s.ptr[x])

\* set_m_data: x now refers to the node n.at of the heap n.heap.
Refer(s, x, n) == State(n.heap, (x :> n.at) @@ s.ptr)

Resolved(s, x) ==
  IF IsLazy(s, x)
  THEN LET h == ResolveToIdentity(s.heap, s.ptr[x])
       IN Refer(s, x, [heap |-> h, at |-> h[s.ptr[x]].id])
  ELSE s

\* Fault: a node is shared only if another object refers to it.
OwnOfObjects(s, x) ==
  IF \E y \in DOMAIN s.ptr \ {x} : s.ptr[y] = s.ptr[x]
  THEN Refer(s, x, DeepCopy(s.heap, s.ptr[x])) ELSE s

\* exclusiveWrite: of a ready node that is shared x gets a copy.
Own(s, x) == IF IsShared(s, x) THEN Refer(s, x, DeepCopy(s.heap, s.ptr[x])) ELSE s
Exclusive(s, x) == Own(Resolved(s, x), x)

\* A new ready node for x.
Renewed(s, x, type, val) ==
  Refer(s, x, [heap |-> [s.heap EXCEPT ![New(s.heap)] = Ready(type, val)], at |-> New(s.heap)])

\* expand; tag, which raises for expanded data, by then resolved
MadeExpanded(s, x) == IF Type(s, x) = "E" THEN s ELSE Renewed(s, x, "E", Val(s, x))
MadeTagged(s, x) == IF Type(s, x) = "C" THEN Renewed(s, x, "T", Val(s, x)) ELSE s
Expanded(s, x) == MadeExpanded(Resolved(s, x), x)
Tagged(s, x) == MadeTagged(Resolved(s, x), x)

\* A value written in place.
Written(s, x, val) == [s EXCEPT !.heap[s.ptr[x]].val = val]
SampleWritten(s, x, i, v) == Written(s, x, [Val(s, x) EXCEPT ![i] = v])

\* typeMatchRight and typeMatchLeft: x becomes as general as type.
Matched(s, x, type) ==
  IF type = "E" THEN Expanded(s, x) ELSE IF type = "T" THEN Tagged(s, x) ELSE s

\* delaySelf
Delayed(s, x) == Refer(s, x, Wrapped(s.heap, s.ptr[x]))

\* A local object of a method, and the end of those.
With(s, local, c) == [s EXCEPT !.ptr = (local :> c) @@ @]
Returned(s) == State(s.heap, [x \in Handles |-> s.ptr[x]])

-----------------------------------------------------------------------------
\* Every object has a ready node of its own.
Init ==
  /\ autoLazy \in BOOLEAN
  /\ protected = {}
  /\ calls = 0
  /\ \E start \in Starts :
       /\ ptr = [x \in Handles |-> start[x].at]
       /\ heap = [c \in Cells |->
                    IF \E x \in Handles : start[x].at = c
                    THEN LET x == CHOOSE y \in Handles : start[y].at = c
                         IN Ready(start[x].type, start[x].val)
                    ELSE Free]

Now == [heap |-> heap, ptr |-> ptr]
Call == calls < MaxCalls /\ calls' = calls + 1 /\ UNCHANGED autoLazy
Becomes(s) == heap' = s.heap /\ ptr' = [x \in Handles |-> s.ptr[x]]
Renamed(x, isProtected) ==
  protected' = IF isProtected THEN protected \cup {x} ELSE protected \ {x}

\* Data(y), which takes over the protection, or x = y, which does not
Share(x, y) ==
  /\ Call
  /\ Becomes(State(heap, [ptr EXCEPT ![x] = ptr[y]]))
  /\ Renamed(x, y \in protected) \/ Renamed(x, FALSE)

\* x = y.copySelf()
CopySelf(x, y) ==
  /\ Call
  /\ Becomes(Refer(Now, x, DeepCopy(heap, ptr[y])))
  /\ Renamed(x, FALSE)

\* x = y.delay()
Delay(x, y) ==
  /\ Call
  /\ Becomes(Refer(Now, x, Wrapped(heap, ptr[y])))
  /\ Renamed(x, IsLazy(Now, y) /\ y \in protected)

DelaySelf(x) ==
  /\ Call
  /\ Becomes(Delayed(Now, x))
  /\ UNCHANGED protected

\* MAKELAZYBIN: a sum is put off if an operand is lazy, or expanded with AUTOLAZY.
PutsOff(x, y) ==
  \/ IsLazy(Now, x) \/ IsLazy(Now, y)
  \/ autoLazy /\ "E" \in {Type(Now, x), Type(Now, y)}

SumOf(x, y) == [i \in Samples |-> Val(Now, x)[i] + Val(Now, y)[i]]

\* x = y + z
Add(x, y, z) ==
  /\ Call
  /\ Becomes(IF PutsOff(y, z) THEN Refer(Now, x, NewSum(heap, ptr[y], ptr[z]))
             ELSE Renewed(Now, x, Wider(Type(Now, y), Type(Now, z)), SumOf(y, z)))
  /\ Renamed(x, FALSE)

\* x += y
UpdateAdd(x, y) ==
  /\ Call
  /\ x \notin protected
  /\ Becomes(IF PutsOff(x, y) THEN Refer(Now, x, NewSum(heap, ptr[x], ptr[y]))
             ELSE Written(Matched(Exclusive(Now, x), x, Type(Now, y)), x, SumOf(x, y)))
  /\ UNCHANGED protected

\* Fault: the node is set to zero in place, whoever else refers to it.
ZeroedInPlace(s, x) == Written(s, x, [i \in Samples |-> 0])
\* A lazy object gets a new constant, a shared one a zeroed copy.
Zeroed(s, x) ==
  LET zero == [i \in Samples |-> 0]
  IN IF IsLazy(s, x)
     THEN Delayed(Renewed(s, x, "C", zero), x)
     ELSE IF IsShared(s, x) THEN Renewed(s, x, Type(s, x), zero)
     ELSE Written(s, x, zero)

SetToZero(x) ==
  /\ Call
  /\ Becomes(Zeroed(Now, x))
  /\ UNCHANGED protected

\* setTaggedValue: an expanded object changes the samples that have the tag.
SetTaggedValue(x, i, v) ==
  /\ Call
  /\ x \notin protected
  /\ Becomes(SampleWritten(Tagged(Exclusive(Now, x), x), x, i, v))
  /\ UNCHANGED protected

\* setValueOfDataPoint and its kin
SetValueOfDataPoint(x, i, v) ==
  /\ Call
  /\ x \notin protected
  /\ Becomes(SampleWritten(Expanded(Exclusive(Now, x), x), x, i, v))
  /\ UNCHANGED protected

\* x[...] = y: a protected object is made exclusive before it refuses.  The
\* value is resolved, and each is made as general as the other.
AsGeneralAs(s, x, y) == Matched(s, x, Type(s, y))
Replaced(s, x) == Written(s, x, Val(s, "value"))
ItemSet(s, x, y) ==
  Returned(Replaced(AsGeneralAs(AsGeneralAs(Resolved(With(s, "value", s.ptr[y]), "value"),
                                            "value", x), x, "value"), x))
SetItem(x, y) ==
  /\ Call
  /\ Becomes(IF x \in protected THEN Exclusive(Now, x) ELSE ItemSet(Exclusive(Now, x), x, y))
  /\ UNCHANGED protected

\* x.copyWithMask(y, m): the copies other and mask of the arguments are
\* resolved and made as general as x, and x as general as they are.
AllMatched(s, x, type) == Matched(Matched(Matched(s, x, type), "other", type), "mask", type)
MadeAlike(s, x) == AllMatched(s, x, Wider(Type(s, x), Wider(Type(s, "other"), Type(s, "mask"))))
Masked(s, x) ==
  Written(s, x, [i \in Samples |-> IF Val(s, "mask")[i] > 0 THEN Val(s, "other")[i]
                                   ELSE Val(s, x)[i]])
CopyWithMask(x, y, m) ==
  /\ Call
  /\ LET s == Resolved(Resolved(Resolved(With(With(Now, "other", ptr[y]), "mask", ptr[m]),
                                         "other"), "mask"), x)
     IN Becomes(Returned(Masked(Exclusive(MadeAlike(s, x), x), x)))
  /\ UNCHANGED protected

\* resolve, requireWrite, expand, tag
Convert(x) ==
  /\ Call
  /\ \E s \in {Resolved(Now, x), Exclusive(Now, x), Expanded(Now, x), Tagged(Now, x)} : Becomes(s)
  /\ UNCHANGED protected

\* resolveGroup of two objects: both trees are evaluated before either of them
\* becomes an identity.
ResolveGroup(x, y) ==
  /\ Call
  /\ x # y /\ IsLazy(Now, x) /\ IsLazy(Now, y)
  /\ LET s == [Now EXCEPT !.heap = ResolveToIdentity(ResolveToIdentity(@, ptr[x]), ptr[y])]
     IN Becomes(Resolved(Resolved(s, y), x))
  /\ UNCHANGED protected

SetProtection(x) ==
  /\ Call
  /\ Renamed(x, TRUE)
  /\ UNCHANGED <<heap, ptr>>

Finished == calls = MaxCalls /\ UNCHANGED vars

Next ==
  \/ \E x \in Handles : DelaySelf(x) \/ SetToZero(x) \/ Convert(x) \/ SetProtection(x)
  \/ \E x, y \in Handles :
       \/ Share(x, y) \/ CopySelf(x, y) \/ Delay(x, y)
       \/ UpdateAdd(x, y) \/ SetItem(x, y) \/ ResolveGroup(x, y)
  \/ \E x, y, z \in Handles : Add(x, y, z) \/ CopyWithMask(x, y, z)
  \/ \E x \in Handles, i \in Samples, v \in Numbers :
       SetTaggedValue(x, i, v) \/ SetValueOfDataPoint(x, i, v)
  \/ Finished

Spec == Init /\ [][Next]_vars

-----------------------------------------------------------------------------
(* Properties. *)

\* The program cannot tell that objects share nodes, that sums are put off,
\* or in which order trees that have parts in common are resolved: every
\* object is a variable of its own (Data.cpp:61-115, Data.h:1848).
Values == INSTANCE DataValues WITH value <- [x \in Handles |-> Value(heap, ptr[x])]
ImplementsValues == Values!ValuesSpec

\* Evaluating a tree recurses once per level, on every thread's stack: no tree
\* is higher than its node says, or than TOO_MANY_LEVELS, even after parts of
\* it were resolved for another owner or copied (DataLazy.cpp:46-52, 513-606).
Depth(c) ==
  LET depth[d \in Cells] ==
        IF heap[d].op = "IDENTITY" THEN 0
        ELSE 1 + Larger(depth[heap[d].parts[1]], depth[heap[d].parts[2]])
  IN depth[c]
HeightBounded ==
  \A c \in Cells : heap[c].kind = "lazy" =>
    Depth(c) <= heap[c].height /\ heap[c].height <= TooManyLevels
=============================================================================
