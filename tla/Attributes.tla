----------------------------- MODULE Attributes -----------------------------
(***************************************************************************)
(* Attribute objects of Attributes.h.  Every object has a dynamic class  *)
(* (the base Attribute, or one of the ten typedefs of ScalarAttribute /   *)
(* VectorAttribute), the m_Kind its Attribute base holds, and a payload:  *)
(* m_Value for a scalar, m_Vector for a vector, none for a bare           *)
(* Attribute.  Objects live in a few slots; a client constructs, copies,  *)
(* assigns, sets and destroys them.  Payload values are abstracted to a   *)
(* small set; a vector is a sequence of them.                             *)
(*                                                                         *)
(* Attribute is not abstract: its constructor and copy constructor are    *)
(* public, so a client can build a bare Attribute of any Type, and can    *)
(* copy-construct an Attribute from a derived object (slicing).           *)
(* Attribute::operator= is public and not virtual, so a client holding    *)
(* two attributes through Attribute& can assign one to the other: only    *)
(* m_Kind is copied.                                                      *)
(***************************************************************************)
EXTENDS Naturals, Sequences

CONSTANTS
    Slots,              \* places an attribute object can live in
    Classes,            \* the typedefs the client uses
    BareKinds,          \* the Types a client passes to Attribute(Type)
    Vals,               \* payload values; DefaultVal is ValueType()
    DefaultVal,
    MaxVec,             \* bound on the length of an m_Vector
    None                \* an empty slot, and the payload of a bare Attribute

VARIABLES cls, kind, payload

attrVars == <<cls, kind, payload>>

\* The dynamic class of an object built by Attribute's own constructors.
BaseClass == "Attribute"

\* enum Attribute::Type
AttrTypes == {"kFloat", "kInteger", "kString", "kTensor", "kGraph",
              "kFloatVec", "kIntegerVec", "kStringVec", "kTensorVec", "kGraphVec"}

\* The Kind template argument of each typedef.
TemplateKind ==
    [FloatAttr   |-> "kFloat",   IntAttr     |-> "kInteger",
     StringAttr  |-> "kString",  TensorAttr  |-> "kTensor",
     GraphAttr   |-> "kGraph",
     FloatsAttr  |-> "kFloat",   IntsAttr    |-> "kInteger",
     StringsAttr |-> "kString",  TensorsAttr |-> "kTensor",
     GraphsAttr  |-> "kGraph"]

VectorClasses == {"FloatsAttr", "IntsAttr", "StringsAttr", "TensorsAttr", "GraphsAttr"}
IsVector(c) == c \in VectorClasses
IsScalar(c) == c \in DOMAIN TemplateKind \ VectorClasses

Live(o) == cls[o] # None


-----------------------------------------------------------------------------
Init ==
    /\ cls = [o \in Slots |-> None]
    /\ kind = [o \in Slots |-> None]
    /\ payload = [o \in Slots |-> None]

\* The Attribute sub-object's part of a constructor: Attribute(Type) sets
\* m_Kind from its argument, Attribute(const Attribute&) from pCopy.kind().
AttributeCtor(o, k) == kind' = [kind EXCEPT ![o] = k]
AttributeCopy(o, s) == kind' = [kind EXCEPT ![o] = kind[s]]

\* Attribute::operator=: m_Kind = pCopy.kind().
AssignKind(o, s) == kind' = [kind EXCEPT ![o] = kind[s]]

\* Attribute(Type pKind) called by a client: a bare Attribute.
BareConstruct(o, k) ==
    /\ ~Live(o)
    /\ cls' = [cls EXCEPT ![o] = BaseClass]
    /\ AttributeCtor(o, k)
    /\ payload' = [payload EXCEPT ![o] = None]

\* Attribute(const Attribute&) on any live object: the copy is a bare
\* Attribute with the source's kind, its payload sliced off.
SliceCopy(o, s) ==
    /\ ~Live(o) /\ Live(s)
    /\ cls' = [cls EXCEPT ![o] = BaseClass]
    /\ AttributeCopy(o, s)
    /\ payload' = [payload EXCEPT ![o] = None]

\* ScalarAttribute() and ScalarAttribute(const ValueType&):
\* Attribute(Kind), then m_Value() or m_Value(pValue).
ScalarConstruct(o, c, p) ==
    /\ ~Live(o) /\ IsScalar(c)
    /\ cls' = [cls EXCEPT ![o] = c]
    /\ AttributeCtor(o, TemplateKind[c])
    /\ payload' = [payload EXCEPT ![o] = p]

\* VectorAttribute(), VectorAttribute(const VectorType&) and
\* VectorAttribute(VectorType&&): Attribute(Kind), then m_Vector.
VectorConstruct(o, c, p) ==
    /\ ~Live(o) /\ IsVector(c)
    /\ cls' = [cls EXCEPT ![o] = c]
    /\ AttributeCtor(o, TemplateKind[c])
    /\ payload' = [payload EXCEPT ![o] = p]

\* ScalarAttribute(const ScalarAttribute&): the source has the same class;
\* Attribute(pCopy), then m_Value(pCopy.value()).
ScalarCopy(o, s) ==
    /\ ~Live(o) /\ Live(s) /\ IsScalar(cls[s])
    /\ cls' = [cls EXCEPT ![o] = cls[s]]
    /\ AttributeCopy(o, s)
    /\ payload' = [payload EXCEPT ![o] = payload[s]]

\* VectorAttribute(const VectorAttribute&): Attribute(pCopy), then
\* m_Vector(pCopy.vector()).
VectorCopy(o, s) ==
    /\ ~Live(o) /\ Live(s) /\ IsVector(cls[s])
    /\ cls' = [cls EXCEPT ![o] = cls[s]]
    /\ AttributeCopy(o, s)
    /\ payload' = [payload EXCEPT ![o] = payload[s]]

\* ScalarAttribute::operator=: one class; Attribute::operator=(pCopy),
\* then m_Value = pCopy.value().
ScalarAssign(o, s) ==
    /\ Live(o) /\ IsScalar(cls[o]) /\ cls[s] = cls[o]
    /\ AssignKind(o, s)
    /\ payload' = [payload EXCEPT ![o] = payload[s]]
    /\ UNCHANGED cls

\* VectorAttribute::operator=: one class; Attribute::operator=(pCopy),
\* then m_Vector = pCopy.vector().
VectorAssign(o, s) ==
    /\ Live(o) /\ IsVector(cls[o]) /\ cls[s] = cls[o]
    /\ AssignKind(o, s)
    /\ payload' = [payload EXCEPT ![o] = payload[s]]
    /\ UNCHANGED cls

\* Attribute::operator= called through Attribute& (or on two bare
\* Attributes): any two classes, only m_Kind is copied.
BaseAssign(o, s) ==
    /\ Live(o) /\ Live(s)
    /\ AssignKind(o, s)
    /\ UNCHANGED <<cls, payload>>

\* ScalarAttribute::setValue.
SetValue(o, v) ==
    /\ Live(o) /\ IsScalar(cls[o])
    /\ payload' = [payload EXCEPT ![o] = v]
    /\ UNCHANGED <<cls, kind>>

\* VectorAttribute::vector() returns m_Vector by reference; the client
\* appends to it.
PushBack(o, v) ==
    /\ Live(o) /\ IsVector(cls[o])
    /\ Len(payload[o]) < MaxVec
    /\ payload' = [payload EXCEPT ![o] = Append(@, v)]
    /\ UNCHANGED <<cls, kind>>

\* The virtual destructor chain: ~ScalarAttribute / ~VectorAttribute, then
\* ~Attribute; the slot is free again.
Destroy(o) ==
    /\ Live(o)
    /\ cls' = [cls EXCEPT ![o] = None]
    /\ kind' = [kind EXCEPT ![o] = None]
    /\ payload' = [payload EXCEPT ![o] = None]

\* The payloads a constructor can be given: ValueType() or a value for a
\* scalar, an empty or one-element vector for a vector.
InitPayloads(c) ==
    IF IsVector(c) THEN {<<>>} \cup {<<v>> : v \in Vals} ELSE Vals

Next ==
    \/ \E o \in Slots, k \in BareKinds : BareConstruct(o, k)
    \/ \E o \in Slots, c \in Classes : \E p \in InitPayloads(c) :
          ScalarConstruct(o, c, p) \/ VectorConstruct(o, c, p)
    \/ \E o, s \in Slots :
          \/ SliceCopy(o, s) \/ ScalarCopy(o, s) \/ VectorCopy(o, s)
          \/ ScalarAssign(o, s) \/ VectorAssign(o, s) \/ BaseAssign(o, s)
    \/ \E o \in Slots, v \in Vals : SetValue(o, v) \/ PushBack(o, v)
    \/ \E o \in Slots : Destroy(o)

Spec == Init /\ [][Next]_attrVars

-----------------------------------------------------------------------------
\* spec.md 3: once constructed, an attribute's kind is immutable.  For
\* an object of one of the typedef classes (a FloatAttr stays a FloatAttr)
\* m_Kind must keep the typedef's kind whatever is assigned to it.
KindImmutable ==
    [][\A o \in Slots : Live(o) /\ cls[o] \in Classes /\ cls'[o] = cls[o]
                        => kind'[o] = kind[o]]_attrVars
=============================================================================
