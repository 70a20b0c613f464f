------------------------------- MODULE Status -------------------------------
(***************************************************************************)
(* Status (src/status/status.{h,cpp}): the result of an operation, handed  *)
(* around by value.  OK is a null pointer; an error is a buffer of its own *)
(* with a code and a message, owned through a unique_ptr.                  *)
(*                                                                         *)
(* A few objects are constructed, copied, moved, assigned and destroyed in *)
(* any order.  The bytes of a message, its 16-bit size and the formatting  *)
(* are left out.                                                           *)
(***************************************************************************)
CONSTANTS
    Objects,     \* Status objects
    Codes,       \* the codes a generator exists for
    Messages,
    Null,        \* the null pointer
    Nowhere,     \* an object that is not constructed
    Unspecified  \* the value of an object that has been moved from

Errors == [code : Codes, message : Messages]

VARIABLES
    state,    \* what m_state of each object points to, Null or Nowhere
    meant     \* history: the value each object was last given

vars == <<state, meant>>

Live == {o \in Objects : state[o] # Nowhere}

Init ==
    /\ state = [o \in Objects |-> Nowhere]
    /\ meant = [o \in Objects |-> Unspecified]

\* Two unique_ptrs are equal if they are one, or if both are null: no buffer
\* has two owners.
SamePointer(o, p) == o = p \/ (state[o] = Null /\ state[p] = Null)

-----------------------------------------------------------------------------

\* Status() and OK().
Construct(o) ==
    /\ o \notin Live
    /\ state' = [state EXCEPT ![o] = Null]
    /\ meant' = [meant EXCEPT ![o] = Null]

\* Error(), NoSuchFile(), NotSupported().
Generate(o, error) ==
    /\ o \notin Live
    /\ state' = [state EXCEPT ![o] = error]
    /\ meant' = [meant EXCEPT ![o] = error]

CopyConstruct(o, p) ==
    /\ o \notin Live
    /\ p \in Live
    /\ state' = [state EXCEPT ![o] = state[p]]
    /\ meant' = [meant EXCEPT ![o] = meant[p]]

MoveConstruct(o, p) ==
    /\ o \notin Live
    /\ p \in Live
    /\ state' = [state EXCEPT ![o] = state[p], ![p] = Null]
    /\ meant' = [meant EXCEPT ![o] = meant[p], ![p] = Unspecified]

\* operator=(const Status&) copies the other's state if the pointers are
\* equal, and does nothing otherwise.
CopyAssign(o, p) ==
    /\ {o, p} \subseteq Live
    /\ state' = IF SamePointer(o, p) THEN [state EXCEPT ![o] = state[p]] ELSE state
    /\ meant' = [meant EXCEPT ![o] = meant[p]]

\* operator=(Status&&) takes the other's state if the pointers differ.
MoveAssign(o, p) ==
    /\ {o, p} \subseteq Live
    /\ IF SamePointer(o, p)
       THEN UNCHANGED state
       ELSE state' = [state EXCEPT ![o] = state[p], ![p] = Null]
    /\ meant' = IF o = p THEN meant
                ELSE [meant EXCEPT ![o] = meant[p], ![p] = Unspecified]

Destroy(o) ==
    /\ o \in Live
    /\ state' = [state EXCEPT ![o] = Nowhere]
    /\ meant' = [meant EXCEPT ![o] = Unspecified]

Next ==
    \E o \in Objects :
        \/ Construct(o)
        \/ \E error \in Errors : Generate(o, error)
        \/ \E p \in Objects :
              \/ CopyConstruct(o, p)
              \/ MoveConstruct(o, p)
              \/ CopyAssign(o, p)
              \/ MoveAssign(o, p)
        \/ Destroy(o)

Spec == Init /\ [][Next]_vars

-----------------------------------------------------------------------------
(* Properties.                                                             *)

\* A Status is "modeled on the one from levelDB" with "support on move
\* semantics" (status.h:4-5): an object has the value it was last given, by
\* construction, copy, move or assignment, unless it has been moved from.
HasTheValueGiven ==
    \A o \in Live : meant[o] # Unspecified => state[o] = meant[o]

=============================================================================
