-------------------------- MODULE ErrorDescription --------------------------
(***************************************************************************)
(* PDmtErrorDescription (src/engine/dmlib/api/native/dmtErrorDescription   *)
(* .hpp): an error code and its text.  The natives of DMTreeManager.cc use *)
(* one static instance, e, in two ways: "(e = status) != NULL" tests the   *)
(* pointer operator= returns, and "e != NULL" compares the stored code     *)
(* with 0.  A descriptor is a record [code, text]; a code is an integer    *)
(* from a small set and the texts are the three the class can hold.       *)
(***************************************************************************)
EXTENDS Integers

CONSTANTS
    ErrCodes,       \* status codes engine calls may return, 0 included
    GarbageCodes    \* values an uninitialised int may hold

SuccessText == "Success."
ReferText == "Refer error code for more information."
MsgText == "msg"                        \* any caller-supplied DMString

\* PDmtErrorDescription(): code 0, text "Success.".
DefaultDesc == [code |-> 0, text |-> SuccessText]

\* PDmtErrorDescription(int nError).
CodeDesc(nError) == [code |-> nError, text |-> ReferText]

\* PDmtErrorDescription(DMString msg): m_nErrorCode is never written, so
\* it holds whatever the object's storage held (any g in GarbageCodes).
MsgDescs == {[code |-> g, text |-> MsgText] : g \in GarbageCodes}

\* SetErrorCode(nError).
SetErrorCode(d, nError) == [code |-> nError, text |-> ReferText]

\* Fault a property must catch: operator=(0) returning NULL but leaving the
\* previous error code in place.
AssignNoReset(d, s) ==
    IF s # 0 THEN [desc |-> SetErrorCode(d, s), isNull |-> FALSE]
    ELSE [desc |-> d, isNull |-> TRUE]

\* operator=(int s): the descriptor after the assignment and whether the
\* returned pointer is NULL.
Assign(d, s) ==
    IF s # 0 THEN [desc |-> SetErrorCode(d, s), isNull |-> FALSE]
    ELSE [desc |-> SetErrorCode(d, 0), isNull |-> TRUE]

\* operator!=(void* p) with p = NULL: the code compared with (intptr_t)0.
NotNull(d) == d.code # 0

\* operator==(void* p) with p = NULL.
IsNull(d) == d.code = 0

(***************************************************************************)
(* One descriptor object and the operations the class offers on it.        *)
(***************************************************************************)
VARIABLE e

\* Every constructor, SetErrorCode and operator= are the ways e changes.
Construct ==
    \/ e' = DefaultDesc
    \/ \E n \in ErrCodes : e' = CodeDesc(n)
    \/ \E d \in MsgDescs : e' = d

SetCode == \E n \in ErrCodes : e' = SetErrorCode(e, n)

AssignCode == \E s \in ErrCodes : e' = Assign(e, s).desc

Init == e = DefaultDesc

Next == Construct \/ SetCode \/ AssignCode

Spec == Init /\ [][Next]_e

\* Spec 3 (Error Descriptor): code 0 always denotes success.  A descriptor
\* built from an error message (the DMString constructor) must therefore
\* not compare equal to NULL, the test the natives use for success.
MessageIsError == e.text = MsgText => NotNull(e)

=============================================================================
