------------------------------ MODULE SqlArgs ------------------------------
(***************************************************************************)
(* The arguments of a statement on their way to the driver: FormatIn and   *)
(* FormatMark (com_model.go) make the list and the marks of an IN clause,  *)
(* getFlatParams (framework/model/db.go) flattens whatever rawSet is given *)
(* before it hands it to database/sql, which wants one argument per mark.  *)
(*                                                                         *)
(* A value keeps its reflect.Kind and what it holds.  Numbers, strings,    *)
(* booleans and times are scalars: getFlatParams only widens their type.   *)
(***************************************************************************)
EXTENDS Integers, Sequences, SequencesExt

CONSTANTS MaxArgs   \* bound: arguments of one statement

ASSUME ArgsAssumption == MaxArgs \in Nat

Scalar(x) == [kind |-> "scalar", of |-> x]
NilArg      == [kind |-> "nil", of |-> << >>]
Bytes(s)  == [kind |-> "bytes", of |-> s]       \* a slice of scalars
Slice(s)  == [kind |-> "slice", of |-> s]
Ptr(s)    == [kind |-> "ptr", of |-> s]         \* << >> is the nil pointer
Struct    == [kind |-> "struct", of |-> << >>]  \* no time, not a model

Two      == <<Scalar(1), Scalar(2)>>
Elements == {Scalar(1), Scalar(2), NilArg, Bytes(Two), Ptr(<<Scalar(3)>>), Ptr(<< >>)}

ArgValues ==
    Elements \cup {Bytes(<< >>), Struct, Ptr(<<Bytes(Two)>>), Ptr(<<Slice(Two)>>)}
             \cup {Slice(s) : s \in UNION {[1 .. n -> Elements] : n \in 0 .. 2}}

VARIABLES
    args,       \* what the caller has
    formatted,  \* whether it passes them through FormatIn
    todo,       \* what getFlatParams has still to look at
    params,     \* what it has made of the rest
    outcome     \* "flattening", "sent" or "panic"

argsVars == <<args, formatted, todo, params, outcome>>

Sliced(v) == v.kind \in {"slice", "bytes"}

\* Mutant: the slice itself goes on, for getFlatParams to take apart.
FormatInWhole(list) == list

\* FormatIn takes every slice apart, a []byte too.
FormatIn(list) ==
    FlattenSeq([i \in 1 .. Len(list) |-> IF Sliced(list[i]) THEN list[i].of ELSE <<list[i]>>])

\* FormatMark, and the one "?" written for an argument that is no slice.
FormatMark(v) == IF Sliced(v) THEN Len(v.of) ELSE 1

ArgsInit ==
    /\ args \in UNION {[1 .. n -> ArgValues] : n \in 0 .. MaxArgs}
    /\ formatted \in BOOLEAN
    /\ todo = IF formatted THEN FormatIn(args) ELSE args
    /\ params = << >> /\ outcome = "flattening"

-----------------------------------------------------------------------------
(* getFlatParams, one value a step; its recursion is the front of `todo`.  *)

Facing(kinds) == outcome = "flattening" /\ todo # << >> /\ Head(todo).kind \in kinds

Keep ==
    /\ Facing({"scalar", "nil"})
    /\ params' = Append(params, Head(todo)) /\ todo' = Tail(todo)
    /\ UNCHANGED <<args, formatted, outcome>>

\* A pointer is followed once; reflect panics at what a nil one points to.
Follow ==
    /\ Facing({"ptr"})
    /\ IF Head(todo).of = << >> THEN outcome' = "panic" /\ UNCHANGED todo
       ELSE todo' = Head(todo).of \o Tail(todo) /\ UNCHANGED outcome
    /\ UNCHANGED <<args, formatted, params>>

\* A []byte is left out.
SkipBytes ==
    /\ Facing({"bytes"})
    /\ todo' = Tail(todo)
    /\ UNCHANGED <<args, formatted, params, outcome>>

\* The loop over the elements of a slice: a nil is left out.
NotNil(list) ==
    LET kept[n \in 0 .. Len(list)] ==
            IF n = 0 THEN << >>
            ELSE IF list[n] = NilArg THEN kept[n - 1] ELSE Append(kept[n - 1], list[n])
    IN  kept[Len(list)]

Flatten ==
    /\ Facing({"slice"})
    /\ todo' = NotNil(Head(todo).of) \o Tail(todo)
    /\ UNCHANGED <<args, formatted, params, outcome>>

UnknownStruct ==
    /\ Facing({"struct"})
    /\ outcome' = "panic"
    /\ UNCHANGED <<args, formatted, todo, params>>

\* rawSet.Exec, QueryRow, QueryRows: the statement goes to database/sql.
Sends ==
    /\ outcome = "flattening" /\ todo = << >>
    /\ outcome' = "sent"
    /\ UNCHANGED <<args, formatted, todo, params>>

ArgsNext == Keep \/ Follow \/ SkipBytes \/ Flatten \/ UnknownStruct \/ Sends

ArgsSpec == ArgsInit /\ [][ArgsNext]_argsVars

-----------------------------------------------------------------------------
Plain(v) == v.kind \in {"scalar", "nil"} \/ (v.kind = "ptr" /\ v.of = <<Scalar(3)>>)

\* The arguments a caller may use: FormatIn saves a []byte and a nil in a list.
Usable(v) ==
    \/ Plain(v)
    \/ v.kind = "bytes" /\ formatted
    \/ v.kind = "slice" /\ \A i \in 1 .. Len(v.of) :
                              Plain(v.of[i]) /\ (v.of[i] # NilArg \/ formatted)

Leaf(v)   == IF v.kind = "ptr" THEN v.of[1] ELSE v
Leaves(v) == IF Sliced(v) THEN [i \in 1 .. Len(v.of) |-> Leaf(v.of[i])] ELSE <<Leaf(v)>>

\* A statement whose marks were made with FormatMark is sent with one argument
\* for each mark and in their order, although getFlatParams drops values: an
\* argument too few is an error of the driver, one shifted a wrong query.
MarksMatchArgs ==
    (outcome # "flattening" /\ \A i \in 1 .. Len(args) : Usable(args[i])) =>
        /\ outcome = "sent"
        /\ \A i \in 1 .. Len(args) : Len(Leaves(args[i])) = FormatMark(args[i])
        /\ params = FlattenSeq([i \in 1 .. Len(args) |-> Leaves(args[i])])
=============================================================================
