---------------------------- MODULE MCDataObject ----------------------------
(* Model-checking instance of DataObject: the three data objects of        *)
(* background_inference_management.py beside classes that exercise the    *)
(* decorator's other branches, and one JTD schema.                         *)
EXTENDS DataObject

Leaf(es) == [enums |-> es, nested |-> <<>>]

(* The data objects of src/caikit/interfaces/runtime/data_model/           *)
(* background_inference_management.py: @dataobject(RUNTIME_PACKAGE) on    *)
(* DataObjectBase dataclasses. Their `state` field refers to the enum      *)
(* data object BackgroundInferenceStatus, which the converter references   *)
(* by its descriptor rather than nesting, so no enum is nested in them.    *)
(* DataObjectBase is not under src/: it is taken, as caikit's metaclass   *)
(* makes it, to turn subclasses into dataclasses without deriving them    *)
(* from DataBase. Were it to derive from DataBase, line 87 of             *)
(* dataobject.py would raise ValueError for all three; DecoratedAsDeclared *)
(* holds of a "database" class either way.                                 *)
BackgroundInferenceDecls ==
    [c \in {"BackgroundInferenceInfoRequest", "BackgroundInferenceJob",
            "BackgroundInferenceStatusResponse"} |->
        [kind |-> "dataclass", parent |-> "caikit.interfaces.runtime.data_model",
         name |-> c, tree |-> Leaf(<<>>)]]

(* A dataclass with an enum Color and a nested message Inner declaring its *)
(* own enum Color (legal in protobuf: the full names differ); a class that *)
(* is not a dataclass; an Enum; a class deriving from DataBase.            *)
OtherDecls ==
    ("Palette" :> [kind |-> "dataclass", parent |-> "app.data_model", name |-> "Palette",
                   tree |-> [enums |-> <<"Color">>,
                             nested |-> <<[name |-> "Inner", node |-> Leaf(<<"Color">>)]>>]])
    @@ ("NotADataclass" :> [kind |-> "plain", parent |-> "app.data_model",
                            name |-> "NotADataclass", tree |-> Leaf(<<>>)])
    @@ ("Color" :> [kind |-> "enum", parent |-> "app", name |-> "Color", tree |-> Leaf(<<>>)])
    @@ ("Derived" :> [kind |-> "database", parent |-> "", name |-> "Derived", tree |-> Leaf(<<>>)])

MCDecl == BackgroundInferenceDecls @@ OtherDecls
MCClasses == DOMAIN MCDecl
MCSchemaTree == [s \in {"s1"} |-> Leaf(<<"Color">>)]
================================================================================
