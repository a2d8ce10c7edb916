------------------------------ MODULE DataObject ------------------------------
(***************************************************************************)
(* The @dataobject decorator (src/caikit/core/data_model/dataobject.py).   *)
(*                                                                         *)
(* dataobject(...) returns a `decorator` closure over its keyword          *)
(* arguments; applying it to a class generates a protobufs class from the  *)
(* class (or from a JTD schema given as `schema=`), records it in          *)
(* _AUTO_GEN_PROTO_CLASSES, imports every enum of it into the global       *)
(* `enums` module, builds the wrapper class (with its nested message       *)
(* wrappers and nested enum attributes) and attaches the protobufs class   *)
(* to the parent package's `protobufs` module.                             *)
(*                                                                         *)
(* Data is abstracted to what tells decorations apart: a class is a model  *)
(* value with a declaration (kind, parent package, name, descriptor tree), *)
(* a schema a model value with its tree; a generated protobufs class is    *)
(* its index in _AUTO_GEN_PROTO_CLASSES, and a generated enum the triple   *)
(* <<class index, path of nested message names, enum name>>. A tree node   *)
(* is [enums |-> <<name, ...>>, nested |-> <<[name, node], ...>>] in       *)
(* descriptor order.                                                       *)
(*                                                                         *)
(* enums.import_enum is not under src/. The code reads every imported enum *)
(* back by its short descriptor name (getattr(enums, name), line 254), so  *)
(* import_enum is modelled as binding that name in the enums module, the   *)
(* last import of a name winning.                                          *)
(***************************************************************************)
EXTENDS Naturals, Sequences, SequencesExt

CONSTANTS
    Classes,     \* the Python classes a program decorates
    Decl,        \* Decl[c]: [kind, parent, name, tree] of class c
    Schemas,     \* JTD schemas a caller may pass as schema=
    SchemaTree,  \* SchemaTree[s]: the descriptor tree jtd_to_proto builds from s
    EnumNames,   \* enum names occurring in the trees
    Decorators,  \* decorator closures dataobject(...) may return
    MaxApply,    \* bound on the number of decorations
    None

VARIABLES
    deco,      \* deco[d]: whether dataobject(...) made d, and its kwargs' schema
    autogen,   \* _AUTO_GEN_PROTO_CLASSES: the source of each generated class
    enums,     \* the enums module: enum name -> generated enum
    protomod,  \* protomod[p][n]: attribute n of module p + ".protobufs"
    log        \* history: each decoration, what it was declared with and returned

vars == <<deco, autogen, enums, protomod, log>>

Parents == {Decl[c].parent : c \in Classes} \ {""}
Names == {Decl[c].name : c \in Classes}

(***************************************************************************)
(* _get_all_enums: the class's own enums, then those of every nested       *)
(* message, recursively, each paired with the path of message names that  *)
(* leads to it.                                                            *)
(***************************************************************************)
RECURSIVE AllEnums(_, _)
AllEnums(node, path) ==
    FoldLeft(LAMBDA acc, ch : acc \o AllEnums(ch.node, Append(path, ch.name)),
             [i \in 1..Len(node.enums) |-> <<path, node.enums[i]>>],
             node.nested)

(* The loop over _get_all_enums calling enums.import_enum, in order. *)
ImportAll(reg, n, seq) ==
    FoldLeft(LAMBDA r, pe : [r EXCEPT ![pe[2]] = <<n, pe[1], pe[2]>>], reg, seq)

(***************************************************************************)
(* _make_data_model_class: recurse into every nested message and set each  *)
(* nested enum attribute to getattr(enums, name). The result is the set of *)
(* <<path, enum name, value>> attributes of the wrapper and its nested     *)
(* wrappers.                                                               *)
(***************************************************************************)
RECURSIVE WrapperAttrs(_, _, _)
WrapperAttrs(node, path, reg) ==
    {<<path, e, reg[e]>> : e \in ToSet(node.enums)}
    \cup UNION {WrapperAttrs(ch.node, Append(path, ch.name), reg) : ch \in ToSet(node.nested)}

Init ==
    /\ deco = [d \in Decorators |-> [made |-> FALSE, schema |-> None, declared |-> None]]
    /\ autogen = <<>>
    /\ enums = [e \in EnumNames |-> None]
    /\ protomod = [p \in Parents |-> [n \in Names |-> None]]
    /\ log = <<>>

Record(c, declared, outcome, proto, attrs) ==
    log' = Append(log, [cls |-> c, declared |-> declared, outcome |-> outcome,
                        proto |-> proto, attrs |-> attrs])

(***************************************************************************)
(* decorator(cls) with `schema` the schema still in the closure's kwargs   *)
(* and `declared` the one dataobject(...) was called with. The closure's   *)
(* kwargs are handled by the caller (Bare, Apply).                         *)
(***************************************************************************)
Decorate(c, schema, declared) ==
    LET d == Decl[c] IN
    \/ /\ d.kind = "database"                       \* value_check raises ValueError
       /\ Record(c, declared, "ValueError", None, {})
       /\ UNCHANGED <<autogen, enums, protomod>>
    \/ /\ d.kind = "plain" /\ schema = None          \* not a dataclass: TypeError
       /\ Record(c, declared, "TypeError", None, {})
       /\ UNCHANGED <<autogen, enums, protomod>>
    \/ /\ d.kind # "database"
       /\ schema # None \/ d.kind \in {"dataclass", "enum"}
       /\ LET n      == Len(autogen) + 1
              isEnum == schema = None /\ d.kind = "enum"
              tree   == IF schema # None THEN SchemaTree[schema] ELSE d.tree
              reg    == IF isEnum THEN [enums EXCEPT ![d.name] = <<n, <<>>, d.name>>]
                        ELSE ImportAll(enums, n, AllEnums(tree, <<>>))
          IN  /\ autogen' = Append(autogen, IF schema # None THEN schema ELSE c)
              /\ enums' = reg
              /\ protomod' = IF d.parent = "" THEN protomod
                             ELSE [protomod EXCEPT ![d.parent][d.name] = n]
              /\ Record(c, declared, "returned", n,
                        IF isEnum THEN {} ELSE WrapperAttrs(tree, <<>>, reg))

(* `@dataobject` without a call: decorator(cls) at once, with empty kwargs. *)
Bare(c) ==
    /\ Len(log) < MaxApply
    /\ Decorate(c, None, None)
    /\ UNCHANGED deco

(* dataobject(package, schema=s) or dataobject(package): returns decorator. *)
MakeDecorator(d, s) ==
    /\ ~deco[d].made
    /\ deco' = [deco EXCEPT ![d] = [made |-> TRUE, schema |-> s, declared |-> s]]
    /\ UNCHANGED <<autogen, enums, protomod, log>>

(* Applying a decorator: kwargs.pop("schema", None) empties the closure's  *)
(* schema before the branch on it, and the closure outlives the call.      *)
Apply(d, c) ==
    /\ deco[d].made
    /\ Len(log) < MaxApply
    /\ deco' = IF Decl[c].kind = "database" THEN deco   \* raised before the pop
              ELSE [deco EXCEPT ![d].schema = None]
    /\ Decorate(c, deco[d].schema, deco[d].declared)

Next ==
    \/ \E c \in Classes : Bare(c)
    \/ \E d \in Decorators, s \in Schemas \cup {None} : MakeDecorator(d, s)
    \/ \E d \in Decorators, c \in Classes : Apply(d, c)

Spec == Init /\ [][Next]_vars

(***************************************************************************)
(* Properties                                                              *)
(***************************************************************************)

TypeOK ==
    /\ deco \in [Decorators -> [made : BOOLEAN, schema : Schemas \cup {None},
                                declared : Schemas \cup {None}]]
    /\ autogen \in Seq(Schemas \cup Classes)
    /\ \A e \in EnumNames : enums[e] = None \/ enums[e][3] = e
    /\ Len(log) <= MaxApply

(* The class @dataobject returns is the one its declaration describes: its *)
(* protobufs class is generated from the schema given to dataobject(...)   *)
(* (or from the class when none was given), a decorator given a schema     *)
(* never fails for want of a dataclass, and every nested enum attribute of *)
(* the wrapper, at every nesting level, is the enum declared at that       *)
(* level (comments at dataobject.py:97 and 238, _make_data_model_class).   *)
DecoratedAsDeclared ==
    \A i \in 1..Len(log) :
        LET r == log[i] IN
        /\ r.declared # None => r.outcome = "returned" \/ Decl[r.cls].kind = "database"
        /\ r.outcome = "returned" =>
              /\ autogen[r.proto] = IF r.declared # None THEN r.declared ELSE r.cls
              /\ \A a \in r.attrs : a[3] = <<r.proto, a[1], a[2]>>
================================================================================
