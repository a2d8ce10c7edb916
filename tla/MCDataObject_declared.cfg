\* @dataobject over the background inference data objects and classes of
\* every other kind, one schema, one decorator closure, three decorations.
CONSTANTS
    Classes <- MCClasses
    Decl <- MCDecl
    Schemas = {"s1"}
    SchemaTree <- MCSchemaTree
    EnumNames = {"Color"}
    Decorators = {d1}
    MaxApply = 3
    None = None
SPECIFICATION Spec
INVARIANT DecoratedAsDeclared
