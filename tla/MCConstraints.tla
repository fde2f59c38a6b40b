----------------------------- MODULE MCConstraints -----------------------------
(* Small dumps for TLC.                                                    *)
EXTENDS Constraints

CONSTANTS a, b, c, i

pk(cls, name)     == [kind |-> "pk", cls |-> cls, name |-> name]
unique(cls, name) == [kind |-> "unique", cls |-> cls, name |-> name]
fk(cls, name, parent) ==
  [kind |-> "fk", cls |-> cls, name |-> name, parent |-> parent]

(* b is a subclass of a; c refers to a and b to c, under the same name, and *)
(* a and c share the name of their primary keys.                           *)
TreeClasses == {a, b, c}
Tree == [x \in {a, b, c} |-> IF x = a THEN {a, b} ELSE {x}]
TreeKeys == {pk(a, "p"), unique(b, "u"), pk(c, "p")}
TreeFks  == {fk(c, "f", a), fk(b, "f", c)}
TreeFaulty == {pk(a, "p"), unique(b, "u"), fk(b, "f", c), i, c}

(* c refers to b, which has its primary key from a.                        *)
HeirFks == {fk(c, "f", b)}

(* b is skipped and refers to a; there is no inheritance.                  *)
SkipClasses == {a, b}
NoSubclass == [x \in {a, b} |-> {x}]
SkipNodes == {a}
SkipKeys == {pk(a, "p"), unique(a, "u"), pk(b, "p")}
SkipFks  == {fk(b, "f", a)}
================================================================================
