---------------------------- MODULE MCManifestText ----------------------------
(***************************************************************************)
(* Dumps with ordinary names, with a class whose name has a blank, with    *)
(* names that hold separators, and without classes; statements on one      *)
(* line, on two as unloaddb writes a primary key, and with a line that     *)
(* begins with a bracket.                                                  *)
(***************************************************************************)
EXTENDS ManifestText

MCWord ==
  {"order", "detail", "x", "y", "z", "t", "a", "f", "u", "i", "j", "k", "pk", "pk_a", "7",
   "0", "1", "2", "3", "t_objects", "p_trigger", "unique", "clean", "violated", "ALTER",
   "CONSTRAINT", "id", "integer", "duplicate", "key", "disk", "full", "parent", "orphan",
   "rows", "lock", "timeout", "ERROR", " ", "\n", ",", " -> ", " (", ";", ":", "[", "]"}

Order1 == <<"order", " ", "detail">>
Comma == <<"x", ",", " ", "y">>
Arrow == <<"x", " -> ", "y", " (", "z">>

OneLine == <<"ALTER", " ", "pk", ";">>
TwoLines == <<"ALTER", "\n", " ", "CONSTRAINT", " ", "pk", ";">>
Bracket == <<"ALTER", "\n", "[", "id", "]", "integer", ";">>

TwoParts == <<"ERROR", ":", " ", "x", "\n", "[", "id", "]", ":", "y">>

NodeOf(n, key, more) ==
  [name |-> n, cs |-> "1", part |-> "0", pk |-> key, unique |-> more, fk |-> more,
   partitions |-> <<>>, serials |-> <<>>]

EdgeOf(c, p, n) == [child |-> c, parent |-> p, name |-> n]

GraphOf(a, b, n) ==
  [nodes |-> <<NodeOf(a, <<"pk_a">>, <<n, <<"u">> >>), NodeOf(b, <<>>, <<>>)>>,
   edges |-> <<[child |-> a, parent |-> b, name |-> n, cols |-> <<n, <<"k">> >>,
                parentPk |-> <<<<"i">>, <<"j">> >>, childPk |-> <<>>]>>,
   supers |-> <<[child |-> b, super |-> a]>>,
   cycles |-> <<<<a, b, a>> >>, skipped |-> <<n>>, levels |-> <<<<b>>, <<a, n>> >>]

MCGraphs == {NoGraph, GraphOf(<<"t">>, Order1, <<"f">>), GraphOf(Comma, Arrow, Arrow)}

MCStrips == {<<[kind |-> <<"pk">>, cls |-> Order1, name |-> Comma]>>}

MCLoads ==
  {[rows |-> <<"7">>, failed |-> <<"0">>,
    files |-> <<[file |-> <<"t_objects">>, rows |-> <<"7">>, failed |-> <<"0">>]>>]}

PendingOf(statement) ==
  [kind |-> <<"pk">>, cls |-> Order1, name |-> <<"pk">>,
   reason |-> <<"duplicate", " ", "key">>, readd |-> statement]

HeldOf(a) == [child |-> a, parent |-> <<"t">>, name |-> <<"f">>,
              reason |-> <<"parent", " ", "key">>]

FailedOf(reason) == [name |-> Order1, reason |-> reason]

MCRebuilds ==
  {[rebuilt |-> <<[kind |-> <<"unique">>, cls |-> <<"t">>, name |-> <<"u">>]>>,
    pending |-> <<>>, indexes |-> <<<<"i">> >>, failed |-> f, withheld |-> <<>>] :
   f \in {<<>>, <<FailedOf(<<"disk", " ", "full">>)>>, <<FailedOf(TwoParts), FailedOf(TwoParts)>>}}
  \cup {[rebuilt |-> <<>>, pending |-> <<PendingOf(s)>>, indexes |-> <<>>,
         failed |-> <<>>, withheld |-> <<HeldOf(Order1)>>] :
        s \in {<<>>, TwoLines, Bracket}}
  \cup {[rebuilt |-> <<>>, pending |-> <<[PendingOf(OneLine) EXCEPT !.reason = TwoParts]>>,
         indexes |-> <<>>, failed |-> <<>>, withheld |-> <<HeldOf(Order1)>>]}

EdgeWith(a, status) ==
  [child |-> a, parent |-> <<"t">>, name |-> <<"f">>, status |-> status]

WithheldOf(a, statement) ==
  [child |-> a, parent |-> <<"t">>, name |-> <<"f">>,
   reason |-> <<"orphan", " ", "rows">>, readd |-> statement]

MCFkWorks ==
  {[edges |-> <<>>, defined |-> <<>>, withheld |-> <<>>],
   [edges |-> <<EdgeWith(Order1, <<"clean">>)>>,
    defined |-> <<EdgeOf(Order1, <<"t">>, <<"f">>)>>, withheld |-> <<>>]}
  \cup {[edges |-> <<EdgeWith(a, <<"violated", " ", "3">>)>>, defined |-> <<>>,
         withheld |-> <<WithheldOf(a, s), WithheldOf(a, <<>>)>>] :
        a \in {Order1, Arrow}, s \in {OneLine, Bracket}}

MCStatWorks ==
  {[updated |-> <<"2">>, failed |-> <<>>],
   [updated |-> <<"1">>,
    failed |-> <<[cls |-> Order1, reason |-> <<"lock", " ", "timeout">>]>>],
   [updated |-> <<"0">>,
    failed |-> <<[cls |-> <<"t">>, reason |-> TwoParts], [cls |-> Order1, reason |-> TwoParts]>>]}

MCTriggerWorks ==
  {[file |-> <<>>, defined |-> <<"0">>, failed |-> <<"0">>],
   [file |-> <<"p_trigger">>, defined |-> <<"1">>, failed |-> <<"1">>]}
================================================================================
