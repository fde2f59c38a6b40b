----------------------------- MODULE ManifestText -----------------------------
(***************************************************************************)
(* The text of importdb.manifest: what render_manifest() writes of the     *)
(* phase summaries, what read_manifest() makes of it, and what is left of  *)
(* a summary that a resumed run has taken over from the text and writes    *)
(* again, several times in a row.                                          *)
(*                                                                         *)
(* A text is a sequence of lines and a line a sequence of tokens: a word,  *)
(* or one of the separators the parser looks for.  " -> ", " :: " and      *)
(* " (" are one token each.  A name, a reason and a statement are          *)
(* sequences of tokens too, and may hold separators and line breaks.       *)
(*                                                                         *)
(* Simplifications.  Tallies that no reader takes up are left out; those   *)
(* that are recounted from the lines are the lengths of the lists.  The    *)
(* [set] section and the format version do not change between the runs     *)
(* (DumpDir compares them).  What the phases have to say is chosen from    *)
(* small sets; it does not depend on what was read back.                   *)
(***************************************************************************)
EXTENDS Naturals, Sequences, SequencesExt

CONSTANTS
  Word,        \* what names, reasons and statements are made of
  Graphs,      \* the graphs that build_graph may deliver
  Strips,      \* lists of dropped constraints: [kind, cls, name]
  Loads,       \* load summaries: [rows, failed, files]
  Rebuilds,    \* rebuild summaries
  FkWorks,     \* FK define summaries: [edges, defined, withheld]
  StatWorks,   \* statistics summaries: [updated, failed]
  TriggerWorks, \* trigger summaries: [file, defined, failed]
  MaxResumes   \* bound: resumed runs in a behaviour

VARIABLES
  mem,        \* the summaries the run holds, and the sections it writes
  known,      \* what they were when the phases that made them ended
  file,       \* importdb.manifest
  write,      \* the next write_manifest of the run
  restored,   \* the sections that this run took from the text
  planless,   \* a resume found [graph] without the order in [plan]
  resumes

vars == <<mem, known, file, write, restored, planless, resumes>>

-----------------------------------------------------------------------------
(* Text.                                                                   *)
Blank == {" ", "\t", "\n"}

Trim(t) ==
  LET ink == {i \in DOMAIN t : t[i] \notin Blank}
  IN  IF ink = {} THEN <<>> ELSE SubSeq(t, Min(ink), Max(ink))

Where(t, sep) == SelectInSeq(t, LAMBDA x : x = sep)

(* split_char                                                              *)
Split(t, sep) ==
  LET parts[n \in 0 .. Len(t)] ==
        IF n = 0 THEN << <<>> >>
        ELSE LET done == parts[n - 1]
             IN  IF t[n] = sep THEN Append(done, <<>>)
                 ELSE [done EXCEPT ![Len(done)] = Append(@, t[n])]
  IN  parts[Len(t)]

Join(parts, sep) ==
  FlattenSeq([i \in DOMAIN parts |-> IF i = 1 THEN parts[1] ELSE sep \o parts[i]])

(* The parts that are not empty.                                           *)
Filled(parts) ==
  FlattenSeq([i \in DOMAIN parts |-> IF parts[i] = <<>> THEN <<>> ELSE <<parts[i]>>])

Trimmed(parts) == [i \in DOMAIN parts |-> Trim(parts[i])]

(* What is left and right of the first separator; all and nothing when     *)
(* there is none.                                                          *)
Left(t, sep) ==
  Trim(IF Where(t, sep) = 0 THEN t ELSE SubSeq(t, 1, Where(t, sep) - 1))

Right(t, sep) ==
  IF Where(t, sep) = 0 THEN <<>> ELSE Trim(SubSeq(t, Where(t, sep) + 1, Len(t)))

NoneMarker == <<"(none)">>
Placeholder == <<"(placeholder)">>

JoinList(items) == Join(items, <<",", " ">>)

(* parse_list                                                              *)
ParseList(t) ==
  IF Trim(t) = NoneMarker THEN <<>>
  ELSE Filled(Trimmed(Split(Trim(t), ",")))

Fields(fields) == Join(fields, <<"\t">>)

(* Mutant: the records are split at blanks, as before format v2.           *)
MutSplitRecord(val) == Filled(Trimmed(Split(Left(val, " :: "), " ")))

(* split_record: format v2 when there is a tab, else v1.                   *)
SplitRecord(val) ==
  IF "\t" \in ToSet(val)
  THEN Trimmed(Split(val, "\t"))
  ELSE LET words == Filled(Trimmed(Split(Left(val, " :: "), " ")))
       IN  IF " :: " \in ToSet(val) THEN Append(words, Right(val, " :: ")) ELSE words

Field(fields, i) == IF i \in DOMAIN fields THEN fields[i] ELSE <<>>

(* field_val: the value of the first field with this key, after the fields *)
(* that stand before it by position.                                       *)
FieldVal(fields, from, key) ==
  LET found == {i \in from .. Len(fields) : fields[i] # <<>> /\ fields[i][1] = key}
  IN  IF found = {} THEN <<>> ELSE Tail(fields[Min(found)])

(* "<child> -> <parent> (<name>)" and parse_edge_ref                       *)
EdgeRef(e) == e.child \o <<" -> ">> \o e.parent \o <<" (">> \o e.name \o <<")">>

ParseEdgeRef(ref) ==
  LET rest == Right(ref, " -> ")
  IN  IF Where(ref, " -> ") = 0 THEN [child |-> <<>>, parent |-> <<>>, name |-> <<>>]
      ELSE [child |-> Left(ref, " -> "), parent |-> Left(rest, " ("),
            name |-> Left(Right(rest, " ("), ")")]

-----------------------------------------------------------------------------
(* The summaries.                                                          *)
NoGraph == [nodes |-> <<>>, edges |-> <<>>, supers |-> <<>>, cycles |-> <<>>,
            skipped |-> <<>>, levels |-> <<>>]

Nothing ==
  [phase |-> "discovered", has |-> {}, planned |-> FALSE, graph |-> NoGraph,
   strip |-> <<>>, load |-> [rows |-> <<>>, failed |-> <<>>, files |-> <<>>],
   rebuild |-> [rebuilt |-> <<>>, pending |-> <<>>, indexes |-> <<>>,
                failed |-> <<>>, withheld |-> <<>>],
   validate |-> <<>>, fkdefine |-> [defined |-> <<>>, withheld |-> <<>>],
   stats |-> [updated |-> <<>>, failed |-> <<>>],
   triggers |-> [file |-> <<>>, defined |-> <<>>, failed |-> <<>>]]

Section == {"graph", "strip", "load", "rebuild", "validate", "fkdefine",
            "stats", "triggers"}

Header(section) == <<"[", section, "]">>

Line(key, val) == <<key, ":", " ">> \o val

LinesOf(items, line(_)) == [i \in DOMAIN items |-> line(items[i])]

OrNone(t) == IF t = <<>> THEN NoneMarker ELSE t

-----------------------------------------------------------------------------
(* render_*_section                                                        *)
PlanLines(m) ==
  <<Line("planned_order",
         IF ~m.planned THEN Placeholder
         ELSE OrNone(Join([i \in DOMAIN m.graph.levels |-> JoinList(m.graph.levels[i])],
                          <<" ", "|", " ">>)))>>

NodeLine(n) ==
  Line("gnode", Fields(<<n.name, <<"cs=", n.cs>>, <<"part=", n.part>>,
                         <<"pk=">> \o n.pk, <<"uk=">> \o JoinList(n.unique),
                         <<"fk=">> \o JoinList(n.fk), <<"partn=">> \o JoinList(n.partitions),
                         <<"ser=">> \o JoinList(n.serials)>>))

EdgeLine(e) ==
  Line("gfk", Fields(<<e.child, e.parent, e.name, <<"cc=">> \o JoinList(e.cols),
                       <<"ppk=">> \o JoinList(e.parentPk),
                       <<"cpk=">> \o JoinList(e.childPk)>>))

CycleLine(c) == Line("cycle", Join(c, <<" -> ">>))

SuperLine(s) == Line("ginh", Fields(<<s.child, s.super>>))

GraphLines(g) ==
  (IF g.cycles = <<>> THEN <<Line("cycles", NoneMarker)>>
   ELSE LinesOf(g.cycles, CycleLine))
  \o <<Line("skipped_classes", OrNone(JoinList(g.skipped)))>>
  \o LinesOf(g.nodes, NodeLine)
  \o LinesOf(g.edges, EdgeLine)
  \o LinesOf(g.supers, SuperLine)

ConstraintLine(key, c) == Line(key, Fields(<<c.kind, c.cls, c.name>>))

DropLine(c) == ConstraintLine("drop", c)

StripLines(dropped) == LinesOf(dropped, DropLine)

FileLine(f) == Line("file", Join(<<f.file, f.rows, f.failed>>, <<" ">>))

LoadLines(l) ==
  <<Line("total_rows", l.rows), Line("total_failed", l.failed)>>
  \o LinesOf(l.files, FileLine)

OkLine(c) == ConstraintLine("ok", c)

PendingLines(c) ==
  <<Line("fail", Fields(<<c.kind, c.cls, c.name, c.reason>>)),
    Line("fail_readd", OrNone(c.readd))>>

IndexLine(n) == Line("index", n)

FailedLine(f) == Line("index_fail", Fields(<<f.name, f.reason>>))

CascadeLine(w) == Line("withhold", Fields(<<w.child, w.parent, w.name, w.reason>>))

RebuildLines(r) ==
  LinesOf(r.rebuilt, OkLine)
  \o FlattenSeq(LinesOf(r.pending, PendingLines))
  \o LinesOf(r.indexes, IndexLine)
  \o LinesOf(r.failed, FailedLine)
  \o LinesOf(r.withheld, CascadeLine)

StatusLine(e) == Line("edge", EdgeRef(e) \o <<" :: ">> \o e.status)

ValidateLines(edges) == LinesOf(edges, StatusLine)

DefineLine(d) == Line("define", EdgeRef(d))

WithheldLines(w) ==
  <<Line("withhold", EdgeRef(w) \o <<" :: ">> \o w.reason), Line("readd", w.readd)>>

FkdefineLines(f) ==
  LinesOf(f.defined, DefineLine) \o FlattenSeq(LinesOf(f.withheld, WithheldLines))

UnrefreshedLine(f) == Line("fail", f.cls \o <<" :: ">> \o f.reason)

StatsLines(s) == <<Line("updated", s.updated)>> \o LinesOf(s.failed, UnrefreshedLine)

TriggersLines(t) ==
  <<Line("trigger_file", OrNone(t.file)), Line("defined", t.defined),
    Line("failed", t.failed)>>

(* A line break inside a value ends the line.                              *)
Printed(lines) == FlattenSeq([i \in DOMAIN lines |-> Split(lines[i], "\n")])

Part(m, section, lines) ==
  IF section \in m.has \cup {"plan", "phases"}
  THEN <<Header(section)>> \o Printed(lines) ELSE <<>>

(* render_manifest                                                         *)
Render(m) ==
  Part(m, "plan", PlanLines(m))
  \o Part(m, "graph", GraphLines(m.graph))
  \o Part(m, "strip", StripLines(m.strip))
  \o Part(m, "load", LoadLines(m.load))
  \o Part(m, "rebuild", RebuildLines(m.rebuild))
  \o Part(m, "validate", ValidateLines(m.validate))
  \o Part(m, "fkdefine", FkdefineLines(m.fkdefine))
  \o Part(m, "stats", StatsLines(m.stats))
  \o Part(m, "triggers", TriggersLines(m.triggers))
  \o Part(m, "phases", <<Line("current", <<m.phase>>)>>)

-----------------------------------------------------------------------------
(* read_manifest, one operator for each section: what a line adds to m.    *)
ReadPlan(m, key, val) ==
  IF key = "planned_order" /\ val \notin {NoneMarker, Placeholder}
  THEN LET parts == Split(val, "|")
           levels == [i \in DOMAIN parts |-> ParseList(parts[i])]
       IN  [m EXCEPT !.graph.levels = Filled(levels)]
  ELSE m

ReadNode(val) ==
  LET f == Split(val, "\t")
  IN  [name |-> Trim(f[1]),
       cs |-> IF FieldVal(f, 2, "cs=") = <<"0">> THEN "0" ELSE "1",
       part |-> IF FieldVal(f, 2, "part=") = <<"1">> THEN "1" ELSE "0",
       pk |-> FieldVal(f, 2, "pk="), unique |-> ParseList(FieldVal(f, 2, "uk=")),
       fk |-> ParseList(FieldVal(f, 2, "fk=")),
       partitions |-> ParseList(FieldVal(f, 2, "partn=")),
       serials |-> ParseList(FieldVal(f, 2, "ser="))]

ReadEdge(val) ==
  LET f == Split(val, "\t")
  IN  [child |-> Trim(f[1]), parent |-> Trim(f[2]), name |-> Trim(f[3]),
       cols |-> ParseList(FieldVal(f, 4, "cc=")),
       parentPk |-> ParseList(FieldVal(f, 4, "ppk=")),
       childPk |-> ParseList(FieldVal(f, 4, "cpk="))]

(* Mutant: the last class of a cycle is not taken.                         *)
MutReadCycle(val) ==
  LET parts == Split(val, " -> ") IN Trimmed(SubSeq(parts, 1, Len(parts) - 1))

ReadCycle(val) == Trimmed(Split(val, " -> "))

ReadGraph(m, key, val) ==
  LET f == Split(val, "\t")
  IN  CASE key = "gnode" /\ Trim(f[1]) # <<>> ->
             [m EXCEPT !.graph.nodes = Append(@, ReadNode(val))]
        [] key = "gfk" /\ Len(f) >= 3 ->
             [m EXCEPT !.graph.edges = Append(@, ReadEdge(val))]
        [] key = "ginh" /\ Len(f) >= 2 ->
             [m EXCEPT !.graph.supers =
                Append(@, [child |-> Trim(f[1]), super |-> Trim(f[2])])]
        [] key = "cycle" -> [m EXCEPT !.graph.cycles = Append(@, ReadCycle(val))]
        [] key = "skipped_classes" -> [m EXCEPT !.graph.skipped = ParseList(val)]
        [] OTHER -> m

(* parse_drop, and the records of [rebuild] that begin the same way        *)
IsConstraint(f) == Len(f) >= 3 /\ f[1] \in {<<"fk">>, <<"unique">>, <<"pk">>}

Constraint(f) == [kind |-> f[1], cls |-> f[2], name |-> f[3]]

ReadStrip(m, key, val) ==
  LET f == SplitRecord(val)
  IN  IF key = "drop" /\ IsConstraint(f)
      THEN [m EXCEPT !.strip = Append(@, Constraint(f))] ELSE m

ReadLoad(m, key, val) ==
  LET f == Split(Trim(val), " ")
      n == Len(f)
  IN  CASE key = "total_rows" -> [m EXCEPT !.load.rows = val]
        [] key = "total_failed" -> [m EXCEPT !.load.failed = val]
        [] key = "file" /\ n >= 3 ->
             [m EXCEPT !.load.files =
                Append(@, [file |-> f[n - 2], rows |-> f[n - 1], failed |-> f[n]])]
        [] OTHER -> m

(* The statement goes to the record that precedes it.                      *)
LastReadd(records, val) ==
  IF records = <<>> THEN records
  ELSE [records EXCEPT ![Len(records)].readd = val]

(* Mutant: a failed index is taken up only with three fields.              *)
MutReadRebuild(m, key, val) ==
  LET f == SplitRecord(val)
  IN  CASE key = "fail" /\ IsConstraint(f) ->
             [m EXCEPT !.rebuild.pending =
                Append(@, [kind |-> f[1], cls |-> f[2], name |-> f[3],
                           reason |-> Field(f, 4), readd |-> <<>>])]
        [] key = "index_fail" /\ Len(f) >= 3 ->
             [m EXCEPT !.rebuild.failed =
                Append(@, [name |-> f[1], reason |-> Field(f, 2)])]
        [] OTHER -> m

ReadRebuild(m, key, val) ==
  LET f == SplitRecord(val)
  IN  CASE key = "ok" /\ IsConstraint(f) ->
             [m EXCEPT !.rebuild.rebuilt = Append(@, Constraint(f))]
        [] key = "fail" /\ IsConstraint(f) ->
             [m EXCEPT !.rebuild.pending =
                Append(@, [kind |-> f[1], cls |-> f[2], name |-> f[3],
                           reason |-> Field(f, 4), readd |-> <<>>])]
        [] key = "fail_readd" ->
             [m EXCEPT !.rebuild.pending = LastReadd(@, val)]
        [] key = "index" -> [m EXCEPT !.rebuild.indexes = Append(@, Trim(val))]
        [] key = "index_fail" /\ Len(f) >= 1 ->
             [m EXCEPT !.rebuild.failed =
                Append(@, [name |-> f[1], reason |-> Field(f, 2)])]
        [] key = "withhold" /\ Len(f) >= 3 ->
             [m EXCEPT !.rebuild.withheld =
                Append(@, [child |-> f[1], parent |-> f[2], name |-> f[3],
                           reason |-> Field(f, 4)])]
        [] OTHER -> m

WithStatus(e, status) ==
  [child |-> e.child, parent |-> e.parent, name |-> e.name, status |-> status]

ReadValidate(m, key, val) ==
  IF key = "edge"
  THEN [m EXCEPT !.validate = Append(@, WithStatus(ParseEdgeRef(Left(val, " :: ")),
                                                   Right(val, " :: ")))]
  ELSE m

(* Mutant: a statement makes a record of its own.                          *)
MutReadFkdefine(m, key, val) ==
  LET e == ParseEdgeRef(Left(val, " :: "))
  IN  IF key \in {"withhold", "readd"}
      THEN [m EXCEPT !.fkdefine.withheld =
              Append(@, [child |-> e.child, parent |-> e.parent, name |-> e.name,
                         reason |-> Right(val, " :: "), readd |-> val])]
      ELSE m

ReadFkdefine(m, key, val) ==
  LET e == ParseEdgeRef(Left(val, " :: "))
  IN  CASE key = "define" ->
             [m EXCEPT !.fkdefine.defined = Append(@, ParseEdgeRef(Trim(val)))]
        [] key = "withhold" ->
             [m EXCEPT !.fkdefine.withheld =
                Append(@, [child |-> e.child, parent |-> e.parent, name |-> e.name,
                           reason |-> Right(val, " :: "), readd |-> <<>>])]
        [] key = "readd" ->
             [m EXCEPT !.fkdefine.withheld = LastReadd(@, val)]
        [] OTHER -> m

ReadStats(m, key, val) ==
  CASE key = "updated" -> [m EXCEPT !.stats.updated = val]
    [] key = "fail" ->
         [m EXCEPT !.stats.failed =
            Append(@, [cls |-> Left(val, " :: "), reason |-> Right(val, " :: ")])]
    [] OTHER -> m

ReadTriggers(m, key, val) ==
  CASE key = "trigger_file" /\ val # NoneMarker -> [m EXCEPT !.triggers.file = val]
    [] key = "defined" -> [m EXCEPT !.triggers.defined = val]
    [] key = "failed" -> [m EXCEPT !.triggers.failed = val]
    [] OTHER -> m

ReadPhases(m, key, val) ==
  IF key = "current" THEN [m EXCEPT !.phase = val[1]] ELSE m

ReadEntry(m, section, key, val) ==
  CASE section = Header("plan") -> ReadPlan(m, key, val)
    [] section = Header("graph") -> ReadGraph(m, key, val)
    [] section = Header("strip") -> ReadStrip(m, key, val)
    [] section = Header("load") -> ReadLoad(m, key, val)
    [] section = Header("rebuild") -> ReadRebuild(m, key, val)
    [] section = Header("validate") -> ReadValidate(m, key, val)
    [] section = Header("fkdefine") -> ReadFkdefine(m, key, val)
    [] section = Header("stats") -> ReadStats(m, key, val)
    [] section = Header("triggers") -> ReadTriggers(m, key, val)
    [] section = Header("phases") -> ReadPhases(m, key, val)
    [] OTHER -> m

(* One line of the file.  A flag is set by the header of its section; a    *)
(* line that begins with a bracket is a header, known or not; a line       *)
(* without a colon says nothing. Every key is one word. The lines that     *)
(* begin with '#', which the code skips (l.1137), need no case: no key     *)
(* begins so, and a line with an unknown key changes nothing.              *)
ReadLine(state, line) ==
  LET t == Trim(line)
      key == Left(line, ":")
  IN  IF t = <<>> THEN state
      ELSE IF t[1] = "["
      THEN [section |-> t,
            m |-> [state.m EXCEPT !.has = @ \cup {s \in Section : t = Header(s)}]]
      ELSE IF Where(line, ":") = 0 \/ Len(key) # 1 THEN state
      ELSE [state EXCEPT !.m = ReadEntry(@, state.section, key[1], Right(line, ":"))]

ReadLines(state, lines) ==
  LET after[n \in 0 .. Len(lines)] ==
        IF n = 0 THEN state ELSE ReadLine(after[n - 1], lines[n])
  IN  after[Len(lines)]

Read(lines) == ReadLines([section |-> <<>>, m |-> Nothing], lines).m

-----------------------------------------------------------------------------
(* What the phases hand over.  Names are those of the catalog and of the   *)
(* dump: "a tab never occurs in a CUBRID identifier" (import_manifest.cpp  *)
(* l.195).  A reason is a message of the engine, of any number of lines,   *)
(* and a statement is one of the dump; neither has a line that the reader  *)
(* would take for one of its own.                                          *)
Identifier ==
  {t \in Seq(Word) : t # <<>> /\ Trim(t) = t /\ ToSet(t) \cap {"\t", "\n"} = {}}

Key == {"planned_order", "gnode", "gfk", "ginh", "cycle", "skipped_classes", "drop",
        "total_rows", "total_failed", "file", "ok", "fail", "fail_readd", "index",
        "index_fail", "withhold", "edge", "define", "readd", "updated",
        "trigger_file", "defined", "failed", "current"}

Bracketed(line) == Trim(line) # <<>> /\ Trim(line)[1] = "["

Foreign(line) ==
  /\ Trim(line) \notin {Header(s) : s \in Section \cup {"plan", "phases"}}
  /\ Where(line, ":") = 0 \/ Left(line, ":") \notin {<<k>> : k \in Key}

Statement == {t \in Seq(Word) : \A line \in ToSet(Tail(Split(t, "\n"))) : Foreign(line)}

Reason == {t \in Statement : t # <<>> /\ t[1] \notin Blank}

(* What is on one line and keeps its ends.                                 *)
Legible(t) == Trim(t) = t /\ ToSet(t) \cap {"\t", "\n"} = {}

Number == {<<w>> : w \in Word \ Blank}

ConstraintType ==
  [kind : {<<"fk">>, <<"unique">>, <<"pk">>}, cls : Identifier, name : Identifier]

NodeType ==
  [name : Identifier, cs : {"0", "1"}, part : {"0", "1"}, pk : Identifier \cup {<<>>},
   unique : Seq(Identifier), fk : Seq(Identifier), partitions : Seq(Identifier),
   serials : Seq(Identifier)]

EdgeType ==
  [child : Identifier, parent : Identifier, name : Identifier,
   cols : Seq(Identifier), parentPk : Seq(Identifier), childPk : Seq(Identifier)]

GraphType ==
  [nodes : Seq(NodeType), edges : Seq(EdgeType),
   supers : Seq([child : Identifier, super : Identifier]),
   cycles : Seq(Seq(Identifier) \ {<<>>}), skipped : Seq(Identifier),
   levels : Seq(Seq(Identifier) \ {<<>>})]

LoadType ==
  [rows : Number, failed : Number,
   files : Seq([file : Identifier, rows : Number, failed : Number])]

RebuildType ==
  [rebuilt : Seq(ConstraintType),
   pending : Seq([kind : {<<"fk">>, <<"unique">>, <<"pk">>}, cls : Identifier, name : Identifier,
                  reason : Reason, readd : Statement]),
   indexes : Seq(Identifier),
   failed : Seq([name : Identifier, reason : Reason]),
   withheld : Seq([child : Identifier, parent : Identifier, name : Identifier,
                   reason : Identifier])]

(* No name ends what stands before it and goes on like a violated edge.    *)
Unfeigned(e) ==
  " :: " \in ToSet(EdgeRef(e)) => Right(EdgeRef(e), " :: ")[1] # "violated"

FkType ==
  {w \in [edges : Seq([child : Identifier, parent : Identifier, name : Identifier,
                       status : Identifier]),
          defined : Seq([child : Identifier, parent : Identifier, name : Identifier]),
          withheld : Seq([child : Identifier, parent : Identifier, name : Identifier,
                          reason : Identifier, readd : Statement])] :
     /\ \A e \in ToSet(w.edges) : Unfeigned(e)
     /\ (\E e \in ToSet(w.edges) : e.status[1] = "violated") => w.withheld # <<>>}

StatType ==
  [updated : Number, failed : Seq([cls : Identifier, reason : Reason])]

TriggerType ==
  [file : (Identifier \ {NoneMarker}) \cup {<<>>}, defined : Number, failed : Number]

ASSUME ManifestTextAssumption ==
  /\ Graphs \subseteq GraphType
  /\ Strips \subseteq Seq(ConstraintType)
  /\ Loads \subseteq LoadType
  /\ Rebuilds \subseteq RebuildType
  /\ FkWorks \subseteq FkType
  /\ StatWorks \subseteq StatType
  /\ TriggerWorks \subseteq TriggerType
  /\ MaxResumes \in Nat

-----------------------------------------------------------------------------
(* The run, as far as the manifest sees it.                                *)
Order == <<"discovered", "defined", "graph", "plan", "stripped", "loaded",
           "rebuilt", "fk_defined", "stats_updated", "done", "end">>

Place(w) == CHOOSE i \in DOMAIN Order : Order[i] = w

After(w) == Order[Place(w) + 1]

(* The write that a run makes next when the text says it reached phase p.  *)
Resumed(p) == IF p = "defined" THEN "graph" ELSE After(p)

Init ==
  /\ mem = Nothing
  /\ known = Nothing
  /\ file = Render(Nothing)
  /\ write = "defined"
  /\ restored = {}
  /\ planless = FALSE
  /\ resumes = 0

Written(m) ==
  /\ mem' = m
  /\ file' = Render(m)
  /\ write' = After(write)
  /\ UNCHANGED <<restored, planless, resumes>>

WriteDefined ==
  /\ write = "defined"
  /\ Written([mem EXCEPT !.phase = "defined"])
  /\ known' = [known EXCEPT !.phase = "defined"]

(* The graph of the catalog or, in a resumed run, that of the manifest.    *)
WriteGraph ==
  /\ write = "graph"
  /\ \/ /\ "graph" \in mem.has
        /\ Written([mem EXCEPT !.planned = FALSE])
        /\ UNCHANGED known
     \/ /\ "graph" \notin mem.has
        /\ \E g \in Graphs :
             /\ Written([mem EXCEPT !.has = @ \cup {"graph"}, !.graph = g])
             /\ known' = [known EXCEPT !.has = @ \cup {"graph"}, !.graph = g]

(* The schedule takes its levels from the graph.                           *)
WritePlan ==
  /\ write = "plan"
  /\ Written([mem EXCEPT !.planned = TRUE])
  /\ known' = [known EXCEPT !.planned = TRUE]

(* The end of a phase: its summary joins those that are written.           *)
WriteAfter(phase, section, work) ==
  /\ write = phase
  /\ Written([mem EXCEPT !.phase = phase, !.planned = TRUE,
                         !.has = @ \cup {section}, ![section] = work])
  /\ known' = [known EXCEPT !.phase = phase, !.has = @ \cup {section},
                            ![section] = work]

WriteFkDefined ==
  /\ write = "fk_defined"
  /\ \E w \in FkWorks :
       LET add(m) == [m EXCEPT !.phase = "fk_defined", !.planned = TRUE,
                               !.has = @ \cup {"validate", "fkdefine"},
                               !.validate = w.edges,
                               !.fkdefine = [defined |-> w.defined, withheld |-> w.withheld]]
       IN  Written(add(mem)) /\ known' = add(known)

(* The file was written before the order was made: [plan] comes first.     *)
Unplanned == file[2] = Line("planned_order", Placeholder)

(* The run ends or is killed, and the command is repeated.                 *)
Resume ==
  /\ write # "defined"
  /\ resumes < MaxResumes
  /\ resumes' = resumes + 1
  /\ LET found == Read(file)
     IN  /\ mem' = found
         /\ write' = Resumed(found.phase)
         /\ restored' = found.has
         /\ planless' = (planless \/ ("graph" \in found.has /\ Unplanned))
  /\ UNCHANGED <<known, file>>

End ==
  /\ write = "end"
  /\ UNCHANGED vars

Next ==
  \/ WriteDefined
  \/ WriteGraph
  \/ WritePlan
  \/ \E s \in Strips : WriteAfter("stripped", "strip", s)
  \/ \E l \in Loads : WriteAfter("loaded", "load", l)
  \/ \E r \in Rebuilds : WriteAfter("rebuilt", "rebuild", r)
  \/ WriteFkDefined
  \/ \E s \in StatWorks : WriteAfter("stats_updated", "stats", s)
  \/ \E t \in TriggerWorks : WriteAfter("done", "triggers", t)
  \/ Resume
  \/ End

Spec == Init /\ [][Next]_vars

-----------------------------------------------------------------------------
(* What a resume insists on.                                               *)

(* Mutant: the flag of [graph] is expected with its first class.           *)
MutRefused(m) == m.phase = "stripped" /\ m.graph.nodes = <<>>

(* Refused as incomplete: a record the phase calls for is not in the file. *)
Refused(m) ==
  LET from(phase) == m.phase # "done" /\ Place(m.phase) >= Place(phase)
  IN  \/ from("stripped") /\ ~{"graph", "strip"} \subseteq m.has
      \/ from("loaded") /\ "load" \notin m.has
      \/ from("rebuilt") /\ "rebuild" \notin m.has
      \/ from("fk_defined") /\ ~{"validate", "fkdefine"} \subseteq m.has
      \/ from("stats_updated") /\ "stats" \notin m.has

(* A repeated command derives its exit code from this.                     *)
Unresolved(m) ==
  \/ m.rebuild.pending # <<>> \/ m.rebuild.failed # <<>>
  \/ m.fkdefine.withheld # <<>>
  \/ m.stats.failed # <<>> \/ m.triggers.failed # <<"0">>
  \/ \E e \in ToSet(m.validate) : e.status[1] = "violated"

-----------------------------------------------------------------------------
(* Names that do not contain what the parser separates at.                 *)
Ordinary(name) ==
  /\ ToSet(name) \cap {",", "|", " -> ", " (", ")", " :: "} = {}
  /\ name \notin {NoneMarker, Placeholder}

GraphNames(g) ==
  (UNION {ToSet(names) : names \in ToSet(g.cycles) \cup ToSet(g.levels) \cup {g.skipped}})
  \cup (UNION {ToSet(n.unique \o n.fk \o n.partitions \o n.serials) : n \in ToSet(g.nodes)})
  \cup (UNION {ToSet(e.cols \o e.parentPk \o e.childPk) : e \in ToSet(g.edges)})

EdgeNames(edges) == UNION {{e.child, e.parent, e.name} : e \in ToSet(edges)}

(* A statement none of whose lines looks like the header of a section.     *)
Harmless(statement) ==
  \A line \in ToSet(Tail(Split(statement, "\n"))) : ~Bracketed(line)

Unstated(records) ==
  [i \in DOMAIN records |-> [records[i] EXCEPT !.readd = <<>>]]

Spelled(records) ==
  [i \in DOMAIN records |-> [records[i] EXCEPT !.readd = OrNone(@)]]

(* After STRIP the catalog no longer has the graph, so a resume works from *)
(* the text alone: classes with blanks in their names, their constraints,  *)
(* columns, cycles and edges come back as build_graph() had them, after    *)
(* any number of resumes; the levels do unless a run was resumed between   *)
(* the write of the graph and that of the plan.                            *)
GraphSurvives ==
  (\A n \in GraphNames(known.graph) : Ordinary(n)) =>
    /\ [mem.graph EXCEPT !.levels = <<>>] = [known.graph EXCEPT !.levels = <<>>]
    /\ planless \/ mem.graph.levels = known.graph.levels

(* The summaries of finished phases, which later phases and the report     *)
(* take for their own, are what those phases made: which constraint of     *)
(* which class, every row count, every reason.                             *)
(*                                                                         *)
(* Left out: the text of repair statements and the names of object files   *)
(* (Unstated; RepairStatementKept, FileNameKept); edges and failed classes *)
(* whose names hold a separator of the parser (Ordinary); reasons of which *)
(* a line begins with a bracket (Legible); and records beside a statement  *)
(* of which a further line begins with a bracket, as that ends the section *)
(* (Harmless). A section with one such record may come back changed, and   *)
(* nothing is said of it here; the exit code is right even then            *)
(* (VerdictSurvives).                                                      *)
RecordSurvives ==
  /\ mem.has = known.has
  /\ mem.strip = known.strip
  /\ mem.load.rows = known.load.rows /\ mem.load.failed = known.load.failed
  /\ /\ \A c \in ToSet(known.rebuild.pending) : Harmless(c.readd) /\ Legible(c.reason)
     /\ \A f \in ToSet(known.rebuild.failed) : Legible(f.reason)
     =>
       [mem.rebuild EXCEPT !.pending = Unstated(@)]
         = [known.rebuild EXCEPT !.pending = Unstated(@)]
  /\ (\A n \in EdgeNames(known.validate \o known.fkdefine.defined) : Ordinary(n)) =>
       /\ mem.validate = known.validate
       /\ mem.fkdefine.defined = known.fkdefine.defined
  /\ /\ \A n \in EdgeNames(known.fkdefine.withheld) : Ordinary(n)
     /\ \A w \in ToSet(known.fkdefine.withheld) : Harmless(w.readd)
     => Unstated(mem.fkdefine.withheld) = Unstated(known.fkdefine.withheld)
  /\ (\A f \in ToSet(known.stats.failed) : Ordinary(f.cls) /\ Legible(f.reason)) =>
       mem.stats = known.stats
  /\ mem.triggers = known.triggers

(* Whatever the names and the statements are, a repeated command exits as  *)
(* the whole import would have: no loss in the text turns a shortfall into *)
(* success, or success into a shortfall.                                   *)
VerdictSurvives ==
  known.phase = "done" => (Unresolved(mem) <=> Unresolved(known))

(* What the text cannot hold is lost the first time it is read; resuming   *)
(* again loses no more.  A statement that was lost is written as "(none)", *)
(* and read back as that.                                                  *)
LosesOnce ==
  LET found == Read(file)
      spelled(m) == [m EXCEPT !.rebuild.pending = Spelled(@)]
  IN  \A s \in restored \ {"graph"} : spelled(found)[s] = spelled(mem)[s]

(* No manifest of this program is refused as incomplete by it, that of a   *)
(* dump without classes included.                                          *)
NeverIncomplete == ~Refused(Read(file))

(* import_manifest.cpp:1309: "the operator's exact repair statement".  (Of *)
(* a key without one nothing is asked.)                                    *)
RepairStatementKept ==
  \A i \in DOMAIN known.rebuild.pending :
    \/ known.rebuild.pending[i].readd = <<>>
    \/ mem.rebuild.pending[i].readd = known.rebuild.pending[i].readd

(* import_manifest.cpp:1404: the counts are the last two fields of a file  *)
(* line, "whatever the basename holds".                                    *)
FileNameKept == mem.load.files = known.load.files

(* import_manifest.cpp:1249: the order is only unknown before it is made.  *)
PlanSurvives == mem.graph.levels = known.graph.levels
================================================================================
