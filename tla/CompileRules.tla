----------------------------- MODULE CompileRules -----------------------------
(***************************************************************************)
(* A compilation from its request to its two files: the phases of          *)
(* compile.rs, of which ShapesAst models the parsing of shapes, Namer, the *)
(* render loop, the manifest and cypher_file, and the command line and the *)
(* bindings writing manifest.json and queries.cypher.                      *)
(*                                                                         *)
(* Rule ids, paths and names are sequences of tokens and tokens are        *)
(* numbers, so that a rule id has its place in the order of the manifest.  *)
(* The shapes files are edited between compilations, a compiler may be     *)
(* killed while it writes.                                                 *)
(***************************************************************************)
EXTENDS ShapesAst

CONSTANTS Compilations, \* requests, with the graph and the rules they lead to
          Candidates,   \* lowered rules that the shapes files may give
          Local(_),     \* local_name: a token without its prefix, sanitized
          ShapeNames,   \* s2c:name of the shapes that have one
          Hash(_),      \* the hash of a canonical form; it may collide
          MaxLine,      \* bound: lines a shape may be moved to
          MaxEdits      \* bound: edits of the shapes files

ASSUME BoundsAssumption == MaxLine \in Nat /\ MaxEdits \in Nat

\* Tokens of their own: the separators of ids and of path syntax.
Slash == 0
Bar == 1
Opening == 2
Closing == 3
Tilde == 4
Dot == 5
\* A blank node shape is called after its line.
BlankAt(line) == 10 + line

RuleStatuses == {"compiled", "guaranteed-by-schema", "schema-mismatch",
                 "deactivated", "unsupported"}

\* shape and declaredBy are shape nodes; path holds the segments between the
\* shape and the component; meaning stands for focus, violation, details,
\* severity and messages; renders tells whether the dialect can express it.
LoweredRule == [shape : Nat, blank : BOOLEAN, declaredBy : Nat, path : Seq(Seq(Nat)),
                component : Nat, meaning : Nat, status : RuleStatuses,
                renders : BOOLEAN, labels : SUBSET Nat]

VARIABLES
    request,    \* what is asked for, and the phase that will fail, if any
    rules,      \* the lowered rules, in the order of the shapes files
    line,       \* where the shape of each rule stands
    pc,         \* what the compiler does next
    namings,    \* ids and names, parallel to rules
    entries,    \* ManifestRules made so far
    indexes,    \* recommended indexes so far
    errors,     \* what keeps the compilation from succeeding
    dir,        \* the output directory
    previous,   \* the manifest of the last successful compilation
    edits       \* edits so far

sourceVars == <<request, graph, ast, rules, line, edits>>
vars == <<sourceVars, pc, namings, entries, indexes, errors, dir, previous>>

-----------------------------------------------------------------------------
(* Before there are rules.  Each phase ends the compilation with its       *)
(* errors, before the next begins.                                         *)

\* schema is the snapshot given; fails is a phase whose input is at fault.
Request == [shapes : BOOLEAN, schema : {"none", "valid", "invalid"}, ladybug : BOOLEAN,
            fails : {"none", "load", "ontologies", "hierarchy", "lower", "mismatches"},
            failOnMismatch : BOOLEAN, lenient : BOOLEAN]

ASSUME CompilationsAssumption ==
    \A c \in Compilations : c[1] \in Request /\ IsGraph(c[2]) /\ c[3] \in Seq(Candidates)

Phases == <<"request", "load", "ontologies", "shapes", "hierarchy", "lower",
            "mismatches", "naming">>

Faulty(phase) ==
    CASE phase = "request" ->
            \/ ~ request.shapes
            \/ request.schema = "invalid"
            \/ request.ladybug /\ request.schema = "none"
      [] phase = "shapes" -> Problems # {}
      [] phase = "mismatches" -> request.fails = phase /\ request.failOnMismatch
      [] OTHER -> request.fails = phase

Phase ==
    \E i \in {i \in 1 .. Len(Phases) - 1 : pc = Phases[i]} :
        /\ IF Faulty(pc) THEN pc' = "failed" /\ errors' = {<<pc>>}
           ELSE pc' = Phases[i + 1] /\ UNCHANGED errors
        /\ IF pc = "shapes" THEN Parse ELSE UNCHANGED <<graph, ast>>
        /\ UNCHANGED <<request, rules, line, edits, namings, entries, indexes,
                       dir, previous>>

-----------------------------------------------------------------------------
(* Namer.                                                                  *)

ShapeSegment(rule, at) == IF rule.blank THEN BlankAt(at) ELSE rule.shape

\* RuleId as text: the segments joined by slashes.
Joined(segments) ==
    LET text[k \in 0 .. Len(segments)] ==
            IF k = 0 THEN <<>>
            ELSE IF k = 1 THEN segments[1]
            ELSE text[k - 1] \o <<Slash>> \o segments[k]
    IN  text[Len(segments)]

BaseIdAt(rule, at) ==
    Joined(<<<<ShapeSegment(rule, at)>>>> \o rule.path \o <<<<rule.component>>>>)

BaseId(rule) == BaseIdAt(rule, line[rule])

\* flatten_path: local names, the separators as characters of identifiers, and
\* no parentheses.
FlattenPath(path) ==
    LET tokens == SelectSeq(path, LAMBDA t : t \notin {Opening, Closing})
    IN  [i \in DOMAIN tokens |-> CASE tokens[i] = Slash -> Dot
                                   [] tokens[i] = Bar -> Bar
                                   [] OTHER -> Local(tokens[i])]

ShapeName(rule, at) ==
    IF rule.shape \in DOMAIN ShapeNames THEN ShapeNames[rule.shape]
    ELSE IF rule.blank THEN BlankAt(at) ELSE Local(rule.shape)

\* A named property shape stands for shape and path.
RuleNameAt(rule, at) ==
    LET component == <<Dot, Local(rule.component)>>
        path == FlattenPath(Joined(rule.path))
    IN  IF rule.declaredBy # rule.shape /\ rule.declaredBy \in DOMAIN ShapeNames
        THEN <<ShapeNames[rule.declaredBy]>> \o component
        ELSE <<ShapeName(rule, at)>> \o (IF path = <<>> THEN <<>> ELSE <<Dot>> \o path)
             \o component

RuleName(rule) == RuleNameAt(rule, line[rule])

\* What a rule means, without source locations and lines of blank nodes.
Canonical(rule) == <<rule.meaning, 0>>

ContentHash(rule) == Hash(Canonical(rule))

ASSUME CandidatesAssumption ==
    \A rule \in Candidates : rule \in LoweredRule /\ ContentHash(rule) \in Nat

Colliding(i) == \E j \in DOMAIN rules : j # i /\ BaseId(rules[j]) = BaseId(rules[i])

\* Mutant: the first of the rules that collide keeps its id.
AssignKeepingFirst ==
    [i \in DOMAIN rules |->
        LET suffix == IF \E j \in 1 .. i - 1 : BaseId(rules[j]) = BaseId(rules[i])
                      THEN <<Tilde, ContentHash(rules[i])>> ELSE <<>>
        IN  [id |-> BaseId(rules[i]) \o suffix, name |-> RuleName(rules[i]) \o suffix]]

Assign ==
    [i \in DOMAIN rules |->
        LET suffix == IF Colliding(i) THEN <<Tilde, ContentHash(rules[i])>> ELSE <<>>
        IN  [id |-> BaseId(rules[i]) \o suffix, name |-> RuleName(rules[i]) \o suffix]]

Duplicates(all) ==
    {<<"rule id", all[i].id>> : i \in {i \in DOMAIN all : \E j \in DOMAIN all :
                                          j # i /\ all[j].id = all[i].id}}
    \cup {<<"rule name", all[i].name>> : i \in {i \in DOMAIN all : \E j \in DOMAIN all :
                                          j # i /\ all[j].name = all[i].name}}

AssignNames ==
    /\ pc = "naming"
    /\ namings' = Assign
    /\ errors' = Duplicates(Assign)
    /\ pc' = IF errors' = {} THEN "rendering" ELSE "failed"
    /\ UNCHANGED <<sourceVars, entries, indexes, dir, previous>>

-----------------------------------------------------------------------------
(* The render loop and the manifest.                                       *)

Current == Len(entries) + 1

fingerprint(rule) == Hash(Canonical(rule))

Entry(status, queries) ==
    [id |-> namings[Current].id, name |-> namings[Current].name,
     fingerprint |-> fingerprint(rules[Current]), status |-> status,
     queries |-> queries, rule |-> rules[Current], line |-> line[rules[Current]]]

\* Mutant: a rule that is not rendered says nothing.
RenderNothingOnError ==
    /\ pc = "rendering"
    /\ Current \in DOMAIN rules
    /\ LET rule == rules[Current]
           ok == rule.status = "compiled" /\ rule.renders
       IN  /\ entries' = Append(entries, Entry(rule.status, ok))
           /\ indexes' = indexes \cup IF ok THEN rule.labels ELSE {}
    /\ UNCHANGED <<sourceVars, pc, namings, errors, dir, previous>>

\* One rule: without queries, with queries, unsupported with --lenient, an error
\* without; the loop goes on in every case.
RenderRule ==
    /\ pc = "rendering"
    /\ Current \in DOMAIN rules
    /\ LET rule == rules[Current]
           ok == rule.status = "compiled" /\ rule.renders
           fails == rule.status = "compiled" /\ ~ rule.renders
       IN  /\ entries' = Append(entries,
                Entry(IF fails /\ request.lenient THEN "unsupported" ELSE rule.status, ok))
           /\ indexes' = indexes \cup IF ok THEN rule.labels ELSE {}
           /\ errors' = errors \cup
                IF fails /\ ~ request.lenient THEN {<<"render", namings[Current].id>>} ELSE {}
    /\ UNCHANGED <<sourceVars, pc, namings, dir, previous>>

\* The order of texts, token by token.
Precedes(a, b) ==
    \/ \E k \in 1 .. Len(b) :
          /\ \A i \in 1 .. k - 1 : i <= Len(a) /\ a[i] = b[i]
          /\ k <= Len(a) => a[k] < b[k]

\* sort_by of distinct ids.
Sorted(all) ==
    [k \in DOMAIN all |->
        all[CHOOSE i \in DOMAIN all :
              Cardinality({j \in DOMAIN all : Precedes(all[j].id, all[i].id)}) = k - 1]]

ManifestOf(all, labels) == [rules |-> Sorted(all), indexes |-> labels]

FinishManifest ==
    /\ pc = "rendering"
    /\ Current \notin DOMAIN rules
    /\ IF errors = {}
       THEN /\ pc' = "create"
            /\ previous' = ManifestOf(entries, indexes)
       ELSE /\ pc' = "failed"
            /\ UNCHANGED previous
    /\ UNCHANGED <<sourceVars, namings, entries, indexes, errors, dir>>

\* cypher_file: the rules with queries, in the order of the manifest.
CypherFile(manifest) ==
    LET queried == SelectSeq(manifest.rules, LAMBDA r : r.queries)
    IN  [i \in DOMAIN queried |-> <<queried[i].name, queried[i].id>>]

-----------------------------------------------------------------------------
(* run_compile of the command line, write of the bindings.  A file is      *)
(* truncated and then written; either may fail, and leaves what it left.   *)

Absent == <<"absent">>
Torn == <<"torn">>
File(content) == <<"file", content>>

CreateDir ==
    /\ pc = "create"
    /\ pc' \in {"truncate manifest", "failed"}
    /\ UNCHANGED <<sourceVars, namings, entries, indexes, errors, dir, previous>>

Truncate(file, next) ==
    /\ \/ pc' = next /\ dir' = [dir EXCEPT ![file] = Torn]
       \/ pc' = "failed" /\ UNCHANGED dir
    /\ UNCHANGED <<sourceVars, namings, entries, indexes, errors, previous>>

Write(file, content, next) ==
    /\ \/ pc' = next /\ dir' = [dir EXCEPT ![file] = File(content)]
       \/ pc' = "failed" /\ UNCHANGED dir
    /\ UNCHANGED <<sourceVars, namings, entries, indexes, errors, previous>>

TruncateManifest == pc = "truncate manifest" /\ Truncate("manifest", "write manifest")

WriteManifest ==
    pc = "write manifest" /\ Write("manifest", previous, "truncate cypher")

\* Mutant: a failure to write the second file is ignored.
WriteCypherOrNot ==
    /\ pc = "write cypher"
    /\ pc' = "done"
    /\ dir' \in {dir, [dir EXCEPT !.cypher = File(CypherFile(previous))]}
    /\ UNCHANGED <<sourceVars, namings, entries, indexes, errors, previous>>

TruncateCypher == pc = "truncate cypher" /\ Truncate("cypher", "write cypher")

WriteCypher == pc = "write cypher" /\ Write("cypher", CypherFile(previous), "done")

-----------------------------------------------------------------------------
(* Around the compiler.                                                    *)

Init ==
    /\ \E c \in Compilations : request = c[1] /\ graph = c[2] /\ rules = c[3]
    /\ ast = Unparsed
    /\ line = [r \in Candidates |-> 1]
    /\ pc = "request"
    /\ namings = <<>> /\ entries = <<>> /\ indexes = {} /\ errors = {}
    /\ dir = [manifest |-> Absent, cypher |-> Absent]
    /\ previous = [rules |-> <<>>, indexes |-> {}]
    /\ edits = 0

\* The rules change: one more, one less, all in another order, or one moved to
\* another line.
EditRules ==
    \/ /\ \E r \in Candidates \ Range(rules), i \in 1 .. Len(rules) + 1 :
            rules' = InsertAt(rules, i, r)
       /\ UNCHANGED line
    \/ /\ \E i \in DOMAIN rules : rules' = RemoveAt(rules, i)
       /\ UNCHANGED line
    \/ rules' = Reverse(rules) /\ UNCHANGED line
    \/ /\ \E r \in Range(rules), l \in 1 .. MaxLine : line' = [line EXCEPT ![r] = l]
       /\ UNCHANGED rules

\* The shapes files are edited and compiled again, with what the edit makes of the
\* rules, or with the triples in another order.
Edit ==
    /\ pc \in {"done", "failed"}
    /\ edits < MaxEdits
    /\ edits' = edits + 1
    /\ \/ rules # <<>> /\ EditRules /\ UNCHANGED graph
       \/ rules = <<>> /\ Rearrange /\ UNCHANGED <<rules, line>>
    /\ pc' = "request"
    /\ namings' = <<>> /\ entries' = <<>> /\ indexes' = {} /\ errors' = {}
    /\ UNCHANGED <<request, ast, dir, previous>>

CompilerStep ==
    \/ Phase \/ AssignNames \/ RenderRule \/ FinishManifest \/ CreateDir
    \/ TruncateManifest \/ WriteManifest \/ TruncateCypher \/ WriteCypher

Next == CompilerStep \/ Edit

Spec == Init /\ [][Next]_vars

-----------------------------------------------------------------------------
(* Properties.                                                             *)

Distinct(all, Field(_)) == \A i, j \in DOMAIN all : Field(all[i]) = Field(all[j]) => i = j

\* A manifest speaks of every lowered rule once, in the order of the ids, under an
\* id and a name of its own, whatever was edited before; exactly the compiled
\* rules have queries, only --lenient lets a rule go that cannot be rendered, and
\* only labels of rules with queries are recommended for an index (compile.rs:310).
ManifestIsComplete ==
    pc \notin Range(Phases) \cup {"rendering", "failed"} =>
        LET all == previous.rules
        IN  /\ Len(all) = Len(rules)
            /\ {e.rule : e \in Range(all)} = Range(rules)
            /\ Distinct(all, LAMBDA e : e.name)
            /\ \A i \in 1 .. Len(all) - 1 : Precedes(all[i].id, all[i + 1].id)
            /\ \A e \in Range(all) :
                  /\ e.queries <=> e.status = "compiled"
                  /\ e.rule.status = "compiled" /\ ~ e.rule.renders => request.lenient
            /\ previous.indexes = UNION {e.rule.labels : e \in {e \in Range(all) : e.queries}}

CollidesIn(all, e) ==
    \E f \in Range(all) : f # e /\ BaseIdAt(f.rule, f.line) = BaseIdAt(e.rule, e.line)

\* "Rule ids are structural and deterministic so names survive reordering and
\* unrelated edits" (output.md:45): between two manifests a rule keeps its id and
\* its name, unless it began or ceased to collide with another or is a rule of a
\* blank shape that moved; and it always keeps its fingerprint, so that CI sees
\* the rules that changed and no other (output.md:52).
NamesSurviveEdits ==
    [][\A old \in Range(previous.rules), new \in Range(previous'.rules) :
          old.rule = new.rule =>
            /\ old.fingerprint = new.fingerprint
            /\ (/\ CollidesIn(previous.rules, old) <=> CollidesIn(previous'.rules, new)
                /\ old.rule.blank => old.line = new.line)
               => old.id = new.id /\ old.name = new.name]_previous

\* Nothing is written before every phase and every rule went without error, and a compiler
\* that exits with 0 leaves the two files of one compilation, each complete; a
\* torn file is never left behind by a success, nor are files of two compilations.
OutputIsOfOneCompilation ==
    [][/\ dir' # dir => /\ errors = {} /\ Len(entries) = Len(rules)
                        /\ request.shapes /\ request.schema # "invalid"
                        /\ request.ladybug => request.schema = "valid"
                        /\ request.fails = "mismatches" => ~ request.failOnMismatch
                        /\ request.fails \in {"none", "mismatches"}
                        /\ ast # Refused
       /\ pc' = "done" /\ pc # "done" =>
            dir' = [manifest |-> File(previous), cypher |-> File(CypherFile(previous))]]_vars
=============================================================================
