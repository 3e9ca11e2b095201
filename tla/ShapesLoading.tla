---------------------------- MODULE ShapesLoading ----------------------------
(***************************************************************************)
(* Input assembly, load.rs: files and in-memory documents are put in       *)
(* canonical order and parsed, then owl:imports are followed, pass after   *)
(* pass, until no new input appears.                                       *)
(*                                                                         *)
(* What the loader finds outside is a world: the file system with its      *)
(* links, what every import IRI means, and what every input imports.  A    *)
(* path is a number and an import IRI is a number, in the order of their   *)
(* spellings, which is the order the loader takes them in.                 *)
(***************************************************************************)
EXTENDS Integers, Sequences, FiniteSets, Functions

CONSTANTS PathCount,  \* lexically normalized paths
          IriCount,   \* IRIs that occur as the object of owl:imports
          Worlds,     \* the worlds the loader may run in
          Arguments   \* the files and documents it may be given

Paths == 1 .. PathCount
Iris == 1 .. IriCount
Missing == 0

File(p) == [kind |-> "file", at |-> p]
Document(p) == [kind |-> "document", at |-> p]
Remote(iri) == [kind |-> "remote", at |-> iri]

Sources == {File(p) : p \in Paths} \cup {Document(p) : p \in Paths}
              \cup {Remote(iri) : iri \in Iris}

\* canonical resolves links; scheme and path tell what an IRI means: several IRIs
\* may name one path (a fragment, an escape, a link).  An input in broken cannot be
\* read or parsed.
World == [canonical : {c \in [Paths -> Paths \cup {Missing}] :
                         \A p \in Paths : c[p] # Missing => c[c[p]] = c[p]},
          scheme : [Iris -> {"file", "remote", "other"}],
          path : [Iris -> Paths],
          imports : [Sources -> SUBSET Iris],
          broken : SUBSET Sources,
          remotes : {"disabled", "no fetcher", "allowed"}]

\* The paths of the files, and those of the documents in the order given.
Argument == [files : SUBSET Paths, documents : Seq(Paths)]

ASSUME ShapesLoadingAssumption ==
    /\ PathCount \in Nat
    /\ IriCount \in Nat
    /\ Worlds \subseteq World
    /\ Arguments \subseteq Argument

VARIABLES
    world,      \* what is outside
    argument,   \* the files and documents given
    pc,         \* what the loader does next
    given,      \* given sources not parsed yet
    inputs,     \* the inputs parsed, in order
    pending,    \* import IRIs this pass has still to look at
    loadedAny   \* "yes" when this pass has added an input

outside == <<world, argument>>
vars == <<outside, pc, given, inputs, pending, loadedAny>>

Loaded == Range(inputs)

Init ==
    /\ world \in Worlds
    /\ argument \in Arguments
    /\ pc = "arguments"
    /\ given = {}
    /\ inputs = <<>>
    /\ pending = {}
    /\ loadedAny = "no"

Fail(why) ==
    /\ pc' = why
    /\ UNCHANGED <<outside, given, inputs, pending, loadedAny>>

-----------------------------------------------------------------------------
(* The given files and documents.                                          *)

GivenFiles == {world.canonical[p] : p \in argument.files}

\* The sources the arguments name.
Named == {File(p) : p \in GivenFiles}
            \cup {Document(p) : p \in Range(argument.documents)}

\* The path of the i-th document is taken already.
Clash(i) ==
    \/ argument.documents[i] \in GivenFiles
    \/ \E j \in 1 .. i - 1 : argument.documents[j] = argument.documents[i]

\* A given file does not exist, or the base directory of the documents does not.
ArgumentMissing ==
    /\ pc = "arguments"
    /\ Missing \in GivenFiles \/ argument.documents # <<>>
    /\ Fail("failed: io")

DocumentRejected ==
    /\ pc = "arguments"
    /\ Missing \notin GivenFiles
    /\ \E i \in DOMAIN argument.documents :
          /\ Clash(i)
          /\ \A j \in 1 .. i - 1 : ~ Clash(j)
          /\ Fail(IF argument.documents[i] \in GivenFiles
                  THEN "failed: document shadows file"
                  ELSE "failed: duplicate document")

AcceptArguments ==
    /\ pc = "arguments"
    /\ Missing \notin GivenFiles
    /\ \A i \in DOMAIN argument.documents : ~ Clash(i)
    /\ given' = Named
    /\ pc' = "given"
    /\ UNCHANGED <<outside, inputs, pending, loadedAny>>

\* Mutant: the given inputs are parsed in the order of the arguments, not of their
\* canonical paths.
ParseGivenAsListed ==
    /\ pc = "given"
    /\ \E source \in given :
          IF source \in world.broken
          THEN Fail("failed: input")
          ELSE /\ inputs' = Append(inputs, source)
               /\ given' = given \ {source}
               /\ UNCHANGED <<outside, pc, pending, loadedAny>>

\* The sources are in a map ordered by path.
ParseGiven ==
    /\ pc = "given"
    /\ \E source \in given :
          /\ \A other \in given : source.at <= other.at
          /\ IF source \in world.broken
             THEN Fail("failed: input")
             ELSE /\ inputs' = Append(inputs, source)
                  /\ given' = given \ {source}
                  /\ UNCHANGED <<outside, pc, pending, loadedAny>>

GivenParsed ==
    /\ pc = "given"
    /\ given = {}
    /\ pc' = "scan"
    /\ UNCHANGED <<outside, given, inputs, pending, loadedAny>>

-----------------------------------------------------------------------------
(* resolve_imports.                                                        *)

\* A pass looks at the imports of the graph as it is when the pass begins.
BeginPass ==
    /\ pc = "scan"
    /\ pending' = UNION {world.imports[source] : source \in Loaded}
    /\ loadedAny' = "no"
    /\ pc' = "imports"
    /\ UNCHANGED <<outside, given, inputs>>

Take(iri) == iri \in pending /\ \A other \in pending : iri <= other

Target(iri) ==
    IF world.scheme[iri] = "file" THEN File(world.canonical[world.path[iri]])
                                  ELSE Remote(iri)

\* A document is known by the path as spelled, a file by its canonical path.
IsLoaded(iri) ==
    \/ /\ world.scheme[iri] = "file"
       /\ Document(world.path[iri]) \in Loaded
    \/ /\ world.scheme[iri] = "file"
       /\ world.canonical[world.path[iri]] # Missing
       /\ Target(iri) \in Loaded
    \/ /\ world.scheme[iri] = "remote"
       /\ Remote(iri) \in Loaded

SkipImport ==
    /\ pc = "imports"
    /\ \E iri \in pending :
          /\ Take(iri)
          /\ IsLoaded(iri)
          /\ pending' = pending \ {iri}
    /\ UNCHANGED <<outside, pc, given, inputs, loadedAny>>

\* A missing file, a remote import that is not allowed or that nobody can fetch, or
\* a scheme the loader does not know.
Refused(iri) ==
    \/ world.scheme[iri] = "file" /\ world.canonical[world.path[iri]] = Missing
    \/ world.scheme[iri] = "remote" /\ world.remotes # "allowed"
    \/ world.scheme[iri] = "other"

ImportRefused ==
    /\ pc = "imports"
    /\ \E iri \in pending : Take(iri) /\ ~ IsLoaded(iri) /\ Refused(iri)
    /\ Fail("failed: import")

\* The fetcher of the caller gives up: status, time limit or size limit.
FetchFails ==
    /\ pc = "imports"
    /\ \E iri \in pending : /\ Take(iri)
                            /\ ~ IsLoaded(iri)
                            /\ ~ Refused(iri)
                            /\ world.scheme[iri] = "remote"
    /\ Fail("failed: import")

ImportBroken ==
    /\ pc = "imports"
    /\ \E iri \in pending : /\ Take(iri)
                            /\ ~ IsLoaded(iri)
                            /\ ~ Refused(iri)
                            /\ Target(iri) \in world.broken
    /\ Fail("failed: input")

\* Mutant: the pass that loads an import does not ask for another pass.
LoadImportQuietly ==
    /\ pc = "imports"
    /\ \E iri \in pending :
          /\ Take(iri)
          /\ ~ IsLoaded(iri)
          /\ ~ Refused(iri)
          /\ Target(iri) \notin world.broken
          /\ inputs' = Append(inputs, Target(iri))
          /\ pending' = pending \ {iri}
    /\ UNCHANGED <<outside, pc, given, loadedAny>>

LoadImport ==
    /\ pc = "imports"
    /\ \E iri \in pending :
          /\ Take(iri)
          /\ ~ IsLoaded(iri)
          /\ ~ Refused(iri)
          /\ Target(iri) \notin world.broken
          /\ inputs' = Append(inputs, Target(iri))
          /\ pending' = pending \ {iri}
    /\ loadedAny' = "yes"
    /\ UNCHANGED <<outside, pc, given>>

\* Mutant: every pass is followed by another one.
PassAgain ==
    /\ pc = "imports"
    /\ pending = {}
    /\ pc' = "scan"
    /\ UNCHANGED <<outside, given, inputs, pending, loadedAny>>

EndPass ==
    /\ pc = "imports"
    /\ pending = {}
    /\ pc' = IF loadedAny = "yes" THEN "scan" ELSE "done"
    /\ UNCHANGED <<outside, given, inputs, pending, loadedAny>>

-----------------------------------------------------------------------------
Next ==
    \/ ArgumentMissing \/ DocumentRejected \/ AcceptArguments
    \/ ParseGiven \/ GivenParsed
    \/ BeginPass \/ SkipImport \/ ImportRefused \/ FetchFails \/ ImportBroken
    \/ LoadImport \/ EndPass

SafeSpec == Init /\ [][Next]_vars

\* The loader is one thread that keeps going; the fetcher has a time limit.
Spec == SafeSpec /\ WF_vars(Next)

-----------------------------------------------------------------------------
(* Properties.                                                             *)

Stops == {"done", "failed: io", "failed: document shadows file",
          "failed: duplicate document", "failed: input", "failed: import"}

\* Every variable keeps its type.
TypeOK ==
    /\ world \in World
    /\ argument \in Argument
    /\ pc \in Stops \cup {"arguments", "given", "scan", "imports"}
    /\ given \in SUBSET Sources
    /\ inputs \in Seq(Sources)
    /\ pending \in SUBSET Iris
    /\ loadedAny \in {"yes", "no"}

\* No input is parsed twice, whatever imports what: a canonical path by a chain of
\* links or by two spellings, a document, a remote IRI.  FileId, the blank node
\* names made from it and the digests rest on it.
EachSourceOnce ==
    \A i, j \in DOMAIN inputs : inputs[i] = inputs[j] => i = j

\* When loading succeeds no import is left out, neither one of the given inputs nor
\* one found on the way, although a pass looks only at the graph it began with.
ImportsAreClosed ==
    pc = "done" => \A source \in Loaded : \A iri \in world.imports[source] :
                      IsLoaded(iri)

\* The given inputs are parsed first and in path order, so that FileIds, and with
\* them every location and generated name, do not depend on the argument order.
GivenComeFirst ==
    \A i, j \in DOMAIN inputs :
       i < j /\ inputs[j] \in Named =>
          inputs[i] \in Named /\ inputs[i].at < inputs[j].at

\* Nothing is loaded that was not given or imported by an input loaded before it,
\* and nothing remote without permission.
NothingElseLoaded ==
    \A i \in DOMAIN inputs :
       \/ inputs[i] \in Named
       \/ /\ \E j \in 1 .. i - 1 : \E iri \in world.imports[inputs[j]] :
                inputs[i] = Target(iri)
          /\ inputs[i].kind = "remote" => world.remotes = "allowed"

\* What is loaded is what was given and all that it imports, every source once, and
\* nothing else: whichever way a source is spelled, linked to or replaced by a
\* document, and however late in the chain an import appears.
LoadedIsImportClosure == EachSourceOnce /\ ImportsAreClosed /\ NothingElseLoaded

\* Import cycles included, loading ends.
LoadingEnds == <>(pc \in Stops)
=============================================================================
