---------------------------- MODULE DocAuthority ----------------------------
(***************************************************************************)
(* doc create and doc refresh (src/core/doc-authority.ts): of which type a *)
(* document is, what its type asks of it, and how the commands bring it    *)
(* there while its author goes on writing. The index that is rebuilt from  *)
(* the documents at the end is in KnowledgeStore.                          *)
(*                                                                         *)
(* A document is what detection and validation look at: the type in its    *)
(* frontmatter, the type its first heading suggests, whether there is an   *)
(* H1, the contract's sections among its headings, a topology heading, and *)
(* whether the frontmatter has a line that is no scalar; and what a        *)
(* rewrite does to a scalar: "quotes" is 0 if none has a quotation mark    *)
(* inside it, and otherwise one more than the backslashes before it.  "by" *)
(* remembers who wrote the document last.                                  *)
(***************************************************************************)
EXTENDS Naturals, FiniteSets, Lists

CONSTANTS Paths,        \* document paths
          PathType,     \* byPath: the type a path suggests
          Slugs,        \* type -> slug.md, slug-2.md, ... in its canonical directory
          CreateInputs, \* doc create: [type, base, path], path "" if none is given
          RefreshInputs, \* doc refresh: [types, files], the files as they are listed
          Drafts        \* what a user may write by hand at each path

VARIABLES docs,       \* the documents that exist
          command,    \* the doc command that runs
          overwritten \* history: a command has written over a document it had not read

docVars == <<docs, command, overwritten>>

Unknown == "unknown"
Idle == [pc |-> "idle"]

Contracts ==
    [adr      |-> {"Context", "Decision", "Consequences"},
     prd      |-> {"Goal", "User Stories", "Acceptance Criteria"},
     srs      |-> {"Functional Requirements", "Non-Functional Requirements"},
     spec     |-> {"Scope", "Functional Requirements", "Interfaces and Contracts",
                   "State and Flow", "Acceptance Criteria"},
     plan     |-> {"Milestones", "Work Breakdown"},
     ddd      |-> {"Bounded Context", "Aggregate"},
     glossary |-> {"Terms"},
     pbd      |-> {"Implementation Scope", "Phase Topology", "Binding Map",
                   "Interaction Paths", "Failure and Drift Points", "Observability Notes"}]
KnownTypes == DOMAIN Contracts
Types == KnownTypes \cup {Unknown}

IsDocument(doc) ==
    /\ doc = [type |-> doc.type, heading |-> doc.heading, h1 |-> doc.h1,
              sections |-> doc.sections, topology |-> doc.topology,
              list |-> doc.list, quotes |-> doc.quotes, by |-> doc.by]
    /\ doc.type \in Types /\ doc.heading \in Types
    /\ doc.h1 \in BOOLEAN /\ doc.topology \in BOOLEAN /\ doc.list \in BOOLEAN
    /\ doc.quotes \in Nat

\* doc create asks for a known type, and "by" is right about the user's documents.
ASSUME DocumentAssumption ==
    /\ \A input \in CreateInputs : input.type \in KnownTypes /\ IsDocument(input.base)
    /\ \A p \in Paths : \A doc \in Drafts[p] : IsDocument(doc) /\ doc.by = "user"

\* The frontmatter comes first, then the path, then the heading.
DetectDocType(p, doc) ==
    IF doc.type # Unknown THEN doc.type
    ELSE IF PathType[p] # Unknown THEN PathType[p] ELSE doc.heading

Violations(type, doc) ==
    (Contracts[type] \ doc.sections)
        \cup {v \in {"frontmatter.type"} : doc.type # type}
        \cup {v \in {"H1"} : ~doc.h1}
        \cup {v \in {"[B1]"} : type = "pbd" /\ ~doc.topology}

\* Reading takes the outer quotes off a scalar and leaves what is escaped inside as
\* it is; writing puts a backslash before every quotation mark again.
EscapeQuotes(n) == IF n = 0 THEN 0 ELSE n + 1

\* What is missing is appended; the frontmatter is written anew from its scalars.
\* mutant: the topology heading is only asked for.
RefreshedWithoutTopology(type, doc) ==
    [doc EXCEPT !.type = type, !.list = FALSE,
                !.heading = IF doc.h1 THEN @ ELSE type, !.h1 = TRUE,
                !.sections = @ \cup Contracts[type], !.quotes = EscapeQuotes(@)]
RefreshDocumentContent(type, doc) ==
    [type |-> type, heading |-> IF doc.h1 THEN doc.heading ELSE type, h1 |-> TRUE,
     sections |-> doc.sections \cup Contracts[type], topology |-> doc.topology \/ type = "pbd",
     list |-> FALSE, quotes |-> EscapeQuotes(doc.quotes), by |-> doc.by]

-----------------------------------------------------------------------------
Put(p, doc) == docs' = [q \in DOMAIN docs \cup {p} |-> IF q = p THEN doc ELSE docs[q]]
Begin(record) == command.pc = "idle" /\ command' = record /\ UNCHANGED <<docs, overwritten>>
Written(type, doc) == [RefreshDocumentContent(type, doc) EXCEPT !.by = "doc"]

\* uniqueAbsolutePath: the first name that is free.
UniquePath(names) ==
    names[CHOOSE i \in DOMAIN names :
             names[i] \notin DOMAIN docs /\ \A j \in 1..(i - 1) : names[j] \in DOMAIN docs]

\* createDoc: the path is resolved, then looked at, and written after the template
\* was read. Slugs bounds the names tried.
StartCreate(input) ==
    /\ input.path = "" => ToSet(Slugs[input.type]) \ DOMAIN docs # {}
    /\ Begin([pc |-> "check", type |-> input.type, base |-> input.base,
              path |-> IF input.path # "" THEN input.path ELSE UniquePath(Slugs[input.type])])
CheckPath ==
    /\ command.pc = "check"
    /\ command' = IF command.path \in DOMAIN docs THEN Idle
                  ELSE [pc |-> "write", type |-> command.type, base |-> command.base,
                        path |-> command.path, found |-> DOMAIN docs]
    /\ UNCHANGED <<docs, overwritten>>
WriteDoc ==
    /\ command.pc = "write"
    /\ Put(command.path, Written(command.type, command.base))
    /\ overwritten' = (overwritten \/ command.path \in DOMAIN docs)
    /\ command' = Idle

\* refreshDocs: the documents are listed, then read, judged and written one by one.
StartRefresh(input) ==
    Begin([pc |-> "next", types |-> input.types, todo |-> Kept(input.files, DOMAIN docs)])
\* A rewrite that would only change the layout of the frontmatter is left out.
Refreshes(p) ==
    LET type == DetectDocType(p, docs[p])
    IN  /\ type \in KnownTypes \cap command.types
        /\ RefreshDocumentContent(type, docs[p]) # docs[p]
\* A document that is gone ends the command.
ReadDoc ==
    /\ command.pc = "next"
    /\ command' =
          IF command.todo = <<>> \/ Head(command.todo) \notin DOMAIN docs THEN Idle
          ELSE LET p == Head(command.todo)
                   rest == Tail(command.todo)
               IN  IF Refreshes(p)
                   THEN [pc |-> "rewrite", types |-> command.types, todo |-> rest,
                         path |-> p, seen |-> docs[p]]
                   ELSE [pc |-> "next", types |-> command.types, todo |-> rest]
    /\ UNCHANGED <<docs, overwritten>>
RewriteDoc ==
    /\ command.pc = "rewrite"
    /\ Put(command.path, Written(DetectDocType(command.path, command.seen), command.seen))
    /\ overwritten' = \/ overwritten
                      \/ command.path \in DOMAIN docs /\ docs[command.path] # command.seen
    /\ command' = [pc |-> "next", types |-> command.types, todo |-> command.todo]

DocStep == CheckPath \/ WriteDoc \/ ReadDoc \/ RewriteDoc
StopDoc == command.pc # "idle" /\ command' = Idle /\ UNCHANGED <<docs, overwritten>>

\* The user writes or deletes a document.
EditDoc(p) == \E doc \in Drafts[p] : Put(p, doc) /\ UNCHANGED <<command, overwritten>>
DeleteDoc(p) ==
    /\ p \in DOMAIN docs
    /\ docs' = [q \in DOMAIN docs \ {p} |-> docs[q]] /\ UNCHANGED <<command, overwritten>>

-----------------------------------------------------------------------------
\* What doc create or doc refresh wrote last is a document of a known type that
\* breaks no rule of its contract, and refreshing it again would change nothing but
\* the quotation marks inside its scalars, so nothing at all if it has none;
\* whatever template, text given by hand or folder it came from, and whoever
\* edited it before.
DocsConform ==
    \A p \in DOMAIN docs : docs[p].by = "doc" =>
        LET type == DetectDocType(p, docs[p])
        IN  /\ type \in KnownTypes /\ Violations(type, docs[p]) = {}
            /\ RefreshDocumentContent(type, docs[p]) =
                  [docs[p] EXCEPT !.quotes = EscapeQuotes(@)]

\* commands/doc/refresh.mdx:9: "non-destructively rewrites tracked docs".
RefreshKeepsFrontmatter ==
    command.pc = "rewrite" =>
        LET type == DetectDocType(command.path, command.seen)
            new == RefreshDocumentContent(type, command.seen)
        IN  (command.seen.list => new.list) /\ new.quotes = command.seen.quotes
=============================================================================
