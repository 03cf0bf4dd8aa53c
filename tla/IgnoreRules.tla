---------------------------- MODULE IgnoreRules -----------------------------
(***************************************************************************)
(* What an index takes in.  The rules of .veriflowignore are read once and *)
(* applied twice, in two ways: the walk that hashes the tree asks about    *)
(* each entry as it comes to it and does not enter what is ignored, and    *)
(* the provider's evidence, taken over the whole repository, is filtered   *)
(* by asking about whole paths.  The walk hashes what its list of file     *)
(* extensions names and skips what it cannot read; the provider has a list *)
(* of languages of its own.                                                *)
(*                                                                         *)
(* A path is a sequence of names.  A pattern is its segments; "*" is the   *)
(* one wildcard (the runs of segments, `**`, and `?` are left out, and so  *)
(* is a `*` inside a longer name), and the lines that no pattern can be    *)
(* made of are dropped before a rule exists.                               *)
(***************************************************************************)
EXTENDS Naturals, Sequences, FiniteSets

CONSTANTS
  TreeFiles,     \* the paths of the files; their directories follow
  Secrets,       \* the files among them that isSecretPath names
  Indexable,     \* the files whose extension is in INDEXABLE
  Parsed,        \* the files the provider has symbols of
  BuiltIn,       \* BUILT_IN_IGNORE, as rules
  WrittenRules,  \* rules a project may write
  MaxRules,      \* lines of .veriflowignore
  CallSites      \* call sites, as pairs of the files whose symbols they join;
                 \* a call that is not resolved names its own file twice

ASSUME IgnoreAssumption ==
  /\ Secrets \cup Indexable \cup Parsed \subseteq TreeFiles /\ MaxRules \in Nat
  /\ \A c \in CallSites : {c[1], c[2]} \subseteq Parsed
  /\ \A f \in TreeFiles : f \in Seq({f[i] : i \in DOMAIN f}) /\ f # <<>>
  /\ \A f, g \in TreeFiles : f # g => f \notin {SubSeq(g, 1, n) : n \in 1..Len(g)}

VARIABLES
  rules,    \* the rules in the order they are tried
  toVisit,  \* entries of the directories entered, not yet looked at
  hashed,   \* files whose hashes are taken
  unread,   \* history: files and directories that could not be read
  evidence  \* what is kept of the provider's evidence

ignoreVars == <<rules, toVisit, hashed, unread, evidence>>

NoEvidence == [read |-> FALSE, symbols |-> {}, sites |-> {}]

PathsTo(path) == {SubSeq(path, 1, n) : n \in 1..Len(path)}

Directories == UNION {PathsTo(f) \ {f} : f \in TreeFiles}

EntriesOf(dir) ==
  {p \in TreeFiles \cup Directories :
     Len(p) = Len(dir) + 1 /\ SubSeq(p, 1, Len(dir)) = dir}

\* compileRule(): a pattern with a slash is anchored to the root; a bare name
\* matches that name at any depth.
test(rule, path) ==
  LET of == IF rule.anchored THEN path
            ELSE SubSeq(path, Len(path), Len(path))
  IN /\ Len(of) = Len(rule.segments)
     /\ \A i \in DOMAIN of : rule.segments[i] \in {of[i], "*"}

\* decideOne(): the last rule that matches decides.
decideOne(path, isDirectory) ==
  LET hits == {i \in DOMAIN rules :
                 /\ rules[i].directoryOnly => isDirectory
                 /\ test(rules[i], path)}
  IN hits # {} /\ ~rules[CHOOSE i \in hits : \A j \in hits : j <= i].negated

\* Slip: only the path itself is asked about.
matchesItself(path, isDirectory) == decideOne(path, isDirectory)

\* decide(): nothing inside an ignored directory can be taken back.
matches(path, isDirectory) ==
  \E prefix \in PathsTo(path) :
    decideOne(prefix, IF prefix = path THEN isDirectory ELSE TRUE)

-----------------------------------------------------------------------------

IgnoreInit ==
  /\ \E n \in 0..MaxRules :
       \E written \in [1..n -> WrittenRules] : rules = BuiltIn \o written
  /\ toVisit = EntriesOf(<<>>)
  /\ hashed = {}
  /\ unread = {}
  /\ evidence = NoEvidence

\* walkTree(): a directory is entered unless a rule names it; one that cannot
\* be listed is taken for an empty one.
EnterDirectory(p) ==
  /\ p \in toVisit \cap Directories
  /\ \/ /\ matches(p, TRUE)
        /\ toVisit' = toVisit \ {p} /\ UNCHANGED unread
     \/ /\ ~matches(p, TRUE)
        /\ toVisit' = (toVisit \ {p}) \cup EntriesOf(p) /\ UNCHANGED unread
     \/ /\ ~matches(p, TRUE)
        /\ toVisit' = toVisit \ {p} /\ unread' = unread \cup {p}
  /\ UNCHANGED <<rules, hashed, evidence>>

\* walkTree() and hashTree(): a secret, and a file of no extension in the list,
\* is not even opened; a file that cannot be read is passed over in silence.
HashFile(p) ==
  /\ p \in toVisit \cap TreeFiles
  /\ toVisit' = toVisit \ {p}
  /\ LET wanted == p \in Indexable \ Secrets /\ ~matches(p, FALSE) IN
     \/ ~wanted /\ UNCHANGED <<hashed, unread>>
     \/ wanted /\ hashed' = hashed \cup {p} /\ UNCHANGED unread
     \/ wanted /\ unread' = unread \cup {p} /\ UNCHANGED hashed
  /\ UNCHANGED <<rules, evidence>>

\* applyIgnore(), once the hashes are taken.  A call site is kept if its file
\* and the symbols at both of its ends are.
FilterEvidence ==
  /\ toVisit = {} /\ ~evidence.read
  /\ LET kept == {f \in Parsed : ~matches(f, FALSE)}
     IN evidence' = [read |-> TRUE, symbols |-> kept,
                     sites |-> {c \in CallSites : {c[1], c[2]} \subseteq kept}]
  /\ UNCHANGED <<rules, toVisit, hashed, unread>>

IgnoreNext ==
  \/ \E p \in TreeFiles \cup Directories : EnterDirectory(p) \/ HashFile(p)
  \/ FilterEvidence

IgnoreSpec == IgnoreInit /\ [][IgnoreNext]_ignoreVars

-----------------------------------------------------------------------------

\* Freshness is judged by the hashes and the pictures are drawn from the
\* evidence, so the two must be about the same files: whatever the rules, and
\* their order, and what they take back, the symbols of a file both sides know,
\* and that could be read, are kept exactly when it is hashed; what is hashed
\* never loses its symbols; and a call site is kept exactly when both its ends
\* are.  The two lists of languages differ: a file that only the provider knows
\* keeps its symbols and has no hash.
EvidenceIsHashed ==
  evidence.read =>
    /\ \A f \in Parsed \cap (Indexable \ Secrets) :
         PathsTo(f) \cap unread = {} => (f \in evidence.symbols <=> f \in hashed)
    /\ hashed \cap Parsed \subseteq evidence.symbols
    /\ evidence.sites = {c \in CallSites : {c[1], c[2]} \subseteq evidence.symbols}
=============================================================================
