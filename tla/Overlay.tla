-------------------------------- MODULE Overlay --------------------------------
(***************************************************************************)
(* The overlay of a project (internal/overlay): the root document and the   *)
(* fragments kept beside packages, how they are composed, what is wrong     *)
(* with the result, and what it says of a package: its layer and what its   *)
(* layer may import.                                                        *)
(*                                                                          *)
(* A document is a set of clauses, each naming the section of the YAML file *)
(* it is written in ("sec").  A package path is the tuple of its segments;  *)
(* a glob has segments, where "*" stands for any one, and may end in "...". *)
(* A reference to a type names a package, or Local when it is short.        *)
(***************************************************************************)
EXTENDS Naturals, Sequences, FiniteSets, SequencesExt, FiniteSetsExt, TLC

CONSTANTS
  LayerOrder,   \* the names of layers, in lexical order
  GoModule,     \* the module go.mod declares
  Local,        \* the package of a type reference written as a plain name
  NoName        \* no layer

Sections == {"module", "layers", "layer_rules", "aggregates", "configs", "bounded_contexts",
             "upstream", "downstream", "adapters", "review_groups", "ports", "deny_by_default",
             "components", "allow", "forbid", "reachability"}
Of(doc, sec) == {c \in doc : c.sec = sec}

-----------------------------------------------------------------------------
(* Globs. *)

\* A layer glob: under "/..." the segments are literal, so a "*" there never matches.
MatchGlob(g, p) ==
  IF g.rec THEN IsPrefix(g.segs, p)
  ELSE /\ Len(g.segs) = Len(p)
       /\ \A i \in DOMAIN p : g.segs[i] \in {"*", p[i]}
MatchAny(globs, p) == \E g \in globs : MatchGlob(g, p)

-----------------------------------------------------------------------------
(* Composition: the root document and the fragments, frags[p] that of package p. *)

Module(doc) == {c.module : c \in Of(doc, "module")}

\* The sections of a fragment that are merged; the others are read and dropped.
Merged == {"layers", "layer_rules", "aggregates", "configs", "components", "allow", "forbid",
           "reachability"}
Qualify(p, c) ==
  IF c.sec \in {"aggregates", "configs"} /\ c.ref.pkg = Local THEN [c EXCEPT !.ref.pkg = p] ELSE c
Composed(root, frags) ==
  root \cup UNION {{Qualify(p, c) : c \in {c \in frags[p] : c.sec \in Merged}} : p \in DOMAIN frags}

Unreadable(doc) == \E c \in doc : c.sec \notin Sections
ComposeErrors(root, frags) ==
  LET Aggs(doc) == {c.agg : c \in Of(doc, "aggregates")}
      Written == {p \in DOMAIN frags : frags[p] # {}}
  IN  {p \in Written :
        \/ Unreadable(frags[p])
        \/ /\ Module(root) # {} /\ Module(frags[p]) # {}
           /\ Module(frags[p]) # Module(root)
        \/ Of(frags[p], "deny_by_default") # {}
        \/ \E a \in Aggs(frags[p]) :
             a \in Aggs(root) \/ \E q \in Written \ {p} : a \in Aggs(frags[q])}
Loads(root, frags) == ~Unreadable(root) /\ ComposeErrors(root, frags) = {}

-----------------------------------------------------------------------------
(* Validation: what is wrong with a composed document. *)

Names(cfg, sec, f) == {c[f] : c \in Of(cfg, sec)}
BadModule(cfg) == Module(cfg) # {GoModule}
NoLayers(cfg) == Of(cfg, "layers") = {}
UnknownLayers(cfg) ==
  (Names(cfg, "layer_rules", "from") \cup Names(cfg, "layer_rules", "to")) \ Names(cfg, "layers", "layer")

\* "pkg/path.Type": a plain name is no reference unless a fragment qualified it.
BadTypeRefs(cfg) == {c \in Of(cfg, "aggregates") \cup Of(cfg, "configs") : c.ref.pkg = Local}

\* An aggregate belongs to one context; contexts refer to other, known contexts.
Contexts(cfg) == Names(cfg, "bounded_contexts", "context")
BadAggregates(cfg) ==
  {c \in Of(cfg, "bounded_contexts") :
     /\ c.agg # NoName
     /\ \/ c.agg \notin Names(cfg, "aggregates", "agg")
        \/ \E d \in Of(cfg, "bounded_contexts") : d.agg = c.agg /\ d.context # c.context}
BadContexts(cfg) ==
  {c \in Of(cfg, "upstream") \cup Of(cfg, "downstream") :
     c.other = c.context \/ c.other \notin Contexts(cfg)}
BadAdapters(cfg) ==
  {c \in Of(cfg, "adapters") : c.direction \notin {"inbound", "outbound", "bidirectional"}}
BadGroups(cfg) ==
  {c \in Of(cfg, "review_groups") : \E i \in DOMAIN c.split : c.split[i] \in {"*", "..."}}

Valid(cfg) ==
  /\ ~BadModule(cfg) /\ ~NoLayers(cfg)
  /\ UnknownLayers(cfg) = {} /\ BadTypeRefs(cfg) = {}
  /\ BadAggregates(cfg) = {} /\ BadContexts(cfg) = {}
  /\ BadAdapters(cfg) = {} /\ BadGroups(cfg) = {}

-----------------------------------------------------------------------------
(* What a valid document says of the packages.  pkgs is the set of packages read, *)
(* imports the pairs of packages among which one depends on the other.           *)

\* The layer of a package is the first one, by name, with a matching glob.
Globs(cfg, l) == {c.glob : c \in {c \in Of(cfg, "layers") : c.layer = l}}
LayerOf(cfg, p) ==
  LET hits == {i \in DOMAIN LayerOrder : MatchAny(Globs(cfg, LayerOrder[i]), p)}
  IN  IF hits = {} THEN NoName ELSE LayerOrder[Min(hits)]

Allowed(cfg, l) == {l} \cup {c.to : c \in {c \in Of(cfg, "layer_rules") : c.from = l}}
\* Merge.  The imports are the dependencies it looks at: those the reader marks external and
\* those whose target has no path in the module are skipped and are no members of the set.
LayerViolations(cfg, pkgs, imports) ==
  LET layer == [p \in pkgs |-> LayerOf(cfg, p)]
  IN  {e \in imports \cap (pkgs \X pkgs) :
         /\ e[1] # e[2] /\ layer[e[1]] # NoName /\ layer[e[2]] # NoName
         /\ layer[e[2]] \notin Allowed(cfg, layer[e[1]])}

-----------------------------------------------------------------------------
(* Ports: the declarations that are reached from outside the code. *)

\* A port is a glob, or one symbol of one package, or one member of it: naming a type
\* is no licence for its members.
PortCovers(port, pkg, symbol, member) ==
  \/ port.symbol = NoName /\ MatchGlob(port.glob, pkg)
  \/ /\ port.symbol # NoName
     /\ port.glob.segs = pkg /\ port.symbol = symbol /\ port.member = member
IsPort(cfg, pkg, symbol, member) ==
  \E c \in Of(cfg, "ports") : PortCovers(c.port, pkg, symbol, member)
===============================================================================
