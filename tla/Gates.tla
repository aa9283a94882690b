---------------------------------- MODULE Gates ----------------------------------
(***************************************************************************)
(* The architecture gates that a build runs (internal/check, wyrd-check):   *)
(* the layer rules, the dependency policy and both in one pass, over an     *)
(* overlay that people edit in the root document and in fragments beside    *)
(* the packages, and over the imports of the code.  A gate is a function of *)
(* what lies on disk and of the packages it was told to scan.               *)
(***************************************************************************)
EXTENDS Policy

CONSTANTS
  AllPackages,   \* the packages of the module
  RootPool,      \* what people write in the root document
  FragmentPool,  \* what people write in fragments
  MaxClauses     \* bound on the clauses written beside those

VARIABLES
  root,     \* the root document
  frags,    \* the fragment of each package, {} without one
  imports   \* the dependencies among packages

gateVars == <<root, frags, imports>>

ASSUME PkgOrderAssumption == PkgOrder \in Seq(AllPackages) /\ ToSet(PkgOrder) = AllPackages

GateTypeOK ==
  /\ root \subseteq RootPool
  /\ frags \in [AllPackages -> SUBSET FragmentPool]
  /\ imports \subseteq AllPackages \X AllPackages

-----------------------------------------------------------------------------
(* The gates.  Each fails when the overlay does not load or is not valid. *)

Cfg == Composed(root, frags)
OverlayUsable == Loads(root, frags) /\ Valid(Cfg)

OverlayPasses(scan) == OverlayUsable /\ LayerViolations(Cfg, scan, imports) = {}
PolicyPasses(scan) == OverlayUsable /\ Parses(Cfg) /\ Check(Cfg, scan, imports) = {}

\* One reading of the model, and both verdicts even if the first is bad.
AllPasses(scan) ==
  /\ OverlayUsable /\ Parses(Cfg)
  /\ LayerViolations(Cfg, scan, imports) = {}
  /\ PolicyDefined(Cfg) => Check(Cfg, scan, imports) = {}

-----------------------------------------------------------------------------
(* Edits of the documents and of the code. *)

\* A root is written from its module and layers: to lose the module is an edit, too.
Written(r, f) ==
  LET module(d) == {c \in d : c.sec = "module"}
  IN  Cardinality({c \in r : c.sec \notin {"module", "layers"}})
        + Cardinality(module(RootPool) \ r)
        + FoldSet(LAMBDA p, n : n + Cardinality(f[p]), 0, AllPackages)

EditRoot(c) ==
  /\ root' = IF c \in root THEN root \ {c} ELSE root \cup {c}
  /\ Written(root', frags) <= MaxClauses
  /\ UNCHANGED <<frags, imports>>

EditFragment(p, c) ==
  /\ frags' = [frags EXCEPT ![p] = IF c \in @ THEN @ \ {c} ELSE @ \cup {c}]
  /\ Written(root, frags') <= MaxClauses
  /\ UNCHANGED <<root, imports>>

AddImport(p, q) ==
  /\ p # q /\ <<p, q>> \notin imports
  /\ imports' = imports \cup {<<p, q>>}
  /\ UNCHANGED <<root, frags>>

DropImport(p, q) ==
  /\ <<p, q>> \in imports
  /\ imports' = imports \ {<<p, q>>}
  /\ UNCHANGED <<root, frags>>

\* A project starts from a valid root document.
GateInit ==
  /\ root \in SUBSET {c \in RootPool : c.sec \in {"module", "layers"}}
  /\ Valid(root)
  /\ frags = [p \in AllPackages |-> {}]
  /\ imports = {}

GateNext ==
  \/ \E c \in RootPool : EditRoot(c)
  \/ \E p \in AllPackages, c \in FragmentPool : EditFragment(p, c)
  \/ \E p, q \in AllPackages : AddImport(p, q) \/ DropImport(p, q)

GateSpec == GateInit /\ [][GateNext]_gateVars

-----------------------------------------------------------------------------
(* Properties. *)

\* The rules on paths are exact: one is reported broken from a package exactly when
\* the package reaches a target, in one or more imports, outside the waypoints
\* (findPath visits each package once, and a waypoint blocks its own start).
\* What a package reaches is what every set that has it and is closed has.
ClosedUnder(edges, C) == \A e \in edges : e[1] \in C => e[2] \in C
Reached(edges, from) ==
  {p \in AllPackages : \A C \in SUBSET AllPackages : from \in C /\ ClosedUnder(edges, C) => p \in C}
PathsAreExact ==
  LET cfg == Cfg
      all == Check(cfg, AllPackages, imports)
  IN  \A r \in Rules(cfg, "!~>") \cup Rules(cfg, "~>") :
        LET via == Resolve(cfg, AllPackages, r.via)
            free == {e \in imports : e[1] \notin via /\ e[2] \notin via}
        IN  {b.from : b \in {b \in all : b.rule = r}}
              = {s \in Resolve(cfg, AllPackages, r.lhs) :
                   Reached(free, s) \cap (Resolve(cfg, AllPackages, r.rhs) \ {s}) # {}}

\* Scanning some of the packages may miss violations and never invents one: what the
\* gates report of a subset, they report of the whole (newGraph keeps the edges among
\* the packages read; layers and components follow from the paths alone).  So a build
\* that is green on the whole is green on every part, by one gate or by both in one pass.
Place(b) == <<b.kind, b.rule, b.from>>
NarrowScansOnlyMiss ==
  LET cfg == Cfg
      whole == {Place(b) : b \in Check(cfg, AllPackages, imports)}
  IN  \A scan \in SUBSET AllPackages :
        /\ {Place(b) : b \in Check(cfg, scan, imports)} \subseteq whole
        /\ LayerViolations(cfg, scan, imports) \subseteq LayerViolations(cfg, AllPackages, imports)
        /\ AllPasses(AllPackages) => OverlayPasses(scan) /\ PolicyPasses(scan)
        /\ OverlayPasses(AllPackages) /\ PolicyPasses(AllPackages) => AllPasses(scan)

\* What the policy of the root forbids stays forbidden whatever the fragments say of
\* components and of allowed edges, as long as they leave the layers alone.
ForbidsSurviveFragments ==
  LET cfg == Cfg
      Hard(b) == b.kind # "unlisted-edge"
  IN  Of(cfg, "layers") = Of(root, "layers") =>
        {b \in Check(root, AllPackages, imports) : Hard(b)} \subseteq Check(cfg, AllPackages, imports)
==================================================================================
